------------------------------ MODULE MCWatch -------------------------------
(* Four that look at containers and act on what they have seen, or show it: *)
(* the fleet's watch and canary, system remediate, the exporter and the     *)
(* portal, and the commands of a database service.  One of them moves in a  *)
(* behaviour and the others are at rest.                                    *)
EXTENDS MCMonitor, MCRemedy, Serving, Service

VARIABLE part  \* which one moves

NoMonitor == Init /\ world = (CHOOSE w \in Begins : TRUE) /\ cmd.kind = "watch"
NoRemedy ==
  RemedyInit /\ rules = (CHOOSE r \in Rules : TRUE) /\ \A b \in Box : ward[b] = [facts |-> Well, limit |-> 0]
NoServing == ServingInit /\ serves = "portal"
NoService == ServiceInit /\ box = NoBox /\ mode = CHOOSE m \in Modes : TRUE

WatchInit ==
  \/ part = "monitor" /\ Init /\ NoRemedy /\ NoServing /\ NoService
  \/ part = "remedy" /\ NoMonitor /\ RemedyInit /\ NoServing /\ NoService
  \/ part = "serving" /\ NoMonitor /\ NoRemedy /\ ServingInit /\ NoService
  \/ part = "service" /\ NoMonitor /\ NoRemedy /\ NoServing /\ ServiceInit

WatchNext ==
  \/ part = "monitor" /\ Next /\ UNCHANGED <<part, remedyVars, servingVars, serviceVars>>
  \/ part = "remedy" /\ RemedyNext /\ UNCHANGED <<part, vars, servingVars, serviceVars>>
  \/ part = "serving" /\ ServingNext /\ UNCHANGED <<part, vars, remedyVars, serviceVars>>
  \/ part = "service" /\ ServiceNext /\ UNCHANGED <<part, vars, remedyVars, servingVars>>

WatchSpec == WatchInit /\ [][WatchNext]_<<part, vars, remedyVars, servingVars, serviceVars>>
=============================================================================
