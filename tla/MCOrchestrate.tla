---------------------------- MODULE MCOrchestrate ----------------------------
(* Two that carry out a plan step by step and take it up again where it was  *)
(* left: a runbook, and the stacks of a host.  One of them moves in a        *)
(* behaviour and the other is at rest.                                       *)
EXTENDS MCRunbook, MCConverge

VARIABLE part  \* which one moves

OrchestrateInit == part \in {"runbook", "stacks"} /\ Init /\ (part = "stacks" => file = v1) /\ ConvergeInit

OrchestrateNext ==
  \/ part = "runbook" /\ Next /\ UNCHANGED <<part, stackVars>>
  \/ part = "stacks" /\ ConvergeNext /\ UNCHANGED <<part, vars>>

\* Behaviours in which the stacks stand still are not fair to them: what must
\* always hold is checked of all, what must happen of the stacks.
OrchestrateSpec ==
  OrchestrateInit /\ [][OrchestrateNext]_<<part, vars, stackVars>> /\ ConvergeFairness
=============================================================================
