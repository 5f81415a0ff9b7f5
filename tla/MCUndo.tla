------------------------------- MODULE MCUndo -------------------------------
(* Two that write down what happens in order to do it again or to undo it:  *)
(* a session, and the recorder of HTTP exchanges.  One of them moves in a   *)
(* behaviour and the other is at rest.                                      *)
EXTENDS MCSession, MCHttp

VARIABLE part  \* which one moves

NoSession ==
  /\ Init
  /\ world = [ctr |-> << >>, vol |-> << >>, net |-> {}]

NoHttp ==
  /\ HttpInit /\ via = "proxy"
  /\ talk = CHOOSE t \in Talks : TRUE
  /\ isn = [d \in Directions |-> CHOOSE n \in Isns : TRUE]

UndoInit ==
  \/ part = "session" /\ Init /\ NoHttp
  \/ part = "http" /\ NoSession /\ HttpInit

UndoNext ==
  \/ part = "session" /\ Next /\ UNCHANGED <<part, httpVars>>
  \/ part = "http" /\ HttpNext /\ UNCHANGED <<part, vars>>

UndoSpec == UndoInit /\ [][UndoNext]_<<part, vars, httpVars>>
=============================================================================
