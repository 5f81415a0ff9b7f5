------------------------------ MODULE MCShared ------------------------------
(* What threads and processes share: the audit log, and the connection pool *)
(* of a fan-out.  Neither touches the other, so one of them moves in a      *)
(* behaviour and the other is at rest.                                      *)
EXTENDS AuditLog, Pool, TLC

VARIABLE part  \* which one moves

\* The writers of the audit log are alike, and so are its events.
Alike == Permutations(Writer) \cup Permutations(Event)

NoAudit == Init /\ config = None
NoPool == PoolInit /\ ~abandons /\ host = [t \in Thread |-> CHOOSE h \in Machine : TRUE]

SharedInit == (part = "audit" /\ Init /\ NoPool) \/ (part = "pool" /\ NoAudit /\ PoolInit)

SharedNext ==
  \/ part = "audit" /\ Next /\ UNCHANGED <<part, poolVars>>
  \/ part = "pool" /\ PoolNext /\ UNCHANGED <<part, vars>>

SharedSpec == SharedInit /\ [][SharedNext]_<<part, vars, poolVars>>
=============================================================================
