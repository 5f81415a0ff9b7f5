------------------------------ MODULE Guardrail ------------------------------
(***************************************************************************)
(* What the pipeline of operations promises to whoever makes a request:    *)
(* nothing changes but what the request, its confirmation, the tier of the *)
(* front and the policy allow on each endpoint; a preview and a refusal    *)
(* leave everything as it was; nothing is reported as done that is not in  *)
(* the audit log.                                                          *)
(***************************************************************************)
CONSTANTS
  Client,
  Permits,       \* the sets of things a request may be allowed to do
  Change         \* what can be done: an operation on an endpoint

VARIABLES
  open,          \* the clients with a request under way
  permit,        \* what the request of each client may do
  noted,         \* what has been noted in the undo journal for it
  changed,       \* what it has changed
  recorded,      \* what the audit log says of it
  answer         \* the last answer to each client

vars == <<open, permit, noted, changed, recorded, answer>>

Nothing == [c \in Client |-> {}]

Init ==
  /\ open = {} /\ answer = [c \in Client |-> "none"]
  /\ permit = Nothing /\ noted = Nothing /\ changed = Nothing /\ recorded = Nothing

Ask(c) ==
  /\ c \notin open /\ open' = open \cup {c}
  /\ permit' \in [Client -> Permits] /\ \A d \in Client \ {c} : permit'[d] = permit[d]
  /\ noted' = [noted EXCEPT ![c] = {}]
  /\ changed' = [changed EXCEPT ![c] = {}]
  /\ recorded' = [recorded EXCEPT ![c] = {}]
  /\ answer' = [answer EXCEPT ![c] = "none"]

Note(c) ==
  /\ c \in open
  /\ \E x \in permit[c] : noted' = [noted EXCEPT ![c] = @ \cup {x}]
  /\ UNCHANGED <<open, permit, changed, recorded, answer>>

\* A change: allowed, and noted before.
Alter(c) ==
  /\ c \in open
  /\ \E x \in permit[c] \cap noted[c] : changed' = [changed EXCEPT ![c] = @ \cup {x}]
  /\ UNCHANGED <<open, permit, noted, recorded, answer>>

Record(c) ==
  /\ c \in open
  /\ \E x \in Change : recorded' = [recorded EXCEPT ![c] = @ \cup {x}]
  /\ UNCHANGED <<open, permit, noted, changed, answer>>

Answer(c) ==
  /\ c \in open /\ open' = open \ {c}
  /\ \E a \in {"ok", "unmet", "shown", "denied", "refused", "error", "crash"} :
       /\ a \in {"shown", "refused"} => changed[c] = {} /\ noted[c] = {}
       /\ a = "ok" => changed[c] \subseteq recorded[c]
       /\ answer' = [answer EXCEPT ![c] = a]
  /\ UNCHANGED <<permit, noted, changed, recorded>>

Next == \E c \in Client : Ask(c) \/ Note(c) \/ Alter(c) \/ Record(c) \/ Answer(c)

Spec == Init /\ [][Next]_vars
=============================================================================
