----------------------------- MODULE MCSession -----------------------------
(***************************************************************************)
(* A small machine: a container with an anonymous volume, and one of a     *)
(* stack with a named volume, on the stack's network.                      *)
(***************************************************************************)
EXTENDS Session

CONSTANTS solo, web, data, tmp, app, f

MCNetOf == [c \in Container |-> app]
MCVolOf == [c \in Container |-> IF c = solo THEN tmp ELSE data]
=============================================================================
