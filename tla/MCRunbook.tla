----------------------------- MODULE MCRunbook -----------------------------
(***************************************************************************)
(* Runbooks, each with an edit of it.  FullBook: a command with one        *)
(* retry, an approval, the guarded command, an `always` command whose      *)
(* failure is tolerated, a cleanup on failure; the edit makes one step     *)
(* depend on another and swaps the last step for one the run does not      *)
(* know.  GateBook: a command, an approval, the guarded command; the edit  *)
(* reorders them.  PairBook: an approval and the guarded command, for two  *)
(* operators; the edit makes the command run whatever the answer, and adds *)
(* a pause.                                                                *)
(***************************************************************************)
EXTENDS Runbook, TLC

CONSTANTS a, gate, b, c, undo, x, v1, v2

Operators == Permutations(Proc)

Plain(n, k, m) == [name |-> n, kind |-> k, mode |-> m, ref |-> n,
                   retry |-> 0, tolerate |-> FALSE]

FullBook ==
  v1 :> << [Plain(a, "run", "success") EXCEPT !.retry = 1],
           Plain(gate, "approve", "success"),
           Plain(b, "run", "success"),
           [Plain(c, "run", "always") EXCEPT !.tolerate = TRUE],
           Plain(undo, "run", "on_failure") >>
  @@
  v2 :> << [Plain(a, "run", "success") EXCEPT !.tolerate = TRUE],
           Plain(gate, "approve", "success"),
           [Plain(b, "run", "failed") EXCEPT !.ref = a],
           [Plain(undo, "run", "ok") EXCEPT !.ref = a],
           Plain(x, "sleep", "success") >>

GateBook ==
  v1 :> << Plain(a, "run", "success"),
           Plain(gate, "approve", "success"),
           Plain(b, "run", "success") >>
  @@
  v2 :> << Plain(gate, "approve", "success"),
           Plain(a, "run", "success"),
           [Plain(b, "run", "always") EXCEPT !.tolerate = TRUE] >>

PairBook ==
  v1 :> << Plain(gate, "approve", "success"),
           Plain(b, "run", "success") >>
  @@
  v2 :> << Plain(gate, "approve", "success"),
           [Plain(b, "run", "always") EXCEPT !.tolerate = TRUE],
           Plain(x, "sleep", "success") >>
=============================================================================
