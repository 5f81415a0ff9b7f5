----------------------------- MODULE MCConverge -----------------------------
(* Values for model-checking Converge: a stack whose api depends on its db,  *)
(* a stack of one service, and two processes.                                *)
EXTENDS Converge

MCStacks == <<{"api", "db"}, {"web"}>>
MCDeps == [api |-> {"db"}, db |-> {}, web |-> {}]

C(kind, k, only, wait, volumes) ==
  [kind |-> kind, k |-> k, only |-> only, wait |-> wait, volumes |-> volumes]

MCCommand ==
  {C(kind, 1, {}, TRUE, FALSE) : kind \in {"up", "down", "ps", "diff", "replace"}}
  \cup {C("up", 1, {}, FALSE, FALSE), C("down", 1, {"db"}, TRUE, FALSE), C("down", 1, {}, TRUE, TRUE)}
=============================================================================
