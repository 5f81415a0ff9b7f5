----------------------------- MODULE MCInventory -----------------------------
(* Values for model-checking Inventory: three names, an assigned group      *)
(* "prod", and computed groups "web", "mine" that name a host, a match and  *)
(* another group.                                                           *)
EXTENDS Inventory

T(op, kind, arg) == [op |-> op, kind |-> kind, arg |-> arg]
All(op) == T(op, "all", "all")
H(op, h) == T(op, "host", h)
G(op, g) == T(op, "group", g)
Glob(op) == T(op, "match", {"a", "b"})

MCFiles ==
  {[hosts |-> {"a", "b"}, in |-> [a |-> {"prod"}, b |-> {}], computed |-> c] :
     c \in {<< >>, [web |-> <<Glob(","), H("!", "b")>>],
            [web |-> <<G(",", "prod"), G("!", "mine")>>, mine |-> <<H(",", "b")>>]}}

C(kind, hosts, groups, replace, dry) ==
  [kind |-> kind, hosts |-> hosts, groups |-> groups, to |-> << >>, from |-> << >>,
   replace |-> replace, dry |-> dry]

Move(to, from) == [C("group", {}, {"prod"}, FALSE, FALSE) EXCEPT !.to = to, !.from = from]

MCOrders ==
  {C("add", {"c"}, {g}, FALSE, FALSE) : g \in {"prod", "web"}}
  \cup {C("add", {"a"}, {}, r, FALSE) : r \in BOOLEAN}
  \cup {C("add", {"b", "c"}, {"dev"}, FALSE, d) : d \in BOOLEAN}
  \cup {C("remove", {h}, {}, FALSE, FALSE) : h \in {"a", "b"}}
  \cup {Move(<<All(",")>>, << >>), Move(<<G(",", "web")>>, << >>), Move(<< >>, <<G(",", "web")>>),
        Move(<<All(",")>>, <<H(",", "a")>>)}

MCSelectors ==
  {<<x>> : x \in {All(","), Glob(","), G(",", "web"), H(",", "c"), G("!", "prod"), G("&", "prod")}}
  \cup {<<x, y, z>> : x \in {Glob(","), G("&", "prod"), H("!", "a")},
                      y \in {G("!", "web"), H(",", "b"), Glob("&")}, z \in {H(",", "c"), G(",", "prod"), All("&")}}
=============================================================================
