------------------------------ MODULE Selector ------------------------------
(***************************************************************************)
(* The selector language of the fleet inventory                            *)
(* (src/aisb/fleet/inventory.py) over an inventory value                   *)
(*     [hosts: the host names,                                             *)
(*      in: for each host the groups it is assigned to,                    *)
(*      computed: for some groups, the selector that computes them].       *)
(* A selector is a sequence of terms [op, kind, arg]: op is "," (union),   *)
(* "&" or "!"; kind is "all", "host", "group", or "match" for a glob or a  *)
(* label, whose arg is the set of names it matches.  A ValueError of the   *)
(* code is a term that fails to resolve.                                   *)
(***************************************************************************)
EXTENDS Naturals, Sequences

CONSTANT Group

Terms(e) == {e[i] : i \in DOMAIN e}
Plain(e) == {t \in Terms(e) : t.op = ","}

\* What the parser of selectors makes: terms of these kinds.
IsTerm(t) ==
  t.op \in {",", "&", "!"} /\ t.kind \in {"all", "host", "group", "match"} /\ (t.kind = "group" => t.arg \in Group)
IsSelector(e) == e \in Seq(Terms(e)) /\ \A t \in Terms(e) : IsTerm(t)

\* The hosts of one term, given the members of each group.
AtomSet(inv, t, member) ==
  CASE t.kind = "all" -> inv.hosts
    [] t.kind = "host" -> {t.arg} \cap inv.hosts
    [] t.kind = "group" -> member[t.arg]
    [] t.kind = "match" -> t.arg \cap inv.hosts

\* Variant of Fold: terms apply from left to right, a union wherever it stands.
FoldInPlace(inv, e, member) ==
  LET f[i \in 0..Len(e)] ==
        IF i = 0 THEN IF Plain(e) = {} THEN inv.hosts ELSE {}
        ELSE LET s == AtomSet(inv, e[i], member)
             IN CASE e[i].op = "," -> f[i - 1] \cup s
                  [] e[i].op = "&" -> f[i - 1] \cap s
                  [] e[i].op = "!" -> f[i - 1] \ s
  IN f[Len(e)]

\* Union of the plain terms, or all hosts; then & and ! from left to right.
Fold(inv, e, member) ==
  LET f[i \in 0..Len(e)] ==
        IF i = 0 THEN IF Plain(e) = {} THEN inv.hosts
                      ELSE UNION {AtomSet(inv, t, member) : t \in Plain(e)}
        ELSE LET s == AtomSet(inv, e[i], member)
             IN CASE e[i].op = "," -> f[i - 1]
                  [] e[i].op = "&" -> f[i - 1] \cap s
                  [] e[i].op = "!" -> f[i - 1] \ s
  IN f[Len(e)]

Assigned(inv, g) == {h \in inv.hosts : g \in inv.in[h]}

\* members() raises for a group that is not known, or whose selector leads
\* back to it or names something unknown.  What is asked is <<the group, the
\* groups that have led to it>>.
Fails(inv) ==
  LET r[x \in Group \X SUBSET Group] ==
        \/ x[1] \in x[2]
        \/ x[1] \notin DOMAIN inv.computed /\ Assigned(inv, x[1]) = {}
        \/ /\ x[1] \in DOMAIN inv.computed
           /\ \E t \in Terms(inv.computed[x[1]]) :
                \/ t.kind = "group" /\ r[<<t.arg, x[2] \cup {x[1]}>>]
                \/ t.kind = "host" /\ t.arg \notin inv.hosts
  IN r

\* The members of each group; no group's selector leads back to it, or it is
\* cut there.
Members(inv) ==
  LET m[x \in Group \X SUBSET Group] ==
        Assigned(inv, x[1]) \cup
          IF x[1] \in x[2] \/ x[1] \notin DOMAIN inv.computed \/ inv.computed[x[1]] = << >> THEN {}
          ELSE Fold(inv, inv.computed[x[1]], [h \in Group |-> m[<<h, x[2] \cup {x[1]}>>]])
  IN [g \in Group |-> m[<<g, {}>>]]

\* select() raises ValueError: an empty or unresolvable selector, or no host.
Resolves(inv, e) ==
  /\ e # << >>
  /\ \A t \in Terms(e) : /\ t.kind = "host" => t.arg \in inv.hosts
                         /\ t.kind = "group" => ~Fails(inv)[<<t.arg, {}>>]

Select(inv, e) == IF Resolves(inv, e) THEN Fold(inv, e, Members(inv)) ELSE {}

\* validate(): no group both computed and assigned, every computed one resolves.
Valid(inv) ==
  /\ \A h \in inv.hosts : inv.in[h] \cap DOMAIN inv.computed = {}
  /\ \A g \in DOMAIN inv.computed : ~Fails(inv)[<<g, {}>>]
=============================================================================
