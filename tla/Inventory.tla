------------------------------ MODULE Inventory ------------------------------
(***************************************************************************)
(* The fleet inventory as a file that several commands edit: add, remove,  *)
(* group and import (src/aisb/api/fleet.py, fleet/inventory.py and         *)
(* fleet/sources.py) load it, change their copy and save it whole, with no *)
(* lock.  A host is its name and its groups; the computed groups of the    *)
(* file are written by hand and no command changes them.                   *)
(*                                                                         *)
(* A command is [kind, hosts: those it names, groups, to, from: the        *)
(* selectors of `group --add` and `--remove`, empty if not given, replace, *)
(* dry].  "import" is an add of the hosts its source yields.               *)
(***************************************************************************)
EXTENDS Selector, FiniteSets

CONSTANTS
  Name,        \* host names
  Files,       \* the files to begin with: inventories
  Orders,      \* the commands that may be given
  Process,     \* the processes that run them, one command at a time
  MaxCommands, \* bound: commands in all
  Selectors    \* the selectors whose meaning is checked

\* What is read from a file.
IsInventory(inv) ==
  /\ inv = [hosts |-> inv.hosts, in |-> inv.in, computed |-> inv.computed]
  /\ DOMAIN inv.computed \subseteq Group /\ \A g \in DOMAIN inv.computed : IsSelector(inv.computed[g])

ASSUME InventoryAssumption ==
  /\ IsFiniteSet(Group)
  /\ \A f \in Files : IsInventory(f) /\ f.hosts \subseteq Name /\ Valid(f)
  /\ \A c \in Orders : c.kind \in {"add", "remove", "group"}
  /\ \A e \in Selectors : IsSelector(e)

VARIABLES
  fleet,    \* the inventory on disk
  doing,    \* of each process: "idle", "load", "edit", "save"
  cmd,      \* its command
  copy,     \* the inventory it has loaded
  given     \* commands given so far

inventoryVars == <<fleet, doing, cmd, copy, given>>

Nothing == [kind |-> "none"]

InventoryInit ==
  /\ fleet \in Files
  /\ doing = [p \in Process |-> "idle"]
  /\ cmd = [p \in Process |-> Nothing] /\ copy = [p \in Process |-> Nothing] /\ given = 0

Give(p) ==
  /\ doing[p] = "idle" /\ given < MaxCommands /\ given' = given + 1
  /\ \E c \in Orders : cmd' = [cmd EXCEPT ![p] = c]
  /\ doing' = [doing EXCEPT ![p] = "load"]
  /\ UNCHANGED <<fleet, copy>>

\* p's command is over.
Finish(p) ==
  /\ doing' = [doing EXCEPT ![p] = "idle"] /\ cmd' = [cmd EXCEPT ![p] = Nothing]
  /\ copy' = [copy EXCEPT ![p] = Nothing] /\ UNCHANGED given

\* The command raises, or was a preview.
Quit(p) == Finish(p) /\ UNCHANGED fleet

\* Inventory.load(): what does not validate is not used.
LoadFile(p) ==
  /\ doing[p] = "load"
  /\ IF Valid(fleet)
     THEN /\ doing' = [doing EXCEPT ![p] = "edit"] /\ copy' = [copy EXCEPT ![p] = fleet]
          /\ UNCHANGED <<fleet, cmd, given>>
     ELSE Quit(p)

----------------------------------------------------------------------------
(* Editing a copy.                                                         *)

\* upsert(): an entry that exists is merged, unless it is to be replaced.
Upsert(inv, h, gs, replace) ==
  LET old == IF h \in inv.hosts /\ ~replace THEN inv.in[h] ELSE {}
  IN [inv EXCEPT !.hosts = @ \cup {h},
                 !.in = [x \in inv.hosts \cup {h} |-> IF x = h THEN old \cup gs ELSE inv.in[x]]]

\* All of the hosts; no entry depends on another.
UpsertAll(inv, hs, gs, replace) ==
  [inv EXCEPT !.hosts = @ \cup hs,
              !.in = [x \in inv.hosts \cup hs |->
                        IF x \in hs THEN Upsert(inv, x, gs, replace).in[x] ELSE inv.in[x]]]

Without(inv, h) ==
  [inv EXCEPT !.hosts = @ \ {h}, !.in = [x \in inv.hosts \ {h} |-> inv.in[x]]]

Regroup(inv, g, add, remove) ==
  [inv EXCEPT !.in = [x \in inv.hosts |->
     (inv.in[x] \cup (IF x \in add THEN {g} ELSE {})) \ (IF x \in remove THEN {g} ELSE {})]]

Chosen(inv, e) == IF e = << >> THEN {} ELSE Select(inv, e)

\* The command raises: an unknown host, a selector that selects nothing, a
\* computed group.
Refuses(inv, c) ==
  CASE c.kind = "add" -> FALSE
    [] c.kind = "remove" -> ~(c.hosts \subseteq inv.hosts)
    [] c.kind = "group" -> \/ \E e \in {c.to, c.from} \ {<< >>} : Select(inv, e) = {}
                           \/ c.groups \cap DOMAIN inv.computed # {}

Changed(inv, c) ==
  CASE c.kind = "add" -> UpsertAll(inv, c.hosts, c.groups, c.replace)
    [] c.kind = "remove" -> Without(inv, CHOOSE h \in c.hosts : TRUE)
    [] c.kind = "group" -> Regroup(inv, CHOOSE g \in c.groups : TRUE, Chosen(inv, c.to), Chosen(inv, c.from))

Edit(p) ==
  /\ doing[p] = "edit"
  /\ IF Refuses(copy[p], cmd[p]) THEN Quit(p)
     ELSE /\ doing' = [doing EXCEPT ![p] = "save"]
          /\ copy' = [copy EXCEPT ![p] = Changed(copy[p], cmd[p])]
          /\ UNCHANGED <<fleet, cmd, given>>

\* _save(): validated and written whole; in a preview, only noted.
Save(p) ==
  /\ doing[p] = "save"
  /\ IF cmd[p].dry \/ ~Valid(copy[p]) THEN Quit(p)
     ELSE Finish(p) /\ fleet' = copy[p]

InventoryNext == \E p \in Process : Give(p) \/ LoadFile(p) \/ Edit(p) \/ Save(p)

InventorySpec == InventoryInit /\ [][InventoryNext]_inventoryVars

----------------------------------------------------------------------------
(* Properties.                                                             *)

Picks(inv, t, member, h) == h \in AtomSet(inv, t, member)

\* "Union of plain terms, then & intersects, ! subtracts": a host is selected
\* exactly if some plain term (if any) picks it, every & term does, and no !
\* term, wherever in the selector they stand, and the members of a computed
\* group are those its own selector means.
SelectorMeaning ==
  LET member == Members(fleet)
      Means(h, e) == /\ Plain(e) = {} \/ \E t \in Plain(e) : Picks(fleet, t, member, h)
                     /\ \A t \in Terms(e) : (t.op = "&" => Picks(fleet, t, member, h))
                                            /\ (t.op = "!" => ~Picks(fleet, t, member, h))
  IN \A h \in fleet.hosts :
       /\ \A e \in Selectors : Resolves(fleet, e) => (h \in Select(fleet, e) <=> Means(h, e))
       /\ \A g \in DOMAIN fleet.computed :
            fleet.computed[g] # << >> => (h \in member[g] <=> Means(h, fleet.computed[g]))
=============================================================================
