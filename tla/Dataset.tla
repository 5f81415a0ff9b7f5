------------------------------- MODULE Dataset -------------------------------
(***************************************************************************)
(* `aisb db sample` and `aisb db seed` (src/aisb/services/subset.py and    *)
(* seed.py, api/services.py) on one database, while an application inserts *)
(* rows.  Both commands are a series of queries in transactions of their   *)
(* own; each query, and each insert, is a step.  A statement that fails    *)
(* ends the command.  Chunks of values are one query.                      *)
(***************************************************************************)
EXTENDS Relations, FiniteSetsExt

CONSTANTS
  Schemas,     \* the schemas to begin with
  Databases(_),\* the databases of a schema to begin with
  Num, Den,    \* sample: --ratio is Num/Den
  MaxRows,     \* sample: --max-rows
  WithChildren,\* sample: the values of --with-children
  Rows,        \* seed: --rows
  Attempts,    \* seed: at making a row (20 in the code)
  MaxInserts,  \* bound: rows the application inserts
  MaxKey       \* bound: the numbers in them, and random values, are 1..MaxKey

ASSUME DatasetAssumption ==
  {Num, Den, MaxRows, Rows, Attempts, MaxInserts, MaxKey} \subseteq Nat /\ Den > 0 /\ Attempts > 0

\* A database begins as its engine has kept it.
ASSUME SchemaAssumption ==
  \A s \in Schemas : SoundSchema(s) /\ \A d \in Databases(s) : Consistent(s, d)

VARIABLES
  schema, db,
  sample,   \* the sampling command, see Sampling
  seed,     \* the seeding command, see Seeding
  inserts   \* rows the application has inserted

vars == <<schema, db, sample, seed, inserts>>

\* at: what it does next; todo: tables still to sample or to export; sel: for
\* each table, the pairs <<columns, values>> that select rows; front: the
\* frontier, [table, cols, vals]; i: the place of the downward pass in it;
\* left: foreign keys still to follow from the current entry; cur: that entry.
Sampling(at, s, children) ==
  [at |-> at, children |-> children, todo |-> Roots(s), sel |-> [t \in Tables(s) |-> {}],
   front |-> << >>, i |-> 1, n |-> 0, left |-> {}, cur |-> << >>, out |-> [t \in Tables(s) |-> {}]]

\* wanted: --table; needed: tables to fill; base, made, batch: rows its table had,
\* rows made of it, and those of them to insert; sound: see Sound, of the
\* database it began with; quiet: nobody else has inserted since.
Seeding(at, wanted) ==
  [at |-> at, wanted |-> wanted, needed |-> wanted, asked |-> {}, todo |-> {}, table |-> "none",
   pools |-> << >>, base |-> 0, made |-> 0, batch |-> {}, sound |-> TRUE, quiet |-> TRUE]

Init ==
  /\ schema \in Schemas /\ db \in Databases(schema)
  /\ \E children \in WithChildren : sample = Sampling("roots", schema, children)
  /\ \E wanted \in (SUBSET Tables(schema)) \ {{}} : seed = Seeding("begin", wanted)
  /\ inserts = 0

----------------------------------------------------------------------------
(* sample                                                                  *)

Samples(m) == sample' = m /\ UNCHANGED <<schema, db, seed, inserts>>

\* The columns a table is sampled by: its key, or the whole row.
KeyOf(t) ==
  IF schema.pk[t] # << >> THEN schema.pk[t]
  ELSE CHOOSE q \in [1..Cardinality(schema.cols[t]) -> schema.cols[t]] : Elems(q) = schema.cols[t]

\* Subset.add(): the values that are new, of those without a NULL.
Fresh(t, cols, vals) == {v \in vals : Whole(v) /\ <<cols, v>> \notin sample.sel[t]}

\* m, where the new ones of the values select rows of t and join the frontier.
Joins(m, t, cols, vals) ==
  LET new == Fresh(t, cols, vals)
  IN [m EXCEPT !.sel[t] = @ \cup {<<cols, v>> : v \in new},
               !.front = IF new = {} THEN @ ELSE Append(@, [table |-> t, cols |-> cols, vals |-> new])]

Ceiling(total) == (total * Num + Den - 1) \div Den

\* Count a root; a table without rows is left out.
CountRoot ==
  /\ sample.at = "roots"
  /\ IF sample.todo = {}
     THEN Samples([sample EXCEPT !.at = IF sample.children THEN "down" ELSE "up"])
     ELSE \E t \in sample.todo :
            LET total == Cardinality(db[t])
                n == IF Ceiling(total) < MaxRows THEN Ceiling(total) ELSE MaxRows
            IN Samples(IF n = 0 THEN [sample EXCEPT !.todo = @ \ {t}]
                       ELSE [sample EXCEPT !.todo = @ \ {t}, !.at = "pick", !.n = n, !.cur = <<t>>])

\* Its random rows: any n of them.
PickRoot ==
  /\ sample.at = "pick"
  /\ LET t == sample.cur[1]
     IN \E rs \in SUBSET db[t] :
          /\ Cardinality(rs) = IF Cardinality(db[t]) < sample.n THEN Cardinality(db[t]) ELSE sample.n
          /\ Samples([Joins(sample, t, KeyOf(t), {Pick(r, KeyOf(t)) : r \in rs})
                        EXCEPT !.at = "roots", !.cur = << >>])

\* The rows of e's table that e selects.
Selected(e) == {r \in db[e.table] : Pick(r, e.cols) \in e.vals}

Children(e) == {f \in schema.fks : f.parent = e.table /\ f.child # e.table /\ f.ref = e.cols /\ schema.pk[f.child] # << >>}
Parents(e) == {f \in schema.fks : f.child = e.table}

\* Downwards: the next entry of the frontier, or the end of this pass.
NextDown ==
  /\ sample.at = "down" /\ sample.left = {}
  /\ IF sample.i > Len(sample.front) THEN Samples([sample EXCEPT !.at = "up", !.cur = << >>])
     ELSE LET e == sample.front[sample.i]
          IN Samples([sample EXCEPT !.i = @ + 1, !.cur = <<e>>, !.left = Children(e)])

\* The children of an entry's rows by one foreign key.
Down ==
  /\ sample.at = "down"
  /\ \E f \in sample.left :
       LET rs == {r \in db[f.child] : Pick(r, f.cols) \in sample.cur[1].vals}
       IN Samples([Joins(sample, f.child, schema.pk[f.child], {Pick(r, schema.pk[f.child]) : r \in rs})
                     EXCEPT !.left = @ \ {f}])

\* Upwards: the last entry of the frontier, or on to the export.
NextUp ==
  /\ sample.at = "up" /\ sample.left = {}
  /\ IF sample.front = << >> THEN Samples([sample EXCEPT !.at = "export", !.todo = Tables(schema), !.cur = << >>])
     ELSE LET e == sample.front[Len(sample.front)]
          IN Samples([sample EXCEPT !.front = SubSeq(@, 1, Len(@) - 1), !.cur = <<e>>, !.left = Parents(e)])

\* What an entry's rows refer to by one foreign key.
Ascend ==
  /\ sample.at = "up"
  /\ \E f \in sample.left :
       Samples([Joins(sample, f.parent, f.ref, {Pick(r, f.cols) : r \in Selected(sample.cur[1])})
                  EXCEPT !.left = @ \ {f}])

\* Variant of Exported: only what was selected by the table's own key.
ExportedByKey(t) == {r \in db[t] : \E sv \in sample.sel[t] : sv[1] = KeyOf(t) /\ Pick(r, sv[1]) = sv[2]}

\* The rows that any of the column lists selects, each once.
Exported(t) == {r \in db[t] : \E sv \in sample.sel[t] : Pick(r, sv[1]) = sv[2]}

\* Read and write the rows of one table after the other.
Export ==
  /\ sample.at = "export"
  /\ IF sample.todo = {} THEN Samples([sample EXCEPT !.at = "done"])
     ELSE \E t \in Firsts(schema, Tables(schema), sample.todo) :
            Samples([sample EXCEPT !.todo = @ \ {t}, !.out[t] = Exported(t)])

----------------------------------------------------------------------------
(* seed                                                                    *)

Seeds(m) == seed' = m /\ UNCHANGED <<schema, db, sample, inserts>>

\* A reference that a row of its table cannot do without.
Required(f) == \E c \in Elems(f.cols) : <<f.child, c>> \notin schema.free

\* Variant of Needs: the tables asked for and no others.
NeedsNone(f) == FALSE

\* An empty parent that a wanted table requires is seeded too; its own parents
\* are not looked at.
Needs(f) == Required(f) /\ db[f.parent] = {}

References(ts) == {f \in Between(schema) : f.child \in ts}

(* Where the values of a column come from that refers to nothing.  Made by *)
(* Generator.value: "serial" with the index of the row in it if the column *)
(* is in a key (or a random UUID); "random" from a range or a list, or     *)
(* perhaps the same for two indices: choices, names, texts that are cut.   *)
(* Left to the engine: "sequence" a number of its own (or UUID), "default" *)
(* some value; "bytes" are left out and NULL.                              *)
Kind(t, c) == schema.kind[<<t, c>>]

Referring(t) == {c \in schema.cols[t] : \E f \in schema.fks : f.child = t /\ c \in Elems(f.cols)}

\* The columns that the INSERT names, and the keys made of them only.
Named(t) == {c \in schema.cols[t] : Kind(t, c) # "bytes" /\ (Kind(t, c) \in {"serial", "random"} \/ c \in Referring(t))}
MadeKeys(t) == {k \in Keys(schema, t) : Elems(k) \subseteq Named(t)}

Numbered(t) == {c \in schema.cols[t] \ Referring(t) : Kind(t, c) = "serial" /\ \E k \in MadeKeys(t) : c \in Elems(k)}
Sequenced(t) == {c \in schema.cols[t] \ Referring(t) : Kind(t, c) = "sequence"}
Blank(t) == {c \in schema.cols[t] : Kind(t, c) = "bytes"}
Loose(t) == schema.cols[t] \ (Referring(t) \cup Numbered(t) \cup Sequenced(t) \cup Blank(t))

\* Every row of t can have keys of its own: by a number the engine gives, or one
\* above those in use, or as no row of t has one yet; or with a NULL.
KeysLeft(t) ==
  \A k \in Keys(schema, t) :
    \/ Elems(k) \cap (Sequenced(t) \cup Blank(t)) # {}
    \/ /\ k \in MadeKeys(t)
       /\ \/ db[t] = {}
          \/ \E c \in Elems(k) \cap Numbered(t) : \A r \in db[t] : r[c] \in 0..Cardinality(db[t])

\* Nor is there another constraint, or bytes that it needs.
CanFill(t) ==
  /\ KeysLeft(t) /\ t \notin schema.strict
  /\ \A c \in Blank(t) : <<t, c>> \in schema.free /\ c \notin Referring(t)

\* A required reference can be met by what is there, or by what is seeded before.
CanRefer(f, seeded) ==
  /\ db[f.parent] # {} \/ f.parent \in seeded \ {f.child}
  /\ \A c \in Elems(f.ref) : <<f.parent, c>> \notin schema.free

\* What filling the wanted tables rests on: no circle, no required reference that
\* cannot be met, no column of two references, and tables that can take rows.
Sound(wanted) ==
  LET seeded == wanted \cup {f.parent : f \in {g \in References(wanted) : Required(g) /\ db[g.parent] = {}}}
      Used == {f \in schema.fks : f.child \in seeded}
  IN /\ ~\E r \in SUBSET Tables(schema) : Cyclic(schema, r)
     /\ \A f \in Used : /\ Required(f) => CanRefer(f, seeded)
                        /\ \A g \in Used : f.child = g.child /\ Elems(f.cols) \cap Elems(g.cols) # {} => f = g
     /\ \A t \in seeded : CanFill(t)

Begin ==
  /\ seed.at = "begin"
  /\ Seeds([seed EXCEPT !.at = "needed", !.asked = References(seed.wanted), !.quiet = TRUE,
              !.sound = Sound(seed.wanted)])

\* Count one parent.
AskParent ==
  /\ seed.at = "needed"
  /\ IF seed.asked = {} THEN Seeds([seed EXCEPT !.at = "next", !.todo = seed.needed])
     ELSE \E f \in seed.asked :
            Seeds([seed EXCEPT !.asked = @ \ {f}, !.needed = IF Needs(f) THEN @ \cup {f.parent} ELSE @])

\* The next table, or the report.
NextTable ==
  /\ seed.at = "next"
  /\ IF seed.todo = {} THEN Seeds([seed EXCEPT !.at = "done", !.table = "none", !.pools = << >>])
     ELSE \E t \in Firsts(schema, Tables(schema), seed.todo) :
            Seeds([seed EXCEPT !.at = "pools", !.table = t, !.todo = @ \ {t},
                     !.asked = {f \in schema.fks : f.child = t}, !.pools = [f \in {g \in schema.fks : g.child = t} |-> {}]])

\* The rows that one of its references may point to, as they are now.
AskPool ==
  /\ seed.at = "pools" /\ seed.asked # {}
  /\ \E f \in seed.asked :
       Seeds([seed EXCEPT !.asked = @ \ {f}, !.pools[f] = {Pick(r, f.ref) : r \in db[f.parent]}])

\* Count the rows there are.
CountRows ==
  /\ seed.at = "pools" /\ seed.asked = {}
  /\ Seeds([seed EXCEPT !.at = "rows", !.base = Cardinality(db[seed.table]), !.made = 0, !.batch = {}])

Place(q, c) == CHOOSE i \in DOMAIN q : q[i] = c
Owner(c) == {f \in DOMAIN seed.pools : c \in Elems(f.cols)}

\* What may be picked for the references: from the pools, or NULL from an empty one.
Pickings ==
  {p \in [DOMAIN seed.pools -> UNION ({[DOMAIN f.cols -> {0}] : f \in DOMAIN seed.pools} \cup
                                     {seed.pools[f] : f \in DOMAIN seed.pools})] :
     \A f \in DOMAIN seed.pools : p[f] \in IF seed.pools[f] = {} THEN {[i \in DOMAIN f.cols |-> 0]} ELSE seed.pools[f]}

\* A row made of an index, the place in the batch, loose values and what was picked.
NewRow(t, number, place, loose, picks) ==
  [c \in schema.cols[t] |->
     CASE c \in Blank(t) -> 0
       [] c \in Numbered(t) -> number
       [] c \in Sequenced(t) -> place
       [] c \in Loose(t) -> loose[c]
       [] OTHER -> LET f == CHOOSE g \in Owner(c) : TRUE IN picks[f][Place(f.cols, c)]]

Generated(t, number, place) ==
  {NewRow(t, number, place, loose, picks) : loose \in [Loose(t) -> 1..MaxKey], picks \in Pickings}

\* A row of the batch has one of r's keys.  What is in the table is not looked at.
Seen(r) == \E s \in seed.batch : \E k \in MadeKeys(seed.table) : Pick(s, k) = Pick(r, k)

\* Attempt a at the next row: the references are picked again, and the index is another.
Tried(a) == Generated(seed.table, seed.base + seed.made + 1 + a * Rows, seed.made + 1)

Wanted == IF seed.table \in seed.wanted THEN Rows ELSE IF Rows < 50 THEN Rows ELSE 50

\* The next row is the first attempt whose keys have not been seen, or left out.
MakeRow ==
  /\ seed.at = "rows" /\ seed.made < Wanted
  /\ \E a \in 0..Attempts :
       /\ \A b \in 0..a - 1 : \E r \in Tried(b) : Seen(r)
       /\ IF a = Attempts THEN Seeds([seed EXCEPT !.made = @ + 1])
          ELSE \E r \in Tried(a) : ~Seen(r) /\ Seeds([seed EXCEPT !.made = @ + 1, !.batch = @ \cup {r}])

\* The engine numbers the rows after those it has.
Last(t, c) == Max({0} \cup {r[c] : r \in db[t]})
Stored(t, r) == [c \in schema.cols[t] |-> IF c \in Sequenced(t) THEN Last(t, c) + r[c] ELSE r[c]]

\* Insert the batch.
Insert ==
  /\ seed.at = "rows" /\ seed.made = Wanted
  /\ LET rows == {Stored(seed.table, r) : r \in seed.batch} IN
     \/ /\ Accepts(schema, db, seed.table, rows)
        /\ db' = [db EXCEPT ![seed.table] = @ \cup rows] /\ seed' = [seed EXCEPT !.at = "next"]
     \/ /\ ~Accepts(schema, db, seed.table, rows) \/ seed.table \in schema.strict
        /\ seed' = [seed EXCEPT !.at = "failed"] /\ UNCHANGED db
  /\ UNCHANGED <<schema, sample, inserts>>

----------------------------------------------------------------------------

\* The application inserts a row.
AppInsert ==
  /\ inserts < MaxInserts /\ inserts' = inserts + 1
  /\ \E t \in Tables(schema) : \E r \in [schema.cols[t] -> 0..MaxKey] :
       /\ Accepts(schema, db, t, {r}) /\ db' = [db EXCEPT ![t] = @ \cup {r}]
  /\ seed' = [seed EXCEPT !.quiet = FALSE] /\ UNCHANGED <<schema, sample>>

SampleNext == CountRoot \/ PickRoot \/ NextDown \/ Down \/ NextUp \/ Ascend \/ Export
SeedNext == Begin \/ AskParent \/ NextTable \/ AskPool \/ CountRows \/ MakeRow \/ Insert

Next == SampleNext \/ SeedNext \/ AppInsert

Spec == Init /\ [][Next]_vars

----------------------------------------------------------------------------
(* Properties.                                                             *)

\* "Insert synthetic rows that satisfy the schema ... their empty required
\* parents are seeded too": seeding some tables fails only if someone else has
\* inserted meanwhile, or the database is not one the command can fill.
SeedFills == seed.at = "failed" => ~seed.sound \/ ~seed.quiet
=============================================================================
