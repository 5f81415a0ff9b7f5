---------------------------- MODULE MachineProofs ----------------------------
(***************************************************************************)
(* Proofs about what MCMachine runs side by side: Dataset and Capsule,     *)
(* Chaos, and Inventory.  The parts share nothing but the module.          *)
(*                                                                         *)
(* A sample holds every row it refers to, for every schema and database    *)
(* that SchemaAssumption admits and any number of inserts between its      *)
(* queries; a capsule that says it restored the sample has; and a          *)
(* container made from one lacks only the secrets that its report names.   *)
(*                                                                         *)
(* Seeding the tables asked for, and their empty parents, fails only if    *)
(* others insert meanwhile or the database cannot be filled that way, for  *)
(* every schema, whatever rows a reference is given.                       *)
(*                                                                         *)
(* For any services, networks and game days, what a fault command breaks   *)
(* is undone, or is in the report.                                         *)
(*                                                                         *)
(* In every inventory that commands can make, a selector picks the hosts   *)
(* that its terms say, however deep the groups it names are nested.        *)
(***************************************************************************)
EXTENDS Capsule, Chaos, Inventory, FiniteSetTheorems, SequenceTheorems, WellFoundedInduction, TLAPS

----------------------------------------------------------------------------
(* Samples and capsules.                                                   *)

\* The columns that say which row of t is meant.
Identify(t) == Keys(schema, t) \cup {KeyOf(t)}

\* e selects the rows of t that have sv[2] in the columns sv[1].
Has(e, t, sv) == e.table = t /\ e.cols = sv[1] /\ sv[2] \in e.vals
InFront(t, sv) == \E j \in DOMAIN sample.front : Has(sample.front[j], t, sv)

\* What the rows selected by sv refer to by f is selected too.
Followed(t, sv, f) ==
  \A r \in db[t] : Pick(r, sv[1]) = sv[2] /\ Whole(Pick(r, f.cols)) =>
    <<f.ref, Pick(r, f.cols)>> \in sample.sel[f.parent]

\* m has something for each table.
TableMap(s, m) == m = [t \in Tables(s) |-> m[t]]

SampleShape ==
  /\ sample = [at |-> sample.at, children |-> sample.children, todo |-> sample.todo, sel |-> sample.sel,
               front |-> sample.front, i |-> sample.i, n |-> sample.n, left |-> sample.left,
               cur |-> sample.cur, out |-> sample.out]
  /\ sample.at \in {"roots", "pick", "down", "up", "export", "done"}
  /\ DOMAIN sample.sel = Tables(schema) /\ TableMap(schema, sample.out)
  /\ sample.todo \subseteq Tables(schema)
  /\ sample.front \in Seq(Elems(sample.front))

\* What is still to do belongs to the entry at hand.
AtHand ==
  /\ sample.at = "pick" => sample.cur[1] \in Tables(schema)
  /\ sample.at \in {"roots", "pick", "export", "done"} => sample.left = {}
  /\ sample.at = "down" => \A f \in sample.left : f \in schema.fks /\ schema.pk[f.child] # << >>
  /\ sample.at = "up" => \A f \in sample.left : f \in schema.fks /\ f.child = sample.cur[1].table

\* A selection means a row that is there.
Meant == \A t \in Tables(schema) : \A sv \in sample.sel[t] :
  sv[1] \in Identify(t) /\ Whole(sv[2]) /\ \E r \in db[t] : Pick(r, sv[1]) = sv[2]

\* No selection is forgotten before all it refers to is selected.
Pending(t, sv, f) == InFront(t, sv) \/ (sample.at = "up" /\ f \in sample.left /\ Has(sample.cur[1], t, sv))
NoneForgotten == \A f \in schema.fks : \A sv \in sample.sel[f.child] :
  Pending(f.child, sv, f) \/ Followed(f.child, sv, f)

\* The rows written are those that would be written now.
Written ==
  /\ sample.at \in {"export", "done"} =>
       sample.front = << >> /\ \A t \in Tables(schema) \ sample.todo : sample.out[t] = Exported(t)
  /\ sample.at = "done" => sample.todo = {}

SampleInv ==
  /\ schema \in Schemas /\ Consistent(schema, db)
  /\ SampleShape /\ AtHand /\ Meant /\ NoneForgotten /\ Written

----------------------------------------------------------------------------

FileShape ==
  /\ capsule \in [at : {"off", "inspect", "schema", "sampling", "volumes", "manifest", "done", "failed"},
                  volumes : BOOLEAN, db_sample : BOOLEAN, image : BOOLEAN, sql : BOOLEAN]
  /\ file = [manifest |-> file.manifest, cut |-> file.cut, db |-> file.db, sampled |-> file.sampled,
             rows |-> file.rows, mounts |-> file.mounts, image |-> file.image]
  /\ file.manifest \in BOOLEAN

\* The file hides every secret once its configuration is written, and has the
\* rows of a sample that came to its end.
FileSays ==
  /\ capsule.at \in {"schema", "sampling", "volumes", "manifest", "done"} => file.cut = Secrets
  /\ file.manifest => capsule.at = "done"
  /\ file.sampled => sample.at = "done" /\ file.rows = sample.out

LoadShape ==
  /\ load = [at |-> load.at, n |-> load.n, supplied |-> load.supplied, ref |-> load.ref, missing |-> load.missing,
             todo |-> load.todo, report |-> load.report]
  /\ load.at \in {"idle", "refused", "image", "create", "put", "replay", "script", "done", "failed"}
  /\ there = [images |-> there.images, container |-> there.container, volumes |-> there.volumes]
  /\ there.container = [state |-> there.container.state, has |-> there.container.has,
                        placeholders |-> there.container.placeholders, rows |-> there.container.rows]

\* The file is complete before a load changes anything, and lacks no secret of
\* the command.
Loadable ==
  /\ capsule.at = "off" => load = Loading("idle", MaxLoads)
  /\ load.at # "idle" => capsule.at \in {"done", "failed"}
  /\ load.at \in {"image", "create", "put", "replay", "script", "done"} =>
       file.manifest /\ load.supplied \subseteq Secrets /\ Unfilled("command", load.supplied) = {}

\* The container has what was supplied, and the rest is named.
Filled ==
  load.at \in {"put", "replay", "script", "done"} =>
    /\ there.container.has = load.supplied /\ there.container.placeholders = {}
    /\ load.missing = Secrets \ load.supplied

\* The rows restored so far, and what the report may say of them.
Restored ==
  /\ load.at \in {"put", "replay", "script", "done"} => TableMap(schema, there.container.rows)
  /\ load.at = "script" /\ file.sampled =>
       \A t \in Tables(schema) \ load.todo : there.container.rows[t] = file.rows[t]
  /\ load.report = "schema and sample" =>
       load.at = "done" /\ file.sampled /\ there.container.rows = file.rows

CapsuleInv == SampleInv /\ FileShape /\ FileSays /\ LoadShape /\ Loadable /\ Filled /\ Restored

----------------------------------------------------------------------------
(* Numbers.                                                                *)

LEMMA HasLeast ==
  ASSUME NEW T, T \subseteq Nat, T # {}
  PROVE  \E x \in T : \A y \in T : x <= y
<1> DEFINE R == OpToRel(<, Nat)
<1>1. IsWellFoundedOn(R, Nat)
  BY NatLessThanWellFounded, Zenon
<1>2. R = {ss \in Nat \X Nat : ss[1] < ss[2]}
  BY Zenon DEF OpToRel
<1> HIDE DEF R
<1>3. PICK x \in T : \A y \in T : ~ (<<y, x>> \in R)
  BY <1>1, WFMin
<1>4. \A y \in T : ~ (y < x)
  BY <1>2, <1>3
<1>5. QED BY <1>4

\* What holds of 0 and of the successor of each holds up to n.
LEMMA UpTo ==
  ASSUME NEW n \in Nat, NEW T, 0 \in T, \A i \in 0 .. n - 1 : i \in T => i + 1 \in T
  PROVE  0 .. n \subseteq T
<1> DEFINE Bad == {i \in 0 .. n : i \notin T}
<1> SUFFICES ASSUME Bad # {} PROVE FALSE
  OBVIOUS
<1>1. Bad \subseteq Nat
  OBVIOUS
<1>2. PICK i \in Bad : \A j \in Bad : i <= j
  <2> HIDE DEF Bad
  <2>1. QED BY <1>1, HasLeast
<1>3. i \in 0 .. n /\ i \notin T /\ i # 0
  OBVIOUS
<1>4. i - 1 \in 0 .. n - 1 /\ i - 1 \notin Bad
  BY <1>2, <1>3
<1>5. i - 1 \in T
  BY <1>4
<1>6. (i - 1) + 1 \in T
  BY <1>4, <1>5
<1>7. QED BY <1>3, <1>6

\* A finite set of numbers has a greatest one.
LEMMA Greatest ==
  ASSUME NEW S, S \subseteq Nat, IsFiniteSet(S), S # {}
  PROVE  Max(S) \in S /\ \A x \in S : Max(S) >= x
<1>1. PICK f : f \in Surjection(1 .. Cardinality(S), S)
  BY FS_CardinalityType, Zenon DEF ExistsBijection, Bijection
<1>2. PICK n : n = Cardinality(S)
  OBVIOUS
<1>3. /\ n \in Nat /\ (\A i \in 1 .. n : f[i] \in Nat)
      /\ \A x \in S : \E i \in 1 .. n : f[i] = x
  <2>1. n \in Nat
    BY <1>2, FS_CardinalityType
  <2>2. f \in [1 .. n -> S] /\ \A x \in S : \E i \in 1 .. n : f[i] = x
    BY <1>1, <1>2, Zenon DEF Surjection
  <2>3. \A i \in 1 .. n : f[i] \in S
    BY <2>2
  <2>4. QED BY <2>1, <2>2, <2>3
<1> DEFINE T == {m \in 0 .. n : \E b \in Nat : \A i \in 1 .. m : f[i] <= b}
<1>4. 0 \in T
  <2>1. \A i \in 1 .. 0 : f[i] <= 0
    OBVIOUS
  <2>2. QED BY <1>3, <2>1
<1>5. ASSUME NEW m \in 0 .. n - 1, m \in T PROVE m + 1 \in T
  <2>1. PICK b \in Nat : \A i \in 1 .. m : f[i] <= b
    BY <1>5
  <2>2. f[m + 1] \in Nat /\ m + 1 \in 1 .. n
    BY <1>3
  <2>3. PICK a \in Nat : a = b + f[m + 1]
    BY <2>2
  <2>4. \A i \in 1 .. m + 1 : f[i] <= a
    <3> SUFFICES ASSUME NEW i \in 1 .. m + 1 PROVE f[i] <= a
      OBVIOUS
    <3>1. CASE i \in 1 .. m
      <4>1. i \in 1 .. n /\ f[i] <= b
        BY <1>3, <2>1, <3>1
      <4>2. f[i] \in Nat
        BY <1>3, <4>1
      <4>3. QED BY <2>2, <2>3, <4>1, <4>2
    <3>2. CASE i = m + 1
      BY <2>2, <2>3, <3>2
    <3>3. QED BY <3>1, <3>2
  <2>5. QED BY <2>2, <2>4
<1>6. 0 .. n \subseteq T
  <2> HIDE DEF T
  <2>1. QED BY <1>3, <1>4, <1>5, UpTo
<1>7. PICK b \in Nat : \A x \in S : x <= b
  <2>1. n \in T
    <3> HIDE DEF T
    <3>1. QED BY <1>3, <1>6
  <2>2. PICK b \in Nat : \A i \in 1 .. n : f[i] <= b
    BY <2>1
  <2>3. QED BY <1>3, <2>2
<1> DEFINE D == {d \in Nat : \E x \in S : x + d = b}
<1>8. D \subseteq Nat /\ D # {}
  <2>1. PICK x \in S : TRUE
    OBVIOUS
  <2>2. x \in Nat /\ b - x \in Nat /\ x + (b - x) = b
    BY <1>7, <2>1
  <2>3. QED BY <2>1, <2>2
<1>9. PICK d \in D : \A e \in D : d <= e
  <2> HIDE DEF D
  <2>1. QED BY <1>8, HasLeast
<1>10. PICK x \in S : x + d = b
  BY <1>9
<1>11. ASSUME NEW y \in S PROVE x >= y
  <2>1. y \in Nat /\ b - y \in Nat /\ y + (b - y) = b
    BY <1>7, <1>11
  <2>2. b - y \in D
    BY <1>11, <2>1
  <2>3. d <= b - y /\ d \in Nat /\ x \in Nat
    BY <1>9, <1>10, <2>2
  <2>4. QED BY <1>10, <2>1, <2>3
<1>12. \E z \in S : \A y \in S : z >= y
  BY <1>11
<1>13. QED BY <1>12 DEF Max

----------------------------------------------------------------------------
(* Rows and keys                                                           *)

LEMMA MapOfTables ==
  ASSUME NEW s, NEW m, TableMap(s, m)
  PROVE  DOMAIN m = Tables(s) /\ \A t, x : TableMap(s, [m EXCEPT ![t] = x])
<1>1. DOMAIN m = Tables(s)
  BY DEF TableMap
<1>2. ASSUME NEW t, NEW x PROVE TableMap(s, [m EXCEPT ![t] = x])
  <2>1. PICK e : e = [m EXCEPT ![t] = x]
    OBVIOUS
  <2>2. e = [u \in Tables(s) |-> e[u]]
    BY <1>1, <2>1
  <2>3. QED BY <2>1, <2>2 DEF TableMap
<1>3. QED BY <1>1, <1>2

LEMMA SameTables ==
  ASSUME NEW s, NEW m, NEW n, TableMap(s, m), TableMap(s, n), \A t \in Tables(s) : m[t] = n[t]
  PROVE  m = n
<1>1. [t \in Tables(s) |-> m[t]] = [t \in Tables(s) |-> n[t]]
  OBVIOUS
<1>2. QED BY <1>1, Zenon DEF TableMap

\* KeyOf lists the columns of a table that has no key.
LEMMA KeyIsWholeRow ==
  ASSUME NEW t \in Tables(schema), schema \in Schemas, schema.pk[t] = << >>
  PROVE  Elems(KeyOf(t)) = schema.cols[t]
<1> DEFINE S == schema.cols[t]
           n == Cardinality(S)
<1>1. IsFiniteSet(S)
  BY SchemaAssumption DEF SoundSchema
<1> HIDE DEF S
<1>2. ExistsBijection(1..n, S)
  BY <1>1, FS_CardinalityType
<1>3. PICK q : q \in [1..n -> S] /\ \A c \in S : \E i \in 1..n : q[i] = c
  BY <1>2, Zenon DEF ExistsBijection, Bijection, Injection, Surjection
<1>4. Elems(q) = S
  BY <1>3 DEF Elems
<1>5. \E p \in [1..n -> S] : Elems(p) = S
  BY <1>3, <1>4
<1>6. Elems(CHOOSE p \in [1..n -> S] : Elems(p) = S) = S
  BY <1>5
<1>7. KeyOf(t) = CHOOSE p \in [1..n -> S] : Elems(p) = S
  BY DEF KeyOf, S
<1>8. QED BY <1>6, <1>7 DEF S

\* No two rows agree in columns that identify them.
LEMMA OneRowMeant ==
  ASSUME NEW d, schema \in Schemas, Consistent(schema, d), NEW t \in Tables(schema), NEW k \in Identify(t),
         NEW q \in d[t], NEW r \in d[t], Pick(q, k) = Pick(r, k), Whole(Pick(r, k))
  PROVE  q = r
<1>1. CASE k \in Keys(schema, t)
  BY <1>1 DEF Consistent, Unique
<1>2. CASE k = KeyOf(t) /\ schema.pk[t] # << >>
  <2>1. k = schema.pk[t] /\ k # << >>
    BY <1>2 DEF KeyOf
  <2>2. k \in Keys(schema, t)
    BY <2>1 DEF Keys
  <2>3. QED BY <1>1, <2>2
<1>3. CASE k = KeyOf(t) /\ schema.pk[t] = << >>
  <2>1. Elems(k) = schema.cols[t]
    BY <1>3, KeyIsWholeRow
  <2>2. ASSUME NEW c \in schema.cols[t] PROVE q[c] = r[c]
    <3>1. PICK i \in DOMAIN k : k[i] = c
      BY <2>1 DEF Elems
    <3>2. Pick(q, k)[i] = q[c] /\ Pick(r, k)[i] = r[c]
      BY <3>1 DEF Pick
    <3>3. QED BY <3>2
  <2>3. q = [c \in schema.cols[t] |-> q[c]] /\ r = [c \in schema.cols[t] |-> r[c]]
    BY DEF Consistent
  <2>4. QED BY <2>2, <2>3
<1>4. QED BY <1>1, <1>2, <1>3 DEF Identify

\* What the engine accepts leaves the database consistent.
LEMMA AcceptedIsConsistent ==
  ASSUME NEW d, schema \in Schemas, Consistent(schema, d), NEW t \in Tables(schema), NEW rows, Accepts(schema, d, t, rows),
         IsFiniteSet(rows), rows \subseteq [schema.cols[t] -> Nat]
  PROVE  Consistent(schema, [d EXCEPT ![t] = @ \cup rows])
<1> DEFINE all == d[t] \cup rows
           e == [d EXCEPT ![t] = @ \cup rows]
<1>1. /\ DOMAIN d = Tables(schema) /\ DOMAIN e = Tables(schema)
      /\ e = [u \in Tables(schema) |-> e[u]]
  <2>1. d = [u \in Tables(schema) |-> d[u]]
    BY DEF Consistent
  <2>2. DOMAIN d = Tables(schema)
    BY <2>1
  <2>3. QED BY <2>2
<1>2. e[t] = all /\ \A u \in Tables(schema) : u # t => e[u] = d[u]
  BY <1>1
<1>3. \A u \in Tables(schema) : d[u] \subseteq e[u]
  BY <1>2
<1>4. Unique(schema, t, all)
  <2> SUFFICES ASSUME NEW k \in Keys(schema, t), NEW q \in all, NEW r \in all, Pick(q, k) = Pick(r, k), Whole(Pick(r, k))
               PROVE  q = r
    BY Zenon DEF Unique
  <2>1. CASE q \in d[t] /\ r \in d[t]
    BY <2>1 DEF Consistent, Unique
  <2>2. CASE q \in rows /\ r \in rows
    BY <2>2 DEF Accepts, Unique
  <2>3. CASE q \in d[t] /\ r \in rows
    BY <2>3 DEF Accepts, Taken
  <2>4. CASE q \in rows /\ r \in d[t]
    <3>1. Pick(r, k) = Pick(q, k) /\ Whole(Pick(q, k))
      BY Zenon
    <3>2. QED BY <2>4, <3>1 DEF Accepts, Taken
  <2>5. QED BY <2>1, <2>2, <2>3, <2>4 DEF all
<1>9. NoneMissing(schema, t, all) /\ IsFiniteSet(all)
  <2>1. NoneMissing(schema, t, all)
    BY DEF Accepts, Consistent, NoneMissing
  <2>2. IsFiniteSet(d[t])
    BY DEF Consistent
  <2>3. QED BY <2>1, <2>2, FS_Union
<1>5. ASSUME NEW f \in schema.fks, f.child = t, NEW r \in rows, Whole(Pick(r, f.cols))
      PROVE  \E q \in IF f.parent = t THEN all ELSE d[f.parent] : Pick(q, f.ref) = Pick(r, f.cols)
  BY <1>5 DEF Accepts
<1> HIDE DEF e, all
<1>6. \A u \in Tables(schema) : /\ IsFiniteSet(e[u]) /\ Unique(schema, u, e[u]) /\ NoneMissing(schema, u, e[u])
                                 /\ e[u] \subseteq [schema.cols[u] -> Nat]
  <2> SUFFICES ASSUME NEW u \in Tables(schema)
               PROVE  /\ IsFiniteSet(e[u]) /\ Unique(schema, u, e[u]) /\ NoneMissing(schema, u, e[u])
                      /\ e[u] \subseteq [schema.cols[u] -> Nat]
    OBVIOUS
  <2>1. CASE u = t
    BY <1>2, <1>4, <1>9, <2>1 DEF Consistent, all
  <2>2. CASE u # t
    BY <1>2, <2>2 DEF Consistent
  <2>3. QED BY <2>1, <2>2
<1>7. Refers(schema, e)
  <2> SUFFICES ASSUME NEW f \in schema.fks, NEW r \in e[f.child], Whole(Pick(r, f.cols)),
                      f.child \in Tables(schema), f.parent \in Tables(schema)
               PROVE  \E q \in e[f.parent] : Pick(q, f.ref) = Pick(r, f.cols)
    BY SchemaAssumption DEF Refers, SoundSchema
  <2>1. CASE r \in d[f.child]
    <3>1. PICK q \in d[f.parent] : Pick(q, f.ref) = Pick(r, f.cols)
      BY <2>1 DEF Consistent, Refers
    <3>2. QED BY <1>3, <3>1
  <2>2. CASE r \notin d[f.child]
    <3>1. f.child = t /\ r \in rows
      BY <1>2, <2>2 DEF all
    <3>2. PICK q \in IF f.parent = t THEN all ELSE d[f.parent] : Pick(q, f.ref) = Pick(r, f.cols)
      BY <1>5, <3>1
    <3>3. q \in e[f.parent]
      BY <1>2, <3>2
    <3>4. QED BY <3>2, <3>3
  <2>3. QED BY <2>1, <2>2
<1>8. QED BY <1>1, <1>6, <1>7 DEF Consistent, e

----------------------------------------------------------------------------
(* Seeding: what is left to do can be done.                                *)

\* The references of t.
Own(t) == {f \in schema.fks : f.child = t}

SeedShape ==
  /\ seed = [at |-> seed.at, wanted |-> seed.wanted, needed |-> seed.needed, asked |-> seed.asked, todo |-> seed.todo,
             table |-> seed.table, pools |-> seed.pools, base |-> seed.base, made |-> seed.made, batch |-> seed.batch,
             sound |-> seed.sound, quiet |-> seed.quiet]
  /\ seed.wanted \subseteq Tables(schema) /\ seed.needed \subseteq Tables(schema) /\ seed.todo \subseteq Tables(schema)
  /\ seed.at = "begin" => seed.needed = seed.wanted
  /\ seed.at = "needed" => seed.asked \subseteq schema.fks
  /\ seed.at = "pools" => seed.asked \subseteq Own(seed.table)
  /\ seed.at \in {"pools", "rows"} =>
       /\ seed.table \in Tables(schema) /\ DOMAIN seed.pools = Own(seed.table)
       /\ \A f \in Own(seed.table) : seed.pools[f] \subseteq [DOMAIN f.cols -> Nat]
  /\ seed.at = "rows" => /\ seed.base \in Nat /\ seed.made \in Nat
                         /\ IsFiniteSet(seed.batch) /\ seed.batch \subseteq [schema.cols[seed.table] -> Nat]

\* The tables still to fill.
Ahead == IF seed.at \in {"pools", "rows"} THEN seed.todo \cup {seed.table} ELSE seed.todo

\* Rows that the engine accepts can be made for t, when the others of later have theirs.
Fillable(t, later) ==
  /\ CanFill(t)
  /\ \A f \in Own(t) :
       /\ Required(f) => /\ Rows = 0 \/ db[f.parent] # {} \/ f.parent \in later \ {t}
                         /\ \A c \in Elems(f.ref) : <<f.parent, c>> \notin schema.free
       /\ \A g \in Own(t) : Elems(f.cols) \cap Elems(g.cols) # {} => f = g

\* The tables that are needed, as far as parents have been counted.
Counted ==
  seed.at = "needed" =>
    /\ Sound(seed.wanted) /\ seed.asked \subseteq References(seed.wanted)
    /\ seed.needed = seed.wanted \cup {f.parent : f \in {g \in References(seed.wanted) \ seed.asked : Needs(g)}}

\* What is still to fill can be filled in the order of the references.
InOrder ==
  /\ seed.at \in {"needed", "next", "pools", "rows"} => ~\E r \in SUBSET Tables(schema) : Cyclic(schema, r)
  /\ seed.at \in {"next", "pools", "rows"} => \A t \in Ahead : Fillable(t, Ahead)
  /\ seed.at \in {"pools", "rows"} => seed.table \notin seed.todo /\ Fillable(seed.table, {})

\* The pools hold what is there.
Pooled ==
  seed.at \in {"pools", "rows"} =>
    \A f \in Own(seed.table) \ seed.asked : seed.pools[f] = {Pick(r, f.ref) : r \in db[f.parent]}

\* The rows made so far have numbers above those in use, and keys of their own
\* where these are made, or places where the engine numbers them.
Making ==
  seed.at = "rows" =>
    /\ seed.asked = {} /\ seed.base = Cardinality(db[seed.table])
    /\ seed.made = 0 <=> seed.batch = {}
    /\ \A r \in seed.batch : \E n \in Nat, m \in 1..seed.made : n > seed.base /\ r \in Generated(seed.table, n, m)
    /\ \A k \in MadeKeys(seed.table) : \A q, r \in seed.batch : Pick(q, k) = Pick(r, k) => q = r
    /\ \A c \in Sequenced(seed.table) : \A q, r \in seed.batch : q[c] = r[c] => q = r

SeedInv ==
  SeedShape /\ (seed.sound /\ seed.quiet => seed.at # "failed" /\ Counted /\ InOrder /\ Pooled /\ Making)

----------------------------------------------------------------------------
(* Rows that are made.                                                     *)

LEMMA Places ==
  ASSUME schema \in Schemas, NEW f \in schema.fks, NEW i \in DOMAIN f.cols
  PROVE  Place(f.cols, f.cols[i]) = i
<1>1. \A j \in DOMAIN f.cols : f.cols[j] = f.cols[i] => j = i
  BY SchemaAssumption DEF SoundSchema
<1>2. QED BY <1>1 DEF Place

\* What r has in its columns, made of loose values and what was picked from the pools.
MadeOf(t, number, place, r, loose, picks) ==
  /\ loose \in [Loose(t) -> 1..MaxKey]
  /\ \A f \in DOMAIN seed.pools :
       picks[f] \in IF seed.pools[f] = {} THEN {[i \in DOMAIN f.cols |-> 0]} ELSE seed.pools[f]
  /\ r = [c \in schema.cols[t] |-> r[c]]
  /\ \A c \in Blank(t) : r[c] = 0
  /\ \A c \in Numbered(t) : r[c] = number
  /\ \A c \in Sequenced(t) : r[c] = place
  /\ \A c \in Loose(t) : r[c] = loose[c]
  /\ \A c \in Referring(t) \ Blank(t) :
       r[c] = LET f == CHOOSE g \in Owner(c) : TRUE IN picks[f][Place(f.cols, c)]

\* A made row, column by column: nothing for bytes, the index, the place where the
\* engine numbers the rows, some value, or what was picked for a reference.
LEMMA Columns ==
  ASSUME NEW t, NEW number, NEW place, NEW r \in Generated(t, number, place)
  PROVE  \E loose, picks : MadeOf(t, number, place, r, loose, picks)
<1> DEFINE Referred(picks, c) == LET f == CHOOSE g \in Owner(c) : TRUE IN picks[f][Place(f.cols, c)]
<1>1. PICK loose \in [Loose(t) -> 1..MaxKey], picks \in Pickings : r = NewRow(t, number, place, loose, picks)
  BY DEF Generated
<1>2. /\ \A c \in Blank(t) : c \in schema.cols[t] /\ Kind(t, c) = "bytes"
      /\ \A c \in Numbered(t) : c \in schema.cols[t] /\ Kind(t, c) = "serial" /\ c \notin Referring(t)
      /\ \A c \in Sequenced(t) : c \in schema.cols[t] /\ Kind(t, c) = "sequence" /\ c \notin Referring(t)
      /\ \A c \in Loose(t) : /\ c \in schema.cols[t]
                             /\ c \notin Referring(t) /\ c \notin Numbered(t) /\ c \notin Sequenced(t) /\ c \notin Blank(t)
      /\ \A c \in Referring(t) : c \in schema.cols[t]
  BY DEF Blank, Numbered, Sequenced, Loose, Referring
<1> HIDE DEF Referred
<1>3. /\ r = [c \in schema.cols[t] |-> r[c]]
      /\ \A c \in Blank(t) : r[c] = 0
      /\ \A c \in Numbered(t) : r[c] = number
      /\ \A c \in Sequenced(t) : r[c] = place
      /\ \A c \in Loose(t) : r[c] = loose[c]
      /\ \A c \in Referring(t) \ Blank(t) : r[c] = Referred(picks, c)
  <2>1. r = [c \in schema.cols[t] |-> CASE c \in Blank(t) -> 0
                                        [] c \in Numbered(t) -> number
                                        [] c \in Sequenced(t) -> place
                                        [] c \in Loose(t) -> loose[c]
                                        [] OTHER -> Referred(picks, c)]
    BY <1>1, Zenon DEF NewRow, Referred
  <2>2. QED BY <1>2, <2>1
<1>4. \A f \in DOMAIN seed.pools :
        picks[f] \in IF seed.pools[f] = {} THEN {[i \in DOMAIN f.cols |-> 0]} ELSE seed.pools[f]
  BY <1>1, Zenon DEF Pickings
<1>5. MadeOf(t, number, place, r, loose, picks)
  BY <1>1, <1>3, <1>4, Zenon DEF Referred, MadeOf
<1>6. QED BY <1>5

\* A made row has a number in each column of its table.
LEMMA MadeOfNumbers ==
  ASSUME schema \in Schemas, NEW t \in Tables(schema), DOMAIN seed.pools = Own(t),
         \A f \in Own(t) : seed.pools[f] \subseteq [DOMAIN f.cols -> Nat],
         NEW number \in Nat, NEW place \in Nat, NEW r \in Generated(t, number, place)
  PROVE  r \in [schema.cols[t] -> Nat]
<1>0. PICK loose, picks : MadeOf(t, number, place, r, loose, picks)
  BY Columns, Zenon
<1>1. /\ loose \in [Loose(t) -> 1..MaxKey]
      /\ \A f \in DOMAIN seed.pools :
           picks[f] \in IF seed.pools[f] = {} THEN {[i \in DOMAIN f.cols |-> 0]} ELSE seed.pools[f]
      /\ r = [c \in schema.cols[t] |-> r[c]]
      /\ \A c \in Blank(t) : r[c] = 0
      /\ \A c \in Numbered(t) : r[c] = number
      /\ \A c \in Sequenced(t) : r[c] = place
      /\ \A c \in Loose(t) : r[c] = loose[c]
      /\ \A c \in Referring(t) \ Blank(t) :
           r[c] = LET f == CHOOSE g \in Owner(c) : TRUE IN picks[f][Place(f.cols, c)]
  BY <1>0, Zenon DEF MadeOf
<1>2. ASSUME NEW f \in Own(t) PROVE picks[f] \in [DOMAIN f.cols -> Nat]
  <2>1. CASE seed.pools[f] = {}
    <3>1. picks[f] = [i \in DOMAIN f.cols |-> 0]
      BY <1>1, <1>2, <2>1
    <3>2. QED BY <3>1
  <2>2. CASE seed.pools[f] # {}
    BY <1>1, <1>2, <2>2
  <2>3. QED BY <2>1, <2>2
<1>3. ASSUME NEW c \in schema.cols[t] PROVE r[c] \in Nat
  <2>1. CASE c \in Blank(t) \/ c \in Numbered(t) \/ c \in Sequenced(t)
    BY <1>1, <2>1
  <2>2. CASE c \in Loose(t)
    <3>1. MaxKey \in Nat
      BY DatasetAssumption
    <3>2. loose[c] \in 1..MaxKey
      BY <1>1, <2>2
    <3>3. QED BY <1>1, <2>2, <3>1, <3>2
  <2>3. CASE c \in Referring(t) \ Blank(t)
    <3>1. Owner(c) # {} /\ Owner(c) \subseteq Own(t)
      BY <2>3 DEF Referring, Owner, Own
    <3>2. PICK f \in Owner(c) : f = (CHOOSE g \in Owner(c) : TRUE)
      BY <3>1
    <3>3. c \in Elems(f.cols)
      BY <3>2 DEF Owner
    <3>4. Place(f.cols, c) \in DOMAIN f.cols
      BY <3>3 DEF Elems, Place
    <3>5. r[c] = picks[f][Place(f.cols, c)]
      BY <1>1, <2>3, <3>2
    <3>6. QED BY <1>2, <3>1, <3>4, <3>5
  <2>4. QED BY <2>1, <2>2, <2>3 DEF Loose
<1>4. QED BY <1>1, <1>3

\* A row made for a table that can be filled: what it has in the columns that are
\* made, and what was picked from the pool of each reference.
LEMMA MadeRow ==
  ASSUME schema \in Schemas, NEW t \in Tables(schema), DOMAIN seed.pools = Own(t), Fillable(t, {}),
         NEW number, NEW place, NEW r \in Generated(t, number, place)
  PROVE  /\ \A c \in Blank(t) : r[c] = 0
         /\ \A c \in Numbered(t) : r[c] = number
         /\ \A c \in Sequenced(t) : r[c] = place
         /\ \A c \in Loose(t) : r[c] \in 1..MaxKey
         /\ \A f \in Own(t) : \E p \in IF seed.pools[f] = {} THEN {[i \in DOMAIN f.cols |-> 0]} ELSE seed.pools[f] :
              \A i \in DOMAIN f.cols : r[f.cols[i]] = p[i]
<1>0. PICK loose, picks : MadeOf(t, number, place, r, loose, picks)
  BY Columns, Zenon
<1>1. /\ loose \in [Loose(t) -> 1..MaxKey]
      /\ \A f \in DOMAIN seed.pools :
           picks[f] \in IF seed.pools[f] = {} THEN {[i \in DOMAIN f.cols |-> 0]} ELSE seed.pools[f]
      /\ r = [c \in schema.cols[t] |-> r[c]]
      /\ \A c \in Blank(t) : r[c] = 0
      /\ \A c \in Numbered(t) : r[c] = number
      /\ \A c \in Sequenced(t) : r[c] = place
      /\ \A c \in Loose(t) : r[c] = loose[c]
      /\ \A c \in Referring(t) \ Blank(t) :
           r[c] = LET f == CHOOSE g \in Owner(c) : TRUE IN picks[f][Place(f.cols, c)]
  BY <1>0, Zenon DEF MadeOf
<1>2. /\ \A c \in Blank(t) : c \notin Referring(t)
      /\ \A f, g \in Own(t) : Elems(f.cols) \cap Elems(g.cols) # {} => f = g
  BY DEF Fillable, CanFill
<1>3. \A c \in Loose(t) : r[c] \in 1..MaxKey
  BY <1>1
<1>4. ASSUME NEW f \in Own(t), NEW i \in DOMAIN f.cols PROVE r[f.cols[i]] = picks[f][i]
  <2>1. f \in schema.fks /\ f.child = t /\ Elems(f.cols) \subseteq schema.cols[t]
    BY <1>4, SchemaAssumption DEF Own, SoundSchema
  <2>2. PICK c : c = f.cols[i]
    OBVIOUS
  <2>3. c \in Elems(f.cols) /\ c \in schema.cols[t]
    BY <2>1, <2>2 DEF Elems
  <2>4. Owner(c) = {f}
    BY <1>2, <1>4, <2>3 DEF Owner
  <2>5. (CHOOSE g \in Owner(c) : TRUE) = f
    BY <2>4
  <2>6. Place(f.cols, c) = i
    BY <2>1, <2>2, Places
  <2>7. c \in Referring(t) \ Blank(t)
    BY <1>2, <2>1, <2>3 DEF Referring
  <2>8. r[c] = LET g == CHOOSE g \in Owner(c) : TRUE IN picks[g][Place(g.cols, c)]
    BY <1>1, <2>7
  <2>9. QED BY <2>2, <2>5, <2>6, <2>8
<1>5. ASSUME NEW f \in Own(t)
      PROVE  \E p \in IF seed.pools[f] = {} THEN {[i \in DOMAIN f.cols |-> 0]} ELSE seed.pools[f] :
               \A i \in DOMAIN f.cols : r[f.cols[i]] = p[i]
  <2>1. picks[f] \in IF seed.pools[f] = {} THEN {[i \in DOMAIN f.cols |-> 0]} ELSE seed.pools[f]
    BY <1>1, <1>5, Zenon
  <2>2. \A i \in DOMAIN f.cols : r[f.cols[i]] = picks[f][i]
    BY <1>4
  <2>3. PICK p : p = picks[f]
    OBVIOUS
  <2>4. QED BY <2>1, <2>2, <2>3, Zenon
<1>6. QED BY <1>1, <1>3, <1>5

\* The engine has nothing against a made row but, maybe, its keys.
LEMMA RowFits ==
  ASSUME schema \in Schemas, Consistent(schema, db), NEW t \in Tables(schema), DOMAIN seed.pools = Own(t),
         \A f \in Own(t) : seed.pools[f] = {Pick(r, f.ref) : r \in db[f.parent]},
         Fillable(t, {}), Rows # 0, NEW number \in Nat \ {0}, NEW place \in Nat \ {0}, NEW r \in Generated(t, number, place)
  PROVE  /\ \A c \in schema.cols[t] : r[c] = 0 => <<t, c>> \in schema.free
         /\ \A f \in Own(t) : ~Whole(Pick(r, f.cols)) \/ \E q \in db[f.parent] : Pick(q, f.ref) = Pick(r, f.cols)
<1>1. /\ \A c \in Blank(t) : r[c] = 0
      /\ \A c \in Numbered(t) : r[c] = number
      /\ \A c \in Sequenced(t) : r[c] = place
      /\ \A c \in Loose(t) : r[c] \in 1..MaxKey
      /\ \A f \in Own(t) : \E p \in IF seed.pools[f] = {} THEN {[i \in DOMAIN f.cols |-> 0]} ELSE seed.pools[f] :
           \A i \in DOMAIN f.cols : r[f.cols[i]] = p[i]
  BY MadeRow
<1>2. ASSUME NEW f \in Own(t), seed.pools[f] = {}
      PROVE  /\ ~Required(f) /\ ~Whole(Pick(r, f.cols))
  <2>1. \A i \in DOMAIN f.cols : r[f.cols[i]] = 0
    BY <1>1, <1>2
  <2>2. db[f.parent] = {}
    BY <1>2
  <2>3. ~Required(f)
    BY <2>2 DEF Fillable
  <2>4. f.ref \in Seq(Elems(f.ref)) /\ f.ref # << >> /\ DOMAIN f.cols = DOMAIN f.ref
    BY SchemaAssumption DEF Own, SoundSchema
  <2>5. 1 \in DOMAIN f.cols
    BY <2>4
  <2>6. Pick(r, f.cols)[1] = 0 /\ 1 \in DOMAIN Pick(r, f.cols)
    BY <2>1, <2>5 DEF Pick
  <2>7. QED BY <2>3, <2>6 DEF Whole
<1>3. ASSUME NEW f \in Own(t), seed.pools[f] # {}
      PROVE  \E q \in db[f.parent] : /\ Pick(q, f.ref) = Pick(r, f.cols)
                                     /\ \A i \in DOMAIN f.cols : r[f.cols[i]] = q[f.ref[i]]
  <2>1. PICK p \in seed.pools[f] : \A i \in DOMAIN f.cols : r[f.cols[i]] = p[i]
    BY <1>1, <1>3
  <2>2. PICK q \in db[f.parent] : p = Pick(q, f.ref)
    BY <2>1
  <2>3. DOMAIN f.cols = DOMAIN f.ref
    BY SchemaAssumption DEF Own, SoundSchema
  <2>4. \A i \in DOMAIN f.cols : p[i] = q[f.ref[i]]
    BY <2>2, <2>3 DEF Pick
  <2>5. Pick(q, f.ref) = Pick(r, f.cols)
    BY <2>1, <2>3, <2>4 DEF Pick
  <2>6. QED BY <2>1, <2>4, <2>5
<1>4. ASSUME NEW c \in schema.cols[t], r[c] = 0 PROVE <<t, c>> \in schema.free
  <2>1. CASE c \in Numbered(t) \/ c \in Sequenced(t) \/ c \in Loose(t)
    BY <1>1, <1>4, <2>1
  <2>2. CASE c \in Referring(t)
    <3>1. PICK f \in Own(t) : c \in Elems(f.cols)
      BY <2>2 DEF Referring, Own
    <3>2. CASE seed.pools[f] = {}
      BY <1>2, <3>1, <3>2 DEF Required, Own
    <3>3. CASE seed.pools[f] # {}
      <4>1. PICK q \in db[f.parent] : \A i \in DOMAIN f.cols : r[f.cols[i]] = q[f.ref[i]]
        BY <1>3, <3>3
      <4>2. PICK i \in DOMAIN f.cols : f.cols[i] = c
        BY <3>1 DEF Elems
      <4>3. q[f.ref[i]] = 0
        BY <1>4, <4>1, <4>2
      <4>4. f \in schema.fks /\ f.child = t /\ f.parent \in Tables(schema) /\ DOMAIN f.cols = DOMAIN f.ref
            /\ Elems(f.ref) \subseteq schema.cols[f.parent]
        BY SchemaAssumption DEF Own, SoundSchema
      <4>5. f.ref[i] \in Elems(f.ref)
        BY <4>2, <4>4 DEF Elems
      <4>6. <<f.parent, f.ref[i]>> \in schema.free
        BY <4>3, <4>4, <4>5 DEF Consistent, NoneMissing
      <4>7. ~Required(f)
        BY <4>5, <4>6 DEF Fillable
      <4>8. QED BY <3>1, <4>4, <4>7 DEF Required
    <3>4. QED BY <3>2, <3>3
  <2>3. CASE c \in Blank(t)
    BY <2>3 DEF Fillable, CanFill
  <2>4. QED BY <2>1, <2>2, <2>3 DEF Loose
<1>5. QED BY <1>2, <1>3, <1>4

\* What a function gives for finitely many arguments is finite.
LEMMA FiniteImage ==
  ASSUME NEW S, IsFiniteSet(S), NEW f, DOMAIN f = S
  PROVE  IsFiniteSet({f[x] : x \in S})
<1>1. PICK T, g : T = {f[x] : x \in S} /\ g = [x \in S |-> f[x]]
  OBVIOUS
<1>2. g \in [S -> T] /\ \A y \in T : \E x \in S : g[x] = y
  BY <1>1
<1>3. g \in Surjection(S, T)
  BY <1>2 DEF Surjection
<1>4. QED BY <1>1, <1>3, FS_Surjection

\* What is stored is what was made, but for the numbers of the engine.
LEMMA StoredRow ==
  ASSUME schema \in Schemas, Consistent(schema, db), NEW t \in Tables(schema), NEW r \in [schema.cols[t] -> Nat]
  PROVE  /\ Stored(t, r) \in [schema.cols[t] -> Nat]
         /\ \A c \in schema.cols[t] \ Sequenced(t) : Stored(t, r)[c] = r[c]
         /\ \A c \in Sequenced(t) : /\ Stored(t, r)[c] = Last(t, c) + r[c] /\ Last(t, c) \in Nat
                                    /\ \A q \in db[t] : Last(t, c) >= q[c]
<1>1. ASSUME NEW c \in Sequenced(t) PROVE Last(t, c) \in Nat /\ \A q \in db[t] : Last(t, c) >= q[c]
  <2>1. PICK S : S = {0} \cup {q[c] : q \in db[t]}
    OBVIOUS
  <2>2. IsFiniteSet(db[t]) /\ db[t] \subseteq [schema.cols[t] -> Nat] /\ c \in schema.cols[t]
    BY <1>1 DEF Consistent, Sequenced
  <2>3. IsFiniteSet({q[c] : q \in db[t]})
    <3>1. PICK rows, f : rows = db[t] /\ f = [q \in rows |-> q[c]]
      OBVIOUS
    <3>2. IsFiniteSet({f[q] : q \in rows})
      BY <2>2, <3>1, FiniteImage
    <3>3. {f[q] : q \in rows} = {q[c] : q \in db[t]}
      BY <3>1
    <3>4. QED BY <3>2, <3>3
  <2>4. IsFiniteSet(S) /\ S \subseteq Nat /\ S # {}
    <3>1. PICK Z, Q : Z = {0} /\ Q = {q[c] : q \in db[t]}
      OBVIOUS
    <3>2. IsFiniteSet(Z) /\ IsFiniteSet(Q) /\ S = Z \cup Q
      BY <2>1, <2>3, <3>1, FS_Singleton
    <3>3. IsFiniteSet(S)
      BY <3>2, FS_Union
    <3>4. \A q \in db[t] : q[c] \in Nat
      BY <2>2
    <3>5. QED BY <2>1, <3>3, <3>4
  <2>5. Max(S) \in S /\ \A x \in S : Max(S) >= x
    BY <2>4, Greatest
  <2>6. Last(t, c) = Max(S)
    BY <2>1 DEF Last
  <2>7. \A q \in db[t] : q[c] \in S
    BY <2>1
  <2>8. QED BY <2>4, <2>5, <2>6, <2>7
<1>2. \A c \in schema.cols[t] : Stored(t, r)[c] = IF c \in Sequenced(t) THEN Last(t, c) + r[c] ELSE r[c]
  BY DEF Stored
<1>3. Sequenced(t) \subseteq schema.cols[t]
  BY DEF Sequenced
<1>4. \A c \in schema.cols[t] : Stored(t, r)[c] \in Nat
  BY <1>1, <1>2
<1>5. Stored(t, r) \in [schema.cols[t] -> Nat]
  BY <1>4 DEF Stored
<1>6. QED BY <1>1, <1>2, <1>3, <1>5

LEMMA StoredRows ==
  ASSUME schema \in Schemas, Consistent(schema, db), SeedShape, seed.at = "rows"
  PROVE  /\ seed.table \in Tables(schema) /\ IsFiniteSet({Stored(seed.table, r) : r \in seed.batch})
         /\ {Stored(seed.table, r) : r \in seed.batch} \subseteq [schema.cols[seed.table] -> Nat]
<1>1. PICK t, batch : t = seed.table /\ batch = seed.batch
  OBVIOUS
<1>2. t \in Tables(schema) /\ IsFiniteSet(batch) /\ batch \subseteq [schema.cols[t] -> Nat]
  BY <1>1 DEF SeedShape
<1>3. IsFiniteSet({Stored(t, r) : r \in batch})
  <2>1. PICK f : f = [r \in batch |-> Stored(t, r)]
    OBVIOUS
  <2>2. IsFiniteSet({f[r] : r \in batch})
    BY <1>2, <2>1, FiniteImage
  <2>3. {f[r] : r \in batch} = {Stored(t, r) : r \in batch}
    BY <2>1
  <2>4. QED BY <2>2, <2>3
<1>4. \A r \in batch : Stored(t, r) \in [schema.cols[t] -> Nat]
  BY <1>2, StoredRow
<1>5. QED BY <1>1, <1>2, <1>3, <1>4

\* The engine finds no key of a stored row taken: it is not whole, or has a number
\* that is new, or there are no rows.
LEMMA KeysFit ==
  ASSUME schema \in Schemas, Consistent(schema, db), NEW t \in Tables(schema), DOMAIN seed.pools = Own(t),
         Fillable(t, {}), NEW number \in Nat, number > Cardinality(db[t]), NEW place \in Nat \ {0},
         NEW r \in Generated(t, number, place), r \in [schema.cols[t] -> Nat]
  PROVE  ~Taken(schema, t, Stored(t, r), db[t])
<1>1. PICK s : s = Stored(t, r)
  OBVIOUS
<1> SUFFICES ASSUME NEW k \in Keys(schema, t), NEW q \in db[t], Pick(q, k) = Pick(s, k), Whole(Pick(s, k))
             PROVE  FALSE
  BY <1>1 DEF Taken
<1>2. /\ \A c \in Blank(t) : r[c] = 0
      /\ \A c \in Numbered(t) : r[c] = number
      /\ \A c \in Sequenced(t) : r[c] = place
  BY MadeRow
<1>3. /\ \A c \in schema.cols[t] \ Sequenced(t) : s[c] = r[c]
      /\ \A c \in Sequenced(t) : s[c] = Last(t, c) + r[c] /\ Last(t, c) \in Nat /\ Last(t, c) >= q[c]
  BY <1>1, StoredRow
<1>4. \A c \in Elems(k) : q[c] = s[c] /\ s[c] # 0
  <2> SUFFICES ASSUME NEW c \in Elems(k) PROVE q[c] = s[c] /\ s[c] # 0
    OBVIOUS
  <2>1. PICK i \in DOMAIN k : k[i] = c
    BY DEF Elems
  <2>2. Pick(q, k)[i] = q[c] /\ Pick(s, k)[i] = s[c] /\ i \in DOMAIN Pick(s, k)
    BY <2>1 DEF Pick
  <2>3. QED BY <2>2 DEF Whole
<1>5. q \in [schema.cols[t] -> Nat] /\ Cardinality(db[t]) \in Nat
  BY FS_CardinalityType DEF Consistent
<1>6. CASE \E c \in Elems(k) : c \in Sequenced(t)
  <2>1. PICK c \in Elems(k) : c \in Sequenced(t)
    BY <1>6
  <2>2. c \in schema.cols[t]
    BY <2>1 DEF Sequenced
  <2>3. s[c] = Last(t, c) + place /\ Last(t, c) \in Nat /\ Last(t, c) >= q[c] /\ q[c] = s[c] /\ q[c] \in Nat
    BY <1>2, <1>3, <1>4, <1>5, <2>1, <2>2
  <2>4. QED BY <2>3
<1>7. CASE \E c \in Elems(k) : c \in Blank(t)
  <2>1. PICK c \in Elems(k) : c \in Blank(t)
    BY <1>7
  <2>2. c \in schema.cols[t] /\ c \notin Sequenced(t)
    BY <2>1 DEF Blank, Sequenced
  <2>3. QED BY <1>2, <1>3, <1>4, <2>1, <2>2
<1>8. CASE \E c \in Elems(k) \cap Numbered(t) : \A x \in db[t] : x[c] \in 0..Cardinality(db[t])
  <2>1. PICK c \in Elems(k) \cap Numbered(t) : q[c] \in 0..Cardinality(db[t])
    BY <1>8
  <2>2. c \in schema.cols[t] /\ c \notin Sequenced(t)
    BY <2>1 DEF Numbered, Sequenced
  <2>3. q[c] = number
    BY <1>2, <1>3, <1>4, <2>1, <2>2
  <2>4. QED BY <1>5, <2>1, <2>3
<1>9. QED BY <1>6, <1>7, <1>8 DEF Fillable, CanFill, KeysLeft

\* Nor does it find two of them alike.
LEMMA BatchIsUnique ==
  ASSUME schema \in Schemas, Consistent(schema, db), NEW t \in Tables(schema), CanFill(t),
         NEW batch, batch \subseteq [schema.cols[t] -> Nat], \A r \in batch : \A c \in Blank(t) : r[c] = 0,
         \A k \in MadeKeys(t) : \A q, r \in batch : Pick(q, k) = Pick(r, k) => q = r,
         \A c \in Sequenced(t) : \A q, r \in batch : q[c] = r[c] => q = r
  PROVE  Unique(schema, t, {Stored(t, r) : r \in batch})
<1> SUFFICES ASSUME NEW k \in Keys(schema, t), NEW q \in batch, NEW r \in batch,
                    Pick(Stored(t, q), k) = Pick(Stored(t, r), k), Whole(Pick(Stored(t, r), k))
             PROVE  q = r
  BY DEF Unique
<1>1. PICK x, y : x = Stored(t, q) /\ y = Stored(t, r)
  OBVIOUS
<1>2. \A c \in schema.cols[t] \ Sequenced(t) : x[c] = q[c] /\ y[c] = r[c]
  BY <1>1, StoredRow
<1>3. \A c \in Sequenced(t) : x[c] = Last(t, c) + q[c] /\ y[c] = Last(t, c) + r[c] /\ Last(t, c) \in Nat
  BY <1>1, StoredRow
<1>4. \A c \in Elems(k) : x[c] = y[c] /\ y[c] # 0
  <2> SUFFICES ASSUME NEW c \in Elems(k) PROVE x[c] = y[c] /\ y[c] # 0
    OBVIOUS
  <2>1. PICK i \in DOMAIN k : k[i] = c
    BY DEF Elems
  <2>2. Pick(x, k)[i] = x[c] /\ Pick(y, k)[i] = y[c] /\ i \in DOMAIN Pick(y, k)
    BY <2>1 DEF Pick
  <2>3. QED BY <1>1, <2>2 DEF Whole
<1>5. CASE \E c \in Elems(k) : c \in Sequenced(t)
  <2>1. PICK c \in Elems(k) : c \in Sequenced(t)
    BY <1>5
  <2>2. c \in schema.cols[t]
    BY <2>1 DEF Sequenced
  <2>3. q[c] \in Nat /\ r[c] \in Nat
    BY <2>2
  <2>4. q[c] = r[c]
    BY <1>3, <1>4, <2>1, <2>3
  <2>5. QED BY <2>1, <2>4
<1>6. CASE \E c \in Elems(k) : c \in Blank(t)
  <2>1. PICK c \in Elems(k) : c \in Blank(t)
    BY <1>6
  <2>2. c \in schema.cols[t] /\ c \notin Sequenced(t)
    BY <2>1 DEF Blank, Sequenced
  <2>3. QED BY <1>2, <1>4, <2>1, <2>2
<1>7. CASE k \in MadeKeys(t)
  <2>1. ASSUME NEW i \in DOMAIN k PROVE q[k[i]] = r[k[i]]
    <3>1. PICK c : c = k[i]
      OBVIOUS
    <3>2. c \in Elems(k)
      BY <3>1 DEF Elems
    <3>3. c \in Named(t)
      BY <1>7, <3>2 DEF MadeKeys
    <3>4. c \in schema.cols[t] /\ c \notin Sequenced(t)
      BY <3>3 DEF Named, Sequenced
    <3>5. QED BY <1>2, <1>4, <3>1, <3>2, <3>4
  <2>2. Pick(q, k) = Pick(r, k)
    BY <2>1 DEF Pick
  <2>3. QED BY <1>7, <2>2
<1>8. QED BY <1>5, <1>6, <1>7 DEF CanFill, KeysLeft

\* So it accepts the batch.
LEMMA BatchIsAccepted ==
  ASSUME schema \in Schemas, Consistent(schema, db), SeedShape, seed.at = "rows", Pooled, InOrder, Making, Rows # 0
  PROVE  Accepts(schema, db, seed.table, {Stored(seed.table, r) : r \in seed.batch})
<1>1. PICK t, batch : t = seed.table /\ batch = seed.batch
  OBVIOUS
<1>2. /\ t \in Tables(schema) /\ DOMAIN seed.pools = Own(t) /\ Fillable(t, {})
      /\ \A f \in Own(t) : seed.pools[f] = {Pick(r, f.ref) : r \in db[f.parent]}
      /\ batch \subseteq [schema.cols[t] -> Nat]
  BY <1>1 DEF SeedShape, Pooled, InOrder, Making
<1>3. Cardinality(db[t]) \in Nat
  BY <1>2, FS_CardinalityType DEF Consistent
<1>4. ASSUME NEW r \in batch
      PROVE  \E n, m \in Nat \ {0} : n > Cardinality(db[t]) /\ r \in Generated(t, n, m)
  <2>1. PICK n \in Nat, m \in 1..seed.made : n > seed.base /\ r \in Generated(t, n, m)
    BY <1>1 DEF Making
  <2>2. seed.base = Cardinality(db[t]) /\ seed.made \in Nat
    BY <1>1 DEF Making, SeedShape
  <2>3. n \in Nat \ {0} /\ m \in Nat \ {0} /\ n > Cardinality(db[t])
    BY <1>3, <2>1, <2>2
  <2>4. QED BY <2>1, <2>3
<1>5. ASSUME NEW r \in batch
      PROVE  /\ \A c \in schema.cols[t] : Stored(t, r)[c] = 0 => <<t, c>> \in schema.free
             /\ \A f \in Own(t) : \/ ~Whole(Pick(Stored(t, r), f.cols))
                                  \/ \E q \in db[f.parent] : Pick(q, f.ref) = Pick(Stored(t, r), f.cols)
             /\ ~Taken(schema, t, Stored(t, r), db[t])
             /\ \A c \in Blank(t) : r[c] = 0
  <2>1. PICK n \in Nat \ {0}, m \in Nat \ {0} : n > Cardinality(db[t]) /\ r \in Generated(t, n, m)
    BY <1>4
  <2>2. r \in [schema.cols[t] -> Nat]
    BY <1>2
  <2>3. ~Taken(schema, t, Stored(t, r), db[t])
    BY <1>2, <2>1, <2>2, KeysFit
  <2>4. /\ \A c \in schema.cols[t] : r[c] = 0 => <<t, c>> \in schema.free
        /\ \A f \in Own(t) : ~Whole(Pick(r, f.cols)) \/ \E q \in db[f.parent] : Pick(q, f.ref) = Pick(r, f.cols)
    BY <1>2, <2>1, RowFits
  <2>5. (\A c \in Blank(t) : r[c] = 0) /\ \A c \in Sequenced(t) : r[c] = m
    BY <1>2, <2>1, MadeRow
  <2>6. PICK s : s = Stored(t, r)
    OBVIOUS
  <2>7. /\ \A c \in schema.cols[t] \ Sequenced(t) : s[c] = r[c]
        /\ \A c \in Sequenced(t) : s[c] = Last(t, c) + r[c] /\ Last(t, c) \in Nat
    BY <1>2, <2>2, <2>6, StoredRow
  <2>8. \A c \in schema.cols[t] : s[c] = 0 => <<t, c>> \in schema.free
    <3> SUFFICES ASSUME NEW c \in schema.cols[t], s[c] = 0 PROVE <<t, c>> \in schema.free
      OBVIOUS
    <3>1. CASE c \in Sequenced(t)
      BY <2>5, <2>7, <3>1
    <3>2. CASE c \notin Sequenced(t)
      BY <2>4, <2>7, <3>2
    <3>3. QED BY <3>1, <3>2
  <2>9. ASSUME NEW f \in Own(t) PROVE Pick(s, f.cols) = Pick(r, f.cols)
    <3>1. f \in schema.fks /\ f.child = t /\ Elems(f.cols) \subseteq schema.cols[t]
      BY SchemaAssumption DEF Own, SoundSchema
    <3>2. \A i \in DOMAIN f.cols : s[f.cols[i]] = r[f.cols[i]]
      <4> SUFFICES ASSUME NEW i \in DOMAIN f.cols PROVE s[f.cols[i]] = r[f.cols[i]]
        OBVIOUS
      <4>1. PICK c : c = f.cols[i]
        OBVIOUS
      <4>2. c \in Elems(f.cols) /\ c \in schema.cols[t]
        BY <3>1, <4>1 DEF Elems
      <4>3. c \notin Sequenced(t)
        BY <3>1, <4>2 DEF Sequenced, Referring
      <4>4. QED BY <2>7, <4>1, <4>2, <4>3
    <3>3. QED BY <3>2 DEF Pick
  <2>10. \A f \in Own(t) : ~Whole(Pick(s, f.cols)) \/ \E q \in db[f.parent] : Pick(q, f.ref) = Pick(s, f.cols)
    BY <2>4, <2>9
  <2>11. QED BY <2>3, <2>5, <2>6, <2>8, <2>10
<1>6. PICK rows : rows = {Stored(t, r) : r \in batch}
  OBVIOUS
<1>7. NoneMissing(schema, t, rows) /\ \A s \in rows : ~Taken(schema, t, s, db[t])
  BY <1>5, <1>6 DEF NoneMissing
<1>8. Unique(schema, t, rows)
  <2>1. CanFill(t)
    BY <1>2 DEF Fillable
  <2>2. /\ \A k \in MadeKeys(t) : \A q, r \in batch : Pick(q, k) = Pick(r, k) => q = r
        /\ \A c \in Sequenced(t) : \A q, r \in batch : q[c] = r[c] => q = r
    BY <1>1 DEF Making
  <2>3. \A r \in batch : \A c \in Blank(t) : r[c] = 0
    BY <1>5
  <2>4. QED BY <1>2, <1>6, <2>1, <2>2, <2>3, BatchIsUnique
<1>9. ASSUME NEW f \in schema.fks, f.child = t, NEW s \in rows
      PROVE  ~Whole(Pick(s, f.cols))
             \/ \E q \in IF f.parent = t THEN db[t] \cup rows ELSE db[f.parent] : Pick(q, f.ref) = Pick(s, f.cols)
  <2>1. f \in Own(t)
    BY <1>9 DEF Own
  <2>2. QED BY <1>5, <1>6, <2>1
<1>10. QED BY <1>1, <1>6, <1>7, <1>8, <1>9 DEF Accepts

----------------------------------------------------------------------------
(* One step of the seeding command after the other.                        *)

LEMMA SameColumns ==
  ASSUME schema' = schema
  PROVE  \A t : /\ Own(t)' = Own(t) /\ Blank(t)' = Blank(t) /\ Sequenced(t)' = Sequenced(t)
                /\ MadeKeys(t)' = MadeKeys(t) /\ Numbered(t)' = Numbered(t) /\ Loose(t)' = Loose(t)
                /\ (CanFill(t) /\ db'[t] = db[t] => CanFill(t)')
<1> SUFFICES ASSUME NEW t
             PROVE  /\ Own(t)' = Own(t) /\ Blank(t)' = Blank(t) /\ Sequenced(t)' = Sequenced(t)
                    /\ MadeKeys(t)' = MadeKeys(t) /\ Numbered(t)' = Numbered(t) /\ Loose(t)' = Loose(t)
                    /\ (CanFill(t) /\ db'[t] = db[t] => CanFill(t)')
  OBVIOUS
<1>1. Own(t)' = Own(t) /\ Referring(t)' = Referring(t) /\ Keys(schema, t)' = Keys(schema, t)
      /\ \A c : Kind(t, c)' = Kind(t, c)
  BY DEF Own, Referring, Keys, Kind
<1>2. Blank(t)' = Blank(t) /\ Sequenced(t)' = Sequenced(t) /\ Named(t)' = Named(t)
  BY <1>1 DEF Blank, Sequenced, Named
<1>3. MadeKeys(t)' = MadeKeys(t)
  BY <1>1, <1>2 DEF MadeKeys
<1>4. Numbered(t)' = Numbered(t)
  BY <1>1, <1>3 DEF Numbered
<1>5. Loose(t)' = Loose(t)
  BY <1>1, <1>2, <1>4 DEF Loose
<1>6. ASSUME KeysLeft(t), db'[t] = db[t] PROVE KeysLeft(t)'
  BY <1>1, <1>2, <1>3, <1>4, <1>6 DEF KeysLeft
<1>7. ASSUME CanFill(t), db'[t] = db[t] PROVE CanFill(t)'
  BY <1>1, <1>2, <1>6, <1>7 DEF CanFill
<1>8. QED BY <1>1, <1>2, <1>3, <1>4, <1>5, <1>7

\* What rests on the schema and the database only stays as they are.
LEMMA SameGround ==
  ASSUME UNCHANGED <<schema, db>>
  PROVE  /\ \A t : Own(t)' = Own(t)
         /\ \A t, later : Fillable(t, later) => Fillable(t, later)'
         /\ \A ts : References(ts)' = References(ts)
         /\ \A f : Needs(f)' <=> Needs(f)
         /\ \A w : Sound(w) => Sound(w)'
<1>1. schema' = schema /\ db' = db
  OBVIOUS
<1>2. \A t : Own(t)' = Own(t)
  BY <1>1 DEF Own
<1>3. \A f : Required(f)' <=> Required(f)
  BY <1>1 DEF Required
<1>4. \A t : CanFill(t) => CanFill(t)'
  BY <1>1, SameColumns
<1>5. \A t, later : Fillable(t, later) => Fillable(t, later)'
  BY <1>1, <1>2, <1>3, <1>4 DEF Fillable
<1>6. \A ts : References(ts)' = References(ts)
  BY <1>1 DEF References
<1>7. \A f : Needs(f)' <=> Needs(f)
  BY <1>1, <1>3 DEF Needs
<1>8. \A w : Sound(w) => Sound(w)'
  <2> SUFFICES ASSUME NEW w, Sound(w) PROVE Sound(w)'
    OBVIOUS
  <2>1. PICK seeded : seeded = w \cup {f.parent : f \in {g \in References(w) : Required(g) /\ db[g.parent] = {}}}
    OBVIOUS
  <2>2. seeded = w \cup {f.parent : f \in {g \in References(w)' : Required(g)' /\ db'[g.parent] = {}}}
    BY <1>1, <1>3, <1>6, <2>1
  <2>3. \A f : CanRefer(f, seeded) => CanRefer(f, seeded)'
    BY <1>1 DEF CanRefer
  <2>4. /\ ~\E r \in SUBSET Tables(schema) : Cyclic(schema, r)
        /\ \A f \in {x \in schema.fks : x.child \in seeded} :
             /\ Required(f) => CanRefer(f, seeded)
             /\ \A g \in {x \in schema.fks : x.child \in seeded} :
                  f.child = g.child /\ Elems(f.cols) \cap Elems(g.cols) # {} => f = g
        /\ \A t \in seeded : CanFill(t)
    BY <2>1, Zenon DEF Sound
  <2>5. /\ ~\E r \in SUBSET Tables(schema') : Cyclic(schema', r)
        /\ \A f \in {x \in schema'.fks : x.child \in seeded} :
             /\ Required(f)' => CanRefer(f, seeded)'
             /\ \A g \in {x \in schema'.fks : x.child \in seeded} :
                  f.child = g.child /\ Elems(f.cols) \cap Elems(g.cols) # {} => f = g
        /\ \A t \in seeded : CanFill(t)'
    BY <1>1, <1>3, <1>4, <2>3, <2>4
  <2>6. QED BY <2>2, <2>5, Zenon DEF Sound
<1>9. QED BY <1>2, <1>5, <1>6, <1>7, <1>8

LEMMA SameRows ==
  ASSUME schema' = schema, seed'.pools = seed.pools
  PROVE  \A t, n, m : Generated(t, n, m)' = Generated(t, n, m)
<1>1. PICK pools : pools = seed.pools /\ pools = seed'.pools
  OBVIOUS
<1>2. ASSUME NEW t, NEW n, NEW m PROVE Generated(t, n, m)' = Generated(t, n, m)
  <2>1. Blank(t)' = Blank(t) /\ Numbered(t)' = Numbered(t) /\ Sequenced(t)' = Sequenced(t) /\ Loose(t)' = Loose(t)
    BY SameColumns
  <2>2. \A c : Owner(c)' = Owner(c)
    BY DEF Owner
  <2>3. \A loose, picks : NewRow(t, n, m, loose, picks)' = NewRow(t, n, m, loose, picks)
    <3> SUFFICES ASSUME NEW loose, NEW picks PROVE NewRow(t, n, m, loose, picks)' = NewRow(t, n, m, loose, picks)
      OBVIOUS
    <3> DEFINE Value(c, blank, numbered, sequenced, others, owner) ==
          CASE c \in blank -> 0
            [] c \in numbered -> n
            [] c \in sequenced -> m
            [] c \in others -> loose[c]
            [] OTHER -> LET f == CHOOSE g \in owner : TRUE IN picks[f][Place(f.cols, c)]
    <3>1. NewRow(t, n, m, loose, picks)
            = [c \in schema.cols[t] |-> Value(c, Blank(t), Numbered(t), Sequenced(t), Loose(t), Owner(c))]
      BY Zenon DEF NewRow
    <3>2. NewRow(t, n, m, loose, picks)'
            = [c \in schema'.cols[t] |-> Value(c, Blank(t)', Numbered(t)', Sequenced(t)', Loose(t)', Owner(c)')]
      BY Zenon DEF NewRow
    <3> HIDE DEF Value
    <3>3. QED BY <2>1, <2>2, <3>1, <3>2
  <2>4. Pickings' = Pickings
    BY <1>1 DEF Pickings
  <2>5. QED BY <2>1, <2>3, <2>4 DEF Generated
<1>3. QED BY <1>2

SeedOn == SeedInv /\ schema \in Schemas /\ Consistent(schema, db)

LEMMA BeginStep == SeedOn /\ Begin => SeedInv'
<1> SUFFICES ASSUME SeedOn, Begin PROVE SeedInv'
  OBVIOUS
<1>1. schema' = schema /\ db' = db /\ SeedShape
  BY DEF Begin, Seeds, SeedOn, SeedInv
<1>2. seed' =
   [at |-> "needed", wanted |-> seed.wanted, needed |-> seed.needed, asked |-> References(seed.wanted), todo |-> seed.todo, table |-> seed.table,
    pools |-> seed.pools, base |-> seed.base, made |-> seed.made, batch |-> seed.batch, sound |-> Sound(seed.wanted), quiet |-> TRUE]
  BY <1>1 DEF Begin, Seeds, SeedShape
<1>3. /\ seed'.at = "needed" /\ seed'.wanted = seed.wanted /\ seed'.needed = seed.wanted
      /\ seed'.asked = References(seed.wanted) /\ seed'.todo = seed.todo /\ seed'.sound = Sound(seed.wanted)
  BY <1>1, <1>2 DEF SeedShape, Begin
<1>4. SeedShape'
  BY <1>1, <1>2, <1>3 DEF SeedShape, References, Between
<1>5. ASSUME seed'.sound PROVE seed'.at # "failed" /\ Counted' /\ InOrder' /\ Pooled' /\ Making'
  <2>1. Sound(seed.wanted) /\ Sound(seed.wanted)'
    <3>1. PICK wanted : wanted = seed.wanted /\ wanted = seed'.wanted
      BY <1>3
    <3>2. Sound(wanted) /\ Sound(wanted)'
      BY <1>1, <1>3, <1>5, <3>1, SameGround
    <3>3. QED BY <3>1, <3>2
  <2>2. References(seed.wanted)' = References(seed.wanted)
    BY <1>1, <1>3 DEF References
  <2>3. {g \in References(seed.wanted)' \ seed'.asked : Needs(g)'} = {}
    BY <1>3, <2>2
  <2>4. seed'.needed = seed.wanted \cup {f.parent : f \in {g \in References(seed.wanted)' \ seed'.asked : Needs(g)'}}
    BY <1>3, <2>3
  <2>5. Counted'
    BY <1>3, <2>1, <2>2, <2>4, Zenon DEF Counted
  <2>6. ~\E r \in SUBSET Tables(schema) : Cyclic(schema, r)
    BY <2>1, Zenon DEF Sound
  <2>7. QED BY <1>1, <1>3, <2>5, <2>6 DEF InOrder, Pooled, Making
<1>6. QED BY <1>4, <1>5 DEF SeedInv

\* When the parents have been counted, what is needed is what Sound speaks of.
LEMMA CountedFillable ==
  ASSUME schema \in Schemas, Counted, seed.at = "needed", seed.asked = {}, NEW t \in seed.needed
  PROVE  Fillable(t, seed.needed)
<1>1. PICK seeded : seeded = seed.wanted \cup {f.parent : f \in {g \in References(seed.wanted) : Required(g) /\ db[g.parent] = {}}}
  OBVIOUS
<1>2. seed.needed = seeded
  <2>1. References(seed.wanted) \ seed.asked = References(seed.wanted)
    OBVIOUS
  <2>2. seed.needed = seed.wanted \cup {f.parent : f \in {g \in References(seed.wanted) : Needs(g)}}
    BY <2>1, Zenon DEF Counted
  <2>3. QED BY <1>1, <2>2, Zenon DEF Needs
<1>3. /\ \A f \in {x \in schema.fks : x.child \in seeded} :
           /\ Required(f) => CanRefer(f, seeded)
           /\ \A g \in {x \in schema.fks : x.child \in seeded} :
                f.child = g.child /\ Elems(f.cols) \cap Elems(g.cols) # {} => f = g
      /\ \A u \in seeded : CanFill(u)
  BY <1>1, Zenon DEF Sound, Counted
<1>4. Own(t) \subseteq {x \in schema.fks : x.child \in seeded} /\ \A f \in Own(t) : f.child = t
  BY <1>2 DEF Own
<1>5. QED BY <1>2, <1>3, <1>4 DEF Fillable, CanRefer

LEMMA AskParentStep == SeedOn /\ AskParent => SeedInv'
<1> SUFFICES ASSUME SeedOn, AskParent PROVE SeedInv'
  OBVIOUS
<1>1. schema' = schema /\ db' = db /\ SeedShape /\ seed.at = "needed" /\ schema \in Schemas
  BY DEF AskParent, Seeds, SeedOn, SeedInv
<1>2. CASE seed.asked = {}
  <2>1. seed' =
   [at |-> "next", wanted |-> seed.wanted, needed |-> seed.needed, asked |-> seed.asked, todo |-> seed.needed, table |-> seed.table,
    pools |-> seed.pools, base |-> seed.base, made |-> seed.made, batch |-> seed.batch, sound |-> seed.sound, quiet |-> seed.quiet]
    BY <1>1, <1>2 DEF AskParent, Seeds, SeedShape
  <2>2. /\ seed'.at = "next" /\ seed'.todo = seed.needed /\ seed'.wanted = seed.wanted /\ seed'.needed = seed.needed
        /\ seed'.sound = seed.sound /\ seed'.quiet = seed.quiet
    BY <2>1
  <2>3. SeedShape'
    BY <1>1, <2>1, <2>2 DEF SeedShape
  <2>4. ASSUME seed.sound, seed.quiet PROVE Counted' /\ InOrder' /\ Pooled' /\ Making'
    <3>1. Counted /\ InOrder
      BY <2>4 DEF SeedOn, SeedInv
    <3>2. \A t \in seed.needed : Fillable(t, seed.needed)
      BY <1>1, <1>2, <3>1, CountedFillable
    <3>3. PICK ahead : ahead = seed.needed
      OBVIOUS
    <3>4. Ahead' = ahead
      BY <2>2, <3>3 DEF Ahead
    <3>5. \A t \in Ahead' : Fillable(t, Ahead)'
      <4>1. \A t \in ahead : Fillable(t, ahead)'
        BY <1>1, <3>2, <3>3, SameGround
      <4>2. QED BY <3>4, <4>1
    <3>6. InOrder'
      BY <1>1, <2>2, <3>1, <3>5 DEF InOrder
    <3>7. QED BY <2>2, <3>6 DEF Counted, Pooled, Making
  <2>5. QED BY <2>2, <2>3, <2>4 DEF SeedInv
<1>3. CASE seed.asked # {}
  <2>1. PICK f \in seed.asked : seed' = [seed EXCEPT !.asked = @ \ {f}, !.needed = IF Needs(f) THEN @ \cup {f.parent} ELSE @]
    BY <1>3 DEF AskParent, Seeds
  <2>2. PICK needed : needed = IF Needs(f) THEN seed.needed \cup {f.parent} ELSE seed.needed
    OBVIOUS
  <2>3. seed' =
   [at |-> seed.at, wanted |-> seed.wanted, needed |-> needed, asked |-> seed.asked \ {f}, todo |-> seed.todo, table |-> seed.table,
    pools |-> seed.pools, base |-> seed.base, made |-> seed.made, batch |-> seed.batch, sound |-> seed.sound, quiet |-> seed.quiet]
    BY <1>1, <2>1, <2>2 DEF SeedShape
  <2>4. /\ seed'.at = "needed" /\ seed'.asked = seed.asked \ {f} /\ seed'.wanted = seed.wanted /\ seed'.needed = needed
        /\ seed'.todo = seed.todo /\ seed'.sound = seed.sound /\ seed'.quiet = seed.quiet
    BY <1>1, <2>3
  <2>5. f \in schema.fks /\ f.parent \in Tables(schema)
    BY <1>1, SchemaAssumption DEF SeedShape, SoundSchema
  <2>6. SeedShape'
    BY <1>1, <2>2, <2>3, <2>4, <2>5 DEF SeedShape
  <2>7. ASSUME seed.sound, seed.quiet PROVE Counted' /\ InOrder' /\ Pooled' /\ Making'
    <3>1. Counted /\ InOrder
      BY <2>7 DEF SeedOn, SeedInv
    <3>2. PICK refs : refs = References(seed.wanted)
      OBVIOUS
    <3>3. /\ Sound(seed.wanted) /\ seed.asked \subseteq refs
          /\ seed.needed = seed.wanted \cup {g.parent : g \in {x \in refs \ seed.asked : Needs(x)}}
      BY <1>1, <3>1, <3>2, Zenon DEF Counted
    <3>4. f \in refs
      BY <3>3
    <3>5. needed = seed.wanted \cup {g.parent : g \in {x \in refs \ (seed.asked \ {f}) : Needs(x)}}
      BY <2>2, <3>3, <3>4
    <3>6. refs = References(seed.wanted)' /\ (\A x : Needs(x)' <=> Needs(x)) /\ Sound(seed.wanted)'
      <4>1. PICK wanted : wanted = seed.wanted /\ wanted = seed'.wanted
        BY <2>4
      <4>2. refs = References(wanted)' /\ (\A x : Needs(x)' <=> Needs(x)) /\ Sound(wanted)'
        BY <1>1, <3>2, <3>3, <4>1, SameGround
      <4>3. QED BY <4>1, <4>2
    <3>7. needed = seed.wanted \cup {g.parent : g \in {x \in refs \ (seed.asked \ {f}) : Needs(x)'}}
      BY <3>5, <3>6
    <3>8. Counted'
      BY <2>4, <3>3, <3>6, <3>7, Zenon DEF Counted
    <3>9. InOrder'
      BY <1>1, <2>4, <3>1 DEF InOrder
    <3>10. QED BY <2>4, <3>8, <3>9 DEF Pooled, Making
  <2>8. QED BY <2>4, <2>6, <2>7 DEF SeedInv
<1>4. QED BY <1>2, <1>3

LEMMA NextTableStep == SeedOn /\ NextTable => SeedInv'
<1> SUFFICES ASSUME SeedOn, NextTable PROVE SeedInv'
  OBVIOUS
<1>1. schema' = schema /\ db' = db /\ SeedShape /\ seed.at = "next" /\ schema \in Schemas
  BY DEF NextTable, Seeds, SeedOn, SeedInv
<1>2. CASE seed.todo = {}
  <2>1. PICK none : none = << >>
    OBVIOUS
  <2>2. seed' =
   [at |-> "done", wanted |-> seed.wanted, needed |-> seed.needed, asked |-> seed.asked, todo |-> seed.todo, table |-> "none",
    pools |-> none, base |-> seed.base, made |-> seed.made, batch |-> seed.batch, sound |-> seed.sound, quiet |-> seed.quiet]
    BY <1>1, <1>2, <2>1 DEF NextTable, Seeds, SeedShape
  <2>3. /\ seed'.at = "done" /\ seed'.todo = seed.todo /\ seed'.wanted = seed.wanted /\ seed'.needed = seed.needed
    BY <2>2
  <2>4. SeedShape'
    BY <1>1, <2>2, <2>3 DEF SeedShape
  <2>5. QED BY <2>3, <2>4 DEF SeedInv, Counted, InOrder, Pooled, Making
<1>3. CASE seed.todo # {}
  <2>1. PICK t \in Firsts(schema, Tables(schema), seed.todo) :
          seed' = [seed EXCEPT !.at = "pools", !.table = t, !.todo = @ \ {t},
                     !.asked = {f \in schema.fks : f.child = t}, !.pools = [f \in {g \in schema.fks : g.child = t} |-> {}]]
    BY <1>3 DEF NextTable, Seeds
  <2>2. PICK pools : pools = [f \in Own(t) |-> {}]
    OBVIOUS
  <2>3. PICK own : own = Own(t)
    OBVIOUS
  <2>4. seed' =
   [at |-> "pools", wanted |-> seed.wanted, needed |-> seed.needed, asked |-> own, todo |-> seed.todo \ {t}, table |-> t,
    pools |-> pools, base |-> seed.base, made |-> seed.made, batch |-> seed.batch, sound |-> seed.sound, quiet |-> seed.quiet]
    BY <1>1, <2>1, <2>2, <2>3 DEF SeedShape, Own
  <2>5. /\ seed'.at = "pools" /\ seed'.table = t /\ seed'.todo = seed.todo \ {t} /\ seed'.wanted = seed.wanted
        /\ seed'.needed = seed.needed /\ seed'.asked = own /\ seed'.pools = pools
        /\ seed'.sound = seed.sound /\ seed'.quiet = seed.quiet
    BY <2>4
  <2>6. t \in seed.todo
    BY <2>1 DEF Firsts
  <2>10. Own(seed.table)' = own /\ t \in Tables(schema)
    BY <1>1, <2>3, <2>5, <2>6 DEF Own, SeedShape
  <2>7. SeedShape'
    BY <1>1, <2>2, <2>3, <2>4, <2>5, <2>6, <2>10 DEF SeedShape
  <2>8. ASSUME seed.sound, seed.quiet PROVE Counted' /\ InOrder' /\ Pooled' /\ Making'
    <3>1. InOrder
      BY <2>8 DEF SeedOn, SeedInv
    <3>2. PICK ahead : ahead = seed.todo /\ Ahead = ahead /\ Ahead' = ahead
      BY <1>1, <2>5, <2>6 DEF Ahead
    <3>3. \A u \in ahead : Fillable(u, ahead) /\ Fillable(u, ahead)'
      BY <1>1, <3>1, <3>2, SameGround DEF InOrder
    <3>4. \A u \in Ahead' : Fillable(u, Ahead)'
      BY <3>2, <3>3
    <3>5. \A f \in Between(schema) : f.child = t => f.parent \notin seed.todo
      BY <1>1, <2>1, <3>1 DEF Firsts, InOrder
    <3>6. Fillable(t, {})
      <4>1. Fillable(t, seed.todo)
        BY <2>6, <3>2, <3>3
      <4>2. \A f \in Own(t) : f.parent \notin seed.todo \ {t}
        BY <3>5 DEF Own, Between
      <4>3. QED BY <4>1, <4>2 DEF Fillable
    <3>7. Fillable(seed.table, {})'
      <4>1. PICK none : none = {}
        OBVIOUS
      <4>2. Fillable(t, none)'
        BY <1>1, <3>6, <4>1, SameGround
      <4>3. QED BY <2>5, <4>1, <4>2
    <3>8. InOrder'
      BY <1>1, <2>5, <3>1, <3>4, <3>7 DEF InOrder
    <3>9. Own(t)' = own
      BY <1>1, <2>3 DEF Own
    <3>10. Pooled'
      BY <2>2, <2>3, <2>5, <3>9 DEF Pooled, Own
    <3>11. QED BY <2>5, <3>8, <3>10 DEF Counted, Making
  <2>9. QED BY <2>5, <2>7, <2>8 DEF SeedInv
<1>4. QED BY <1>2, <1>3

\* The order stays while the command is at the same tables.
LEMMA OrderKept ==
  ASSUME schema' = schema, db' = db, InOrder, seed'.todo = seed.todo, seed'.table = seed.table,
         seed'.at = seed.at \/ {seed.at, seed'.at} \subseteq {"pools", "rows"}
  PROVE  InOrder'
<1>1. PICK ahead : ahead = Ahead /\ ahead = Ahead'
  BY DEF Ahead
<1>2. PICK t, none : t = seed.table /\ t = seed'.table /\ none = {}
  OBVIOUS
<1>3. \A u : Fillable(u, ahead) => Fillable(u, ahead)'
  BY SameGround
<1>4. Fillable(t, none) => Fillable(t, none)'
  BY SameGround
<1>5. \A u \in ahead : Fillable(u, ahead) => Fillable(u, Ahead)'
  BY <1>1, <1>3
<1>6. Fillable(seed.table, {}) => Fillable(seed.table, {})'
  BY <1>2, <1>4
<1>7. QED BY <1>1, <1>5, <1>6 DEF InOrder

LEMMA AskPoolStep == SeedOn /\ AskPool => SeedInv'
<1> SUFFICES ASSUME SeedOn, AskPool PROVE SeedInv'
  OBVIOUS
<1>1. schema' = schema /\ db' = db /\ SeedShape /\ seed.at = "pools" /\ schema \in Schemas
      /\ Consistent(schema, db)
  BY DEF AskPool, Seeds, SeedOn, SeedInv
<1>2. PICK f \in seed.asked :
        seed' = [seed EXCEPT !.asked = @ \ {f}, !.pools[f] = {Pick(r, f.ref) : r \in db[f.parent]}]
  BY DEF AskPool, Seeds
<1>3. PICK pool : pool = {Pick(r, f.ref) : r \in db[f.parent]}
  OBVIOUS
<1>4. PICK pools : pools = [seed.pools EXCEPT ![f] = pool]
  OBVIOUS
<1>5. seed' =
   [at |-> seed.at, wanted |-> seed.wanted, needed |-> seed.needed, asked |-> seed.asked \ {f}, todo |-> seed.todo, table |-> seed.table,
    pools |-> pools, base |-> seed.base, made |-> seed.made, batch |-> seed.batch, sound |-> seed.sound, quiet |-> seed.quiet]
  BY <1>1, <1>2, <1>3, <1>4 DEF SeedShape
<1>6. /\ seed'.at = "pools" /\ seed'.table = seed.table /\ seed'.todo = seed.todo /\ seed'.wanted = seed.wanted
      /\ seed'.needed = seed.needed /\ seed'.asked = seed.asked \ {f} /\ seed'.pools = pools
      /\ seed'.sound = seed.sound /\ seed'.quiet = seed.quiet
  BY <1>1, <1>5
<1>10. PICK of : of = Own(seed.table) /\ of = Own(seed.table)'
  BY <1>1, <1>6 DEF Own
<1>11. f \in of /\ of \subseteq schema.fks /\ DOMAIN seed.pools = of
       /\ \A g \in of : seed.pools[g] \subseteq [DOMAIN g.cols -> Nat]
  BY <1>1, <1>10 DEF SeedShape, Own
<1>12. pool \subseteq [DOMAIN f.cols -> Nat]
  <2>1. f.parent \in Tables(schema) /\ DOMAIN f.cols = DOMAIN f.ref /\ Elems(f.ref) \subseteq schema.cols[f.parent]
    BY <1>1, <1>11, SchemaAssumption DEF SoundSchema
  <2>2. db[f.parent] \subseteq [schema.cols[f.parent] -> Nat]
    BY <1>1, <2>1 DEF Consistent
  <2>3. ASSUME NEW r \in db[f.parent] PROVE Pick(r, f.ref) \in [DOMAIN f.cols -> Nat]
    <3>1. \A i \in DOMAIN f.ref : f.ref[i] \in Elems(f.ref)
      BY DEF Elems
    <3>2. QED BY <2>1, <2>2, <3>1 DEF Pick
  <2>4. QED BY <1>3, <2>3
<1>13. DOMAIN pools = of /\ \A g \in of : pools[g] \subseteq [DOMAIN g.cols -> Nat]
  BY <1>4, <1>11, <1>12
<1>7. SeedShape'
  BY <1>1, <1>5, <1>6, <1>10, <1>11, <1>13 DEF SeedShape
<1>8. ASSUME seed.sound, seed.quiet PROVE Counted' /\ InOrder' /\ Pooled' /\ Making'
  <2>1. InOrder /\ Pooled
    BY <1>8 DEF SeedOn, SeedInv
  <2>2. InOrder'
    BY <1>1, <1>6, <2>1, OrderKept
  <2>3. PICK own : own = Own(seed.table) /\ own = Own(seed.table)'
    BY <1>1, <1>6 DEF Own
  <2>4. \A g \in own \ (seed.asked \ {f}) : pools[g] = {Pick(r, g.ref) : r \in db[g.parent]}
    <3> SUFFICES ASSUME NEW g \in own \ (seed.asked \ {f}) PROVE pools[g] = {Pick(r, g.ref) : r \in db[g.parent]}
      OBVIOUS
    <3>1. DOMAIN seed.pools = own /\ g \in Own(seed.table) /\ f \in own
      BY <1>10, <1>11, <2>3
    <3>2. CASE g = f
      BY <1>3, <1>4, <3>1, <3>2
    <3>3. CASE g # f
      <4>1. pools[g] = seed.pools[g] /\ g \in Own(seed.table) \ seed.asked
        BY <1>4, <3>1, <3>3
      <4>2. seed.pools[g] = {Pick(r, g.ref) : r \in db[g.parent]}
        BY <1>1, <2>1, <4>1 DEF Pooled
      <4>3. QED BY <4>1, <4>2
    <3>4. QED BY <3>2, <3>3
  <2>5. Pooled'
    BY <1>1, <1>6, <2>3, <2>4 DEF Pooled
  <2>6. QED BY <1>6, <2>2, <2>5 DEF Counted, Making
<1>9. QED BY <1>6, <1>7, <1>8 DEF SeedInv

LEMMA CountRowsStep == SeedOn /\ CountRows => SeedInv'
<1> SUFFICES ASSUME SeedOn, CountRows PROVE SeedInv'
  OBVIOUS
<1>1. schema' = schema /\ db' = db /\ SeedShape /\ seed.at = "pools" /\ seed.asked = {}
      /\ Consistent(schema, db)
  BY DEF CountRows, Seeds, SeedOn, SeedInv
<1>2. PICK base : base = Cardinality(db[seed.table])
  OBVIOUS
<1>3. seed' =
   [at |-> "rows", wanted |-> seed.wanted, needed |-> seed.needed, asked |-> seed.asked, todo |-> seed.todo, table |-> seed.table,
    pools |-> seed.pools, base |-> base, made |-> 0, batch |-> {}, sound |-> seed.sound, quiet |-> seed.quiet]
  BY <1>1, <1>2 DEF CountRows, Seeds, SeedShape
<1>4. /\ seed'.at = "rows" /\ seed'.table = seed.table /\ seed'.todo = seed.todo /\ seed'.wanted = seed.wanted
      /\ seed'.needed = seed.needed /\ seed'.asked = seed.asked /\ seed'.pools = seed.pools /\ seed'.base = base
      /\ seed'.made = 0 /\ seed'.batch = {} /\ seed'.sound = seed.sound /\ seed'.quiet = seed.quiet
  BY <1>1, <1>3
<1>8. base \in Nat
  BY <1>1, <1>2, FS_CardinalityType DEF SeedShape, Consistent
<1>9. Own(seed.table)' = Own(seed.table)
  BY <1>1, <1>4 DEF Own
<1>5. SeedShape'
  BY <1>1, <1>3, <1>4, <1>8, <1>9, FS_EmptySet DEF SeedShape
<1>6. ASSUME seed.sound, seed.quiet PROVE Counted' /\ InOrder' /\ Pooled' /\ Making'
  <2>1. InOrder /\ Pooled
    BY <1>6 DEF SeedOn, SeedInv
  <2>2. InOrder'
    BY <1>1, <1>4, <2>1, OrderKept
  <2>3. Pooled'
    BY <1>1, <1>4, <2>1 DEF Pooled, Own
  <2>4. Making'
    BY <1>1, <1>2, <1>4, <1>8 DEF Making
  <2>5. QED BY <1>4, <2>2, <2>3, <2>4 DEF Counted
<1>7. QED BY <1>4, <1>5, <1>6 DEF SeedInv

\* The first row is made at the first attempt, and a row made has a key of its own.
LEMMA MakeRowStep == SeedOn /\ MakeRow => SeedInv'
<1> SUFFICES ASSUME SeedOn, MakeRow PROVE SeedInv'
  OBVIOUS
<1>1. schema' = schema /\ db' = db /\ SeedShape /\ seed.at = "rows" /\ schema \in Schemas /\ Consistent(schema, db)
  BY DEF MakeRow, Seeds, SeedOn, SeedInv
<1>2. PICK a \in 0..Attempts :
        /\ \A b \in 0..a - 1 : \E r \in Tried(b) : Seen(r)
        /\ IF a = Attempts THEN Seeds([seed EXCEPT !.made = @ + 1])
           ELSE \E r \in Tried(a) : ~Seen(r) /\ Seeds([seed EXCEPT !.made = @ + 1, !.batch = @ \cup {r}])
  BY DEF MakeRow
<1>3. PICK batch :
        /\ seed' = [seed EXCEPT !.made = @ + 1, !.batch = batch]
        /\ \/ a = Attempts /\ batch = seed.batch
           \/ \E r \in Tried(a) : ~Seen(r) /\ batch = seed.batch \cup {r}
  <2>1. CASE a = Attempts
    BY <1>1, <1>2, <2>1 DEF Seeds, SeedShape
  <2>2. CASE a # Attempts
    BY <1>2, <2>2 DEF Seeds
  <2>3. QED BY <2>1, <2>2
<1>4. seed' =
   [at |-> seed.at, wanted |-> seed.wanted, needed |-> seed.needed, asked |-> seed.asked, todo |-> seed.todo, table |-> seed.table,
    pools |-> seed.pools, base |-> seed.base, made |-> seed.made + 1, batch |-> batch, sound |-> seed.sound, quiet |-> seed.quiet]
  BY <1>1, <1>3 DEF SeedShape
<1>5. /\ seed'.at = "rows" /\ seed'.table = seed.table /\ seed'.todo = seed.todo /\ seed'.wanted = seed.wanted
      /\ seed'.needed = seed.needed /\ seed'.asked = seed.asked /\ seed'.pools = seed.pools /\ seed'.base = seed.base
      /\ seed'.made = seed.made + 1 /\ seed'.batch = batch /\ seed'.sound = seed.sound /\ seed'.quiet = seed.quiet
  BY <1>1, <1>4
<1>11. PICK t, place : t = seed.table /\ place = seed.made + 1
  OBVIOUS
<1>12. /\ t \in Tables(schema) /\ DOMAIN seed.pools = Own(t) /\ seed.base \in Nat /\ seed.made \in Nat /\ place \in 1..place
       /\ place \in Nat /\ \A f \in Own(t) : seed.pools[f] \subseteq [DOMAIN f.cols -> Nat]
  BY <1>1, <1>11 DEF SeedShape
<1>13. ASSUME NEW r \in batch, r \notin seed.batch
       PROVE  \E n \in Nat : n > seed.base /\ r \in Generated(t, n, place)
  <2>1. r \in Generated(t, seed.base + seed.made + 1 + a * Rows, place)
    BY <1>3, <1>11, <1>13 DEF Tried
  <2>2. a * Rows \in Nat
    <3>1. Attempts \in Nat /\ Rows \in Nat
      BY DatasetAssumption
    <3>2. a \in Nat
      BY <3>1
    <3>3. QED BY <3>1, <3>2
  <2>3. PICK n : n = seed.base + seed.made + 1 + a * Rows
    OBVIOUS
  <2>4. n \in Nat /\ n > seed.base
    BY <1>12, <2>2, <2>3
  <2>5. QED BY <2>1, <2>3, <2>4
<1>6. ASSUME NEW r \in batch PROVE r \in [schema.cols[t] -> Nat]
  <2>1. CASE r \in seed.batch
    BY <1>1, <1>11, <2>1 DEF SeedShape
  <2>2. CASE r \notin seed.batch
    <3>1. PICK n \in Nat : r \in Generated(t, n, place)
      BY <1>13, <2>2
    <3>2. QED BY <1>1, <1>12, <3>1, MadeOfNumbers
  <2>3. QED BY <2>1, <2>2
<1>7. IsFiniteSet(batch)
  BY <1>1, <1>3, FS_AddElement DEF SeedShape
<1>14. Own(seed.table)' = Own(seed.table)
  BY <1>1, <1>5 DEF Own
<1>8. SeedShape'
  BY <1>1, <1>4, <1>5, <1>6, <1>7, <1>11, <1>12, <1>14 DEF SeedShape
<1>9. ASSUME seed.sound, seed.quiet PROVE Counted' /\ InOrder' /\ Pooled' /\ Making'
  <2>1. InOrder /\ Pooled /\ Making
    BY <1>9 DEF SeedOn, SeedInv
  <2>2. InOrder'
    BY <1>1, <1>5, <2>1, OrderKept
  <2>3. Pooled'
    BY <1>1, <1>5, <2>1 DEF Pooled, Own
  <2>4. /\ seed.asked = {} /\ seed.base = Cardinality(db[t])
        /\ seed.made = 0 <=> seed.batch = {}
        /\ \A r \in seed.batch : \E n \in Nat, m \in 1..seed.made : n > seed.base /\ r \in Generated(t, n, m)
        /\ \A k \in MadeKeys(t) : \A q, r \in seed.batch : Pick(q, k) = Pick(r, k) => q = r
        /\ \A c \in Sequenced(t) : \A q, r \in seed.batch : q[c] = r[c] => q = r
    BY <1>1, <1>11, <2>1 DEF Making
  <2>5. Fillable(t, {})
    BY <1>1, <1>11, <2>1 DEF InOrder
  <2>6. batch # {}
    <3>1. CASE seed.batch # {}
      BY <1>3, <3>1
    <3>2. CASE seed.batch = {}
      <4>1. \A r : ~Seen(r)
        BY <3>2 DEF Seen
      <4>2. ~\E b \in 0..a - 1 : TRUE
        BY <1>2, <4>1
      <4>3. Attempts \in Nat /\ Attempts > 0
        BY DatasetAssumption
      <4>5. a # Attempts
        BY <4>2, <4>3
      <4>4. QED BY <1>3, <4>5
    <3>3. QED BY <3>1, <3>2
  <2>7. ASSUME NEW r \in batch PROVE \E n \in Nat, m \in 1..place : n > seed.base /\ r \in Generated(t, n, m)
    <3>1. CASE r \in seed.batch
      <4>1. PICK n \in Nat, m \in 1..seed.made : n > seed.base /\ r \in Generated(t, n, m)
        BY <2>4, <3>1
      <4>2. m \in 1..place
        BY <1>11, <1>12
      <4>3. QED BY <4>1, <4>2
    <3>2. CASE r \notin seed.batch
      BY <1>12, <1>13, <3>2
    <3>3. QED BY <3>1, <3>2
  <2>8. ASSUME NEW k \in MadeKeys(t), NEW q \in batch, NEW r \in batch, Pick(q, k) = Pick(r, k)
        PROVE  q = r
    <3>1. CASE batch = seed.batch
      BY <2>4, <2>8, <3>1
    <3>2. CASE \E s : ~Seen(s) /\ batch = seed.batch \cup {s}
      <4>1. PICK s : ~Seen(s) /\ batch = seed.batch \cup {s}
        BY <3>2
      <4>2. \A x \in seed.batch : Pick(x, k) # Pick(s, k)
        BY <1>11, <2>8, <4>1 DEF Seen
      <4>3. QED BY <2>4, <2>8, <4>1, <4>2
    <3>3. QED BY <1>3, <3>1, <3>2
  <2>14. ASSUME NEW c \in Sequenced(t), NEW q \in batch, NEW r \in batch, q[c] = r[c]
         PROVE  q = r
    <3>1. ASSUME NEW x \in seed.batch PROVE x[c] \in 1..seed.made
      <4>1. PICK n \in Nat, m \in 1..seed.made : x \in Generated(t, n, m)
        BY <2>4
      <4>2. x[c] = m
        BY <1>1, <1>12, <2>5, <4>1, MadeRow
      <4>3. QED BY <4>1, <4>2
    <3>2. ASSUME NEW x \in batch, x \notin seed.batch PROVE x[c] = place
      <4>1. PICK n \in Nat : x \in Generated(t, n, place)
        BY <1>13, <3>2
      <4>2. QED BY <1>1, <1>12, <2>5, <4>1, MadeRow
    <3>3. place \notin 1..seed.made
      BY <1>11, <1>12
    <3>4. CASE q \in seed.batch /\ r \in seed.batch
      BY <2>4, <2>14, <3>4
    <3>5. CASE q \notin seed.batch /\ r \notin seed.batch
      BY <1>3, <3>5
    <3>6. CASE q \in seed.batch /\ r \notin seed.batch
      BY <2>14, <3>1, <3>2, <3>3, <3>6
    <3>7. CASE q \notin seed.batch /\ r \in seed.batch
      BY <2>14, <3>1, <3>2, <3>3, <3>7
    <3>8. QED BY <3>4, <3>5, <3>6, <3>7
  <2>9. \A n, m : Generated(t, n, m)' = Generated(t, n, m)
    BY <1>1, <1>5, SameRows
  <2>10. MadeKeys(t)' = MadeKeys(t) /\ Sequenced(t)' = Sequenced(t)
    BY <1>1, SameColumns
  <2>11. \A r \in batch : \E n \in Nat, m \in 1..place : n > seed.base /\ r \in Generated(t, n, m)'
    BY <2>7, <2>9
  <2>12. Making'
    <3>1. /\ seed'.asked = {} /\ seed'.base = Cardinality(db'[t])
          /\ seed'.made = 0 <=> seed'.batch = {}
      BY <1>1, <1>5, <1>12, <2>4, <2>6
    <3>2. /\ seed'.table = t /\ seed'.made = place /\ seed'.batch = batch /\ seed'.base = seed.base
      BY <1>5, <1>11
    <3>3. PICK u : u = seed'.table
      OBVIOUS
    <3>4. u = t
      BY <3>2, <3>3
    <3>5. /\ \A r \in batch : \E n \in Nat, m \in 1..place : n > seed.base /\ r \in Generated(u, n, m)'
          /\ \A k \in MadeKeys(u)' : \A q, r \in batch : Pick(q, k) = Pick(r, k) => q = r
          /\ \A c \in Sequenced(u)' : \A q, r \in batch : q[c] = r[c] => q = r
      BY <2>8, <2>10, <2>11, <2>14, <3>4
    <3>6. QED BY <3>1, <3>2, <3>3, <3>4, <3>5 DEF Making
  <2>13. QED BY <1>5, <2>2, <2>3, <2>12 DEF Counted
<1>10. QED BY <1>5, <1>8, <1>9 DEF SeedInv

LEMMA InsertStep == SeedOn /\ Insert => SeedInv'
<1> SUFFICES ASSUME SeedOn, Insert PROVE SeedInv'
  OBVIOUS
<1>1. schema' = schema /\ SeedShape /\ seed.at = "rows" /\ schema \in Schemas /\ Consistent(schema, db) /\ seed.made = Wanted
  BY DEF Insert, SeedOn, SeedInv
<1>8. PICK rows : rows = {Stored(seed.table, r) : r \in seed.batch}
  OBVIOUS
<1>2. PICK at \in {"next", "failed"} :
        /\ seed' = [seed EXCEPT !.at = at]
        /\ at = "failed" => ~Accepts(schema, db, seed.table, rows) \/ seed.table \in schema.strict
        /\ at = "next" => db' = [db EXCEPT ![seed.table] = @ \cup rows]
  BY <1>8 DEF Insert
<1>3. seed' =
   [at |-> at, wanted |-> seed.wanted, needed |-> seed.needed, asked |-> seed.asked, todo |-> seed.todo, table |-> seed.table,
    pools |-> seed.pools, base |-> seed.base, made |-> seed.made, batch |-> seed.batch, sound |-> seed.sound, quiet |-> seed.quiet]
  BY <1>1, <1>2 DEF SeedShape
<1>4. /\ seed'.at = at /\ seed'.table = seed.table /\ seed'.todo = seed.todo /\ seed'.wanted = seed.wanted
      /\ seed'.needed = seed.needed /\ seed'.sound = seed.sound /\ seed'.quiet = seed.quiet
  BY <1>1, <1>3
<1>5. SeedShape'
  BY <1>1, <1>2, <1>3, <1>4 DEF SeedShape
<1>6. ASSUME seed.sound, seed.quiet PROVE at = "next" /\ InOrder'
  <2>1. InOrder /\ Pooled /\ Making
    BY <1>6 DEF SeedOn, SeedInv
  <2>2. Accepts(schema, db, seed.table, rows)
    <3>1. CASE Rows # 0
      BY <1>1, <1>8, <2>1, <3>1, BatchIsAccepted
    <3>2. CASE Rows = 0
      <4>1. rows = {}
        BY <1>1, <1>8, <2>1, <3>2 DEF Wanted, Making
      <4>2. QED BY <4>1 DEF Accepts, NoneMissing, Unique
    <3>3. QED BY <3>1, <3>2
  <2>3. PICK t : t = seed.table
    OBVIOUS
  <2>12. Fillable(seed.table, {})
    BY <1>1, <2>1 DEF InOrder
  <2>4. db' = [db EXCEPT ![t] = @ \cup rows] /\ at = "next" /\ t \in Tables(schema)
    BY <1>1, <1>2, <2>2, <2>3, <2>12 DEF SeedShape, Fillable, CanFill
  <2>5. \A u \in Tables(schema) : (u # t => db'[u] = db[u]) /\ (u = t => db'[u] = db[u] \cup rows)
    BY <1>1, <2>4 DEF Consistent
  <2>6. Rows # 0 => rows # {}
    BY <1>1, <1>8, <2>1, DatasetAssumption DEF Making, Wanted
  <2>7. PICK ahead : ahead = seed.todo /\ ahead = Ahead'
    BY <1>4, <2>4 DEF Ahead
  <2>8. t \notin ahead /\ ahead \subseteq Tables(schema) /\ Ahead = ahead \cup {t}
    BY <1>1, <2>1, <2>3, <2>7 DEF InOrder, SeedShape, Ahead
  <2>9. ASSUME NEW u \in ahead PROVE Fillable(u, ahead)'
    <3>1. Fillable(u, ahead \cup {t}) /\ u # t /\ u \in Tables(schema)
      BY <1>1, <2>1, <2>8 DEF InOrder
    <3>2. db'[u] = db[u]
      BY <2>5, <3>1
    <3>3. Own(u)' = Own(u)
      BY <1>1 DEF Own
    <3>4. CanFill(u)'
      BY <1>1, <3>1, <3>2, SameColumns DEF Fillable
    <3>5. ASSUME NEW f \in Own(u), Required(f)
          PROVE  Rows = 0 \/ db'[f.parent] # {} \/ f.parent \in ahead \ {u}
      <4>1. f.parent \in Tables(schema)
        BY <1>1, SchemaAssumption DEF Own, SoundSchema
      <4>2. Rows = 0 \/ db[f.parent] # {} \/ f.parent \in (ahead \cup {t}) \ {u}
        BY <3>1, <3>5 DEF Fillable
      <4>3. QED BY <2>5, <2>6, <4>1, <4>2
    <3>6. \A f : Required(f)' <=> Required(f)
      BY <1>1 DEF Required
    <3>7. QED BY <1>1, <3>1, <3>3, <3>4, <3>5, <3>6 DEF Fillable
  <2>10. \A u \in Ahead' : Fillable(u, Ahead)'
    BY <2>7, <2>9
  <2>11. QED BY <1>1, <1>4, <2>1, <2>4, <2>10 DEF InOrder
<1>7. QED BY <1>2, <1>4, <1>5, <1>6 DEF SeedInv, Counted, Pooled, Making

\* Others' rows end what the invariant says but of shape.
LEMMA OthersInsert == SeedOn /\ AppInsert => SeedInv'
<1> SUFFICES ASSUME SeedOn, AppInsert PROVE SeedInv'
  OBVIOUS
<1>1. schema' = schema /\ SeedShape /\ seed' = [seed EXCEPT !.quiet = FALSE]
  BY DEF AppInsert, SeedOn, SeedInv
<1>2. seed' =
   [at |-> seed.at, wanted |-> seed.wanted, needed |-> seed.needed, asked |-> seed.asked, todo |-> seed.todo, table |-> seed.table,
    pools |-> seed.pools, base |-> seed.base, made |-> seed.made, batch |-> seed.batch, sound |-> seed.sound, quiet |-> FALSE]
  BY <1>1 DEF SeedShape
<1>3. /\ seed'.at = seed.at /\ seed'.wanted = seed.wanted /\ seed'.needed = seed.needed /\ seed'.asked = seed.asked
      /\ seed'.todo = seed.todo /\ seed'.table = seed.table /\ seed'.batch = seed.batch /\ ~seed'.quiet
      /\ seed'.pools = seed.pools /\ seed'.base = seed.base /\ seed'.made = seed.made
  BY <1>2
<1>4. SeedShape'
  BY <1>1, <1>2, <1>3 DEF SeedShape, Own
<1>5. QED BY <1>3, <1>4 DEF SeedInv

LEMMA SeedStays == SeedInv /\ UNCHANGED <<schema, db, seed>> => SeedInv'
<1> SUFFICES ASSUME SeedInv, UNCHANGED <<schema, db, seed>> PROVE SeedInv'
  OBVIOUS
<1>1. schema' = schema /\ db' = db /\ seed' = seed
  OBVIOUS
<1>2. SeedShape'
  BY <1>1 DEF SeedInv, SeedShape, Own
<1>3. ASSUME seed.sound, seed.quiet PROVE seed'.at # "failed" /\ Counted' /\ InOrder' /\ Pooled' /\ Making'
  <2>1. seed.at # "failed" /\ Counted /\ InOrder /\ Pooled /\ Making
    BY <1>3 DEF SeedInv
  <2>2. InOrder'
    BY <1>1, <2>1, OrderKept
  <2>3. Pooled'
    BY <1>1, <2>1 DEF Pooled, Own
  <2>4. Counted'
    <3>1. PICK wanted : wanted = seed.wanted
      OBVIOUS
    <3>2. (Sound(wanted) => Sound(wanted)') /\ References(wanted)' = References(wanted) /\ (\A f : Needs(f)' <=> Needs(f))
      BY <1>1, SameGround
    <3>3. CASE seed.at = "needed"
      <4>1. /\ Sound(wanted) /\ seed.asked \subseteq References(wanted)
            /\ seed.needed = wanted \cup {f.parent : f \in {g \in References(wanted) \ seed.asked : Needs(g)}}
        BY <2>1, <3>1, <3>3, Zenon DEF Counted
      <4>2. seed.needed = wanted \cup {f.parent : f \in {g \in References(wanted)' \ seed.asked : Needs(g)'}}
        BY <3>2, <4>1
      <4>3. QED BY <1>1, <3>1, <3>2, <4>1, <4>2, Zenon DEF Counted
    <3>4. QED BY <1>1, <3>3 DEF Counted
  <2>5. Making'
    <3>1. PICK t : t = seed.table
      OBVIOUS
    <3>2. /\ \A n, m : Generated(t, n, m)' = Generated(t, n, m)
          /\ MadeKeys(t)' = MadeKeys(t) /\ Sequenced(t)' = Sequenced(t)
      BY <1>1, SameRows, SameColumns
    <3>3. CASE seed.at = "rows"
      <4>1. /\ \A r \in seed.batch : \E n \in Nat, m \in 1..seed.made : n > seed.base /\ r \in Generated(t, n, m)'
            /\ \A k \in MadeKeys(t)' : \A q, r \in seed.batch : Pick(q, k) = Pick(r, k) => q = r
            /\ \A c \in Sequenced(t)' : \A q, r \in seed.batch : q[c] = r[c] => q = r
        BY <2>1, <3>1, <3>2, <3>3 DEF Making
      <4>2. QED BY <1>1, <2>1, <3>1, <3>3, <4>1 DEF Making
    <3>4. QED BY <1>1, <3>3 DEF Making
  <2>6. QED BY <1>1, <2>1, <2>2, <2>3, <2>4, <2>5
<1>4. QED BY <1>1, <1>2, <1>3 DEF SeedInv

LEMMA SeedKept == SeedOn /\ (SeedNext \/ AppInsert) => SeedInv'
BY BeginStep, AskParentStep, NextTableStep, AskPoolStep, CountRowsStep, MakeRowStep, InsertStep, OthersInsert DEF SeedNext

LEMMA SeedBegins ==
  ASSUME NEW at \in {"begin", "off"}, NEW wanted \in SUBSET Tables(schema), seed = Seeding(at, wanted)
  PROVE  SeedInv
<1>1. PICK none : none = << >>
  OBVIOUS
<1>2. seed = [at |-> at, wanted |-> wanted, needed |-> wanted, asked |-> {}, todo |-> {}, table |-> "none",
              pools |-> none, base |-> 0, made |-> 0, batch |-> {}, sound |-> TRUE, quiet |-> TRUE]
  BY <1>1 DEF Seeding
<1>3. seed.at = at /\ seed.wanted = wanted /\ seed.needed = wanted /\ seed.todo = {}
  BY <1>2
<1>4. SeedShape
  BY <1>2, <1>3 DEF SeedShape
<1>5. QED BY <1>3, <1>4 DEF SeedInv, Counted, InOrder, Pooled, Making

----------------------------------------------------------------------------
(* Rows are only ever inserted: what was selected stays what it was.       *)

LEMMA GrowthKeepsSample ==
  ASSUME SampleInv, UNCHANGED <<schema, sample>>, Consistent(schema, db'),
         \A t \in Tables(schema) : db[t] \subseteq db'[t]
  PROVE  SampleInv'
<1>1. schema' = schema /\ sample' = sample
  OBVIOUS
<1>2. ASSUME NEW t \in Tables(schema) PROVE Identify(t)' = Identify(t)
  BY <1>1 DEF Identify, KeyOf
<1>3. ASSUME NEW t \in Tables(schema), NEW sv \in sample.sel[t], NEW r \in db'[t], Pick(r, sv[1]) = sv[2]
      PROVE  r \in db[t]
  <2>1. sv[1] \in Identify(t)
    BY DEF SampleInv, Meant
  <2>2. PICK q \in db[t] : Pick(q, sv[1]) = sv[2]
    BY DEF SampleInv, Meant
  <2>3. q \in db'[t]
    BY <2>2
  <2>4. Pick(q, sv[1]) = Pick(r, sv[1]) /\ Whole(Pick(r, sv[1]))
    BY <1>3, <2>2 DEF SampleInv, Meant
  <2>5. schema \in Schemas
    BY DEF SampleInv
  <2>6. q = r
    BY <2>1, <2>3, <2>4, <2>5, OneRowMeant
  <2>7. QED BY <2>2, <2>6
<1>4. SampleShape' /\ AtHand' /\ schema' \in Schemas /\ Consistent(schema, db)'
  BY <1>1 DEF SampleInv, SampleShape, AtHand
<1>5. Meant'
  <2> SUFFICES ASSUME NEW t \in Tables(schema), NEW sv \in sample.sel[t]
               PROVE  sv[1] \in Identify(t)' /\ Whole(sv[2]) /\ \E r \in db'[t] : Pick(r, sv[1]) = sv[2]
    BY <1>1 DEF Meant
  <2>1. sv[1] \in Identify(t) /\ Whole(sv[2]) /\ \E r \in db[t] : Pick(r, sv[1]) = sv[2]
    BY DEF SampleInv, Meant
  <2>2. QED BY <1>2, <2>1
<1>6. NoneForgotten'
  <2> SUFFICES ASSUME NEW f \in schema.fks, NEW sv \in sample.sel[f.child]
               PROVE  Pending(f.child, sv, f)' \/ Followed(f.child, sv, f)'
    BY <1>1 DEF NoneForgotten
  <2>1. f.child \in Tables(schema)
    BY SchemaAssumption DEF SampleInv, SoundSchema
  <2>2. Pending(f.child, sv, f) => Pending(f.child, sv, f)'
    BY <1>1 DEF Pending, InFront, Has
  <2>3. Followed(f.child, sv, f) => Followed(f.child, sv, f)'
    BY <1>1, <1>3, <2>1 DEF Followed
  <2>4. QED BY <2>2, <2>3 DEF SampleInv, NoneForgotten
<1>7. ASSUME NEW t \in Tables(schema) PROVE Exported(t)' = Exported(t)
  <2>1. \A r \in Exported(t)' : r \in Exported(t)
    BY <1>1, <1>3 DEF Exported
  <2>2. \A r \in Exported(t) : r \in Exported(t)'
    BY <1>1 DEF Exported
  <2>3. QED BY <2>1, <2>2
<1>8. Written'
  BY <1>1, <1>7 DEF SampleInv, Written
<1>9. QED BY <1>4, <1>5, <1>6, <1>8 DEF SampleInv

----------------------------------------------------------------------------
(* A query's values join the selection and the frontier.                   *)

\* One more entry behind the others.
LEMMA FrontGrows ==
  ASSUME NEW q, q \in Seq(Elems(q)), NEW e
  PROVE  /\ Append(q, e) \in Seq(Elems(Append(q, e)))
         /\ \A j \in DOMAIN q : j \in DOMAIN Append(q, e) /\ Append(q, e)[j] = q[j]
         /\ Len(q) + 1 \in DOMAIN Append(q, e) /\ Append(q, e)[Len(q) + 1] = e
<1> DEFINE S == Elems(q) \cup {e}
<1>1. q \in Seq(S) /\ e \in S
  BY SeqMonotonic
<1> HIDE DEF S
<1>2. /\ Append(q, e) \in Seq(S) /\ Len(Append(q, e)) = Len(q) + 1 /\ Append(q, e)[Len(q) + 1] = e
      /\ \A i \in 1..Len(q) : Append(q, e)[i] = q[i]
  BY <1>1, AppendProperties
<1>3. DOMAIN q = 1..Len(q) /\ Len(q) \in Nat /\ DOMAIN Append(q, e) = 1..(Len(q) + 1)
  BY <1>1, <1>2, LenProperties
<1>4. \A i \in 1..Len(Append(q, e)) : Append(q, e)[i] \in Elems(Append(q, e))
  BY <1>2, <1>3 DEF Elems
<1>5. Append(q, e) \in Seq(Elems(Append(q, e)))
  <2> DEFINE a == Append(q, e)
  <2>1. a \in [1..Len(a) -> S] /\ Len(a) \in Nat
    BY <1>2, LenProperties
  <2>2. a \in [1..Len(a) -> Elems(a)]
    BY <1>4, <2>1
  <2> HIDE DEF a
  <2>3. a \in Seq(Elems(a))
    BY <2>1, <2>2
  <2>4. QED BY <2>3 DEF a
<1>6. QED BY <1>2, <1>3, <1>5

\* What m is, when the values have joined the sample in it.
Joined(m, t, cols, vals) ==
  /\ m = [sample EXCEPT !.sel = m.sel, !.front = m.front]
  /\ DOMAIN m.sel = Tables(schema)
  /\ \A u \in Tables(schema) : sample.sel[u] \subseteq m.sel[u]
  /\ \A u \in Tables(schema) : \A sv \in m.sel[u] : sv \in sample.sel[u] \/
       (u = t /\ sv[1] = cols /\ sv[2] \in vals /\ Whole(sv[2]) /\ \E j \in DOMAIN m.front : Has(m.front[j], t, sv))
  /\ \A v \in vals : Whole(v) => <<cols, v>> \in m.sel[t]
  /\ m.front \in Seq(Elems(m.front))
  /\ \A j \in DOMAIN sample.front : j \in DOMAIN m.front /\ m.front[j] = sample.front[j]

LEMMA JoinedSample ==
  ASSUME SampleShape, NEW t \in Tables(schema), NEW cols, NEW vals
  PROVE  Joined(Joins(sample, t, cols, vals), t, cols, vals)
<1>0. PICK m : m = Joins(sample, t, cols, vals)
  OBVIOUS
<1>1. PICK new : new = Fresh(t, cols, vals)
  OBVIOUS
<1>2. PICK e : e = [table |-> t, cols |-> cols, vals |-> new]
  OBVIOUS
<1>3. PICK front : front = IF new = {} THEN sample.front ELSE Append(sample.front, e)
  OBVIOUS
<1>4. PICK svs : svs = {<<cols, v>> : v \in new}
  OBVIOUS
<1>5. m = [sample EXCEPT !.sel = [sample.sel EXCEPT ![t] = @ \cup svs], !.front = front]
  BY <1>0, <1>1, <1>2, <1>3, <1>4 DEF Joins, SampleShape
<1>6. m.sel = [sample.sel EXCEPT ![t] = @ \cup svs] /\ m.front = front
  BY <1>5 DEF SampleShape
<1>7. DOMAIN m.sel = Tables(schema)
  BY <1>6 DEF SampleShape
<1>8. \A u \in Tables(schema) : m.sel[u] = IF u = t THEN sample.sel[u] \cup svs ELSE sample.sel[u]
  BY <1>6 DEF SampleShape
<1>9. /\ sample.front \in Seq(Elems(sample.front))
      /\ Append(sample.front, e) \in Seq(Elems(Append(sample.front, e)))
      /\ \A j \in DOMAIN sample.front : j \in DOMAIN Append(sample.front, e) /\ Append(sample.front, e)[j] = sample.front[j]
      /\ Len(sample.front) + 1 \in DOMAIN Append(sample.front, e) /\ Append(sample.front, e)[Len(sample.front) + 1] = e
  BY FrontGrows DEF SampleShape
<1>10. /\ front \in Seq(Elems(front))
       /\ \A j \in DOMAIN sample.front : j \in DOMAIN front /\ front[j] = sample.front[j]
       /\ new # {} => \E j \in DOMAIN front : front[j] = e
  BY <1>3, <1>9
<1>11. ASSUME NEW sv \in svs
       PROVE  sv[1] = cols /\ sv[2] \in vals /\ Whole(sv[2]) /\ \E j \in DOMAIN front : Has(front[j], t, sv)
  <2>1. PICK v \in new : sv = <<cols, v>>
    BY <1>4
  <2>2. v \in vals /\ Whole(v)
    BY <1>1, <2>1 DEF Fresh
  <2>3. Has(e, t, sv)
    BY <1>2, <2>1 DEF Has
  <2>4. PICK j \in DOMAIN front : front[j] = e
    BY <1>10, <2>1
  <2>5. Has(front[j], t, sv)
    BY <2>3, <2>4
  <2>6. QED BY <2>1, <2>2, <2>5
<1>12. ASSUME NEW v \in vals, Whole(v) PROVE <<cols, v>> \in m.sel[t]
  <2>1. CASE <<cols, v>> \in sample.sel[t]
    BY <1>8, <2>1
  <2>2. CASE <<cols, v>> \notin sample.sel[t]
    <3>1. v \in new
      BY <1>1, <1>12, <2>2 DEF Fresh
    <3>2. <<cols, v>> \in svs
      BY <1>4, <3>1
    <3>3. QED BY <1>8, <3>2
  <2>3. QED BY <2>1, <2>2
<1>13. m = [sample EXCEPT !.sel = m.sel, !.front = m.front]
  BY <1>5, <1>6
<1>14. \A u \in Tables(schema) : \A sv \in m.sel[u] : sv \in sample.sel[u] \/
         (u = t /\ sv[1] = cols /\ sv[2] \in vals /\ Whole(sv[2]) /\ \E j \in DOMAIN m.front : Has(m.front[j], t, sv))
  BY <1>6, <1>8, <1>11
<1>15. Joined(m, t, cols, vals)
  BY <1>6, <1>7, <1>8, <1>10, <1>12, <1>13, <1>14 DEF Joined
<1>16. QED BY <1>0, <1>15

\* m, where the command goes on at a with the entry c and the references l.
GoesOn(m, a, c, l) == [m EXCEPT !.at = a, !.cur = c, !.left = l]

LEMMA WentOn ==
  ASSUME NEW m, NEW o, NEW at, NEW ch, NEW todo, NEW sel, NEW front, NEW i, NEW n, NEW left, NEW cur, NEW out,
         NEW a, NEW c, NEW l, o = GoesOn(m, a, c, l),
         m = [at |-> at, children |-> ch, todo |-> todo, sel |-> sel, front |-> front, i |-> i, n |-> n,
              left |-> left, cur |-> cur, out |-> out]
  PROVE  o = [at |-> a, children |-> ch, todo |-> todo, sel |-> sel, front |-> front, i |-> i, n |-> n,
              left |-> l, cur |-> c, out |-> out]
BY DEF GoesOn

LEMMA JoinStep ==
  ASSUME SampleInv, UNCHANGED <<schema, db>>, NEW t \in Tables(schema), NEW cols \in Identify(t), NEW vals,
         \A v \in vals : \E r \in db[t] : Pick(r, cols) = v, NEW a \in {"roots", "down", "up"}, NEW c, NEW l,
         NEW m, m = Joins(sample, t, cols, vals), sample' = GoesOn(m, a, c, l)
  PROVE  /\ SampleShape' /\ Meant'
         /\ sample'.at = a /\ sample'.cur = c /\ sample'.left = l
         /\ \A v \in vals : Whole(v) => <<cols, v>> \in sample'.sel[t]
         /\ \A f \in schema.fks : \A sv \in sample'.sel[f.child] :
              \/ InFront(f.child, sv)'
              \/ /\ sv \in sample.sel[f.child] /\ ~InFront(f.child, sv)
                 /\ Followed(f.child, sv, f) => Followed(f.child, sv, f)'
<1>2. SampleShape
  BY DEF SampleInv
<1>1. Joined(m, t, cols, vals)
  BY <1>2, JoinedSample, Zenon
<1>3. /\ m = [sample EXCEPT !.sel = m.sel, !.front = m.front]
      /\ DOMAIN m.sel = Tables(schema)
      /\ \A u \in Tables(schema) : sample.sel[u] \subseteq m.sel[u]
      /\ \A u \in Tables(schema) : \A sv \in m.sel[u] : sv \in sample.sel[u] \/
           (u = t /\ sv[1] = cols /\ sv[2] \in vals /\ Whole(sv[2]) /\ \E j \in DOMAIN m.front : Has(m.front[j], t, sv))
      /\ \A v \in vals : Whole(v) => <<cols, v>> \in m.sel[t]
      /\ m.front \in Seq(Elems(m.front))
      /\ \A j \in DOMAIN sample.front : j \in DOMAIN m.front /\ m.front[j] = sample.front[j]
  BY <1>1, Zenon DEF Joined
<1>4. PICK sel, front : sel = m.sel /\ front = m.front
  OBVIOUS
<1>5. m = [sample EXCEPT !.sel = sel, !.front = front]
  BY <1>3, <1>4
<1>6. m = [at |-> sample.at, children |-> sample.children, todo |-> sample.todo, sel |-> sel, front |-> front,
            i |-> sample.i, n |-> sample.n, left |-> sample.left, cur |-> sample.cur, out |-> sample.out]
  BY <1>2, <1>5 DEF SampleShape
<1>7. sample' = [at |-> a, children |-> sample.children, todo |-> sample.todo, sel |-> sel, front |-> front,
                 i |-> sample.i, n |-> sample.n, left |-> l, cur |-> c, out |-> sample.out]
  BY <1>6, WentOn
<1>8. schema' = schema /\ db' = db
  OBVIOUS
<1>9. SampleShape'
  BY <1>2, <1>3, <1>4, <1>7, <1>8 DEF SampleShape
<1>10. sample'.sel = sel /\ sample'.front = front /\ sample'.at = a /\ sample'.cur = c /\ sample'.left = l
  BY <1>7
<1>11. Meant'
  <2>1. \A u \in Tables(schema) : Identify(u)' = Identify(u)
    BY <1>8 DEF Identify, KeyOf
  <2> SUFFICES ASSUME NEW u \in Tables(schema), NEW sv \in sel[u]
               PROVE  sv[1] \in Identify(u) /\ Whole(sv[2]) /\ \E r \in db[u] : Pick(r, sv[1]) = sv[2]
    BY <1>8, <1>10, <2>1 DEF Meant
  <2>2. CASE sv \in sample.sel[u]
    BY <2>2 DEF SampleInv, Meant
  <2>3. CASE u = t /\ sv[1] = cols /\ sv[2] \in vals /\ Whole(sv[2])
    BY <2>3
  <2>4. QED BY <1>3, <1>4, <2>2, <2>3
<1>12. ASSUME NEW f \in schema.fks, NEW sv \in sample'.sel[f.child]
       PROVE  \/ InFront(f.child, sv)'
              \/ /\ sv \in sample.sel[f.child] /\ ~InFront(f.child, sv)
                 /\ Followed(f.child, sv, f) => Followed(f.child, sv, f)'
  <2>1. f.child \in Tables(schema) /\ f.parent \in Tables(schema)
    BY SchemaAssumption DEF SampleInv, SoundSchema
  <2>2. CASE \E j \in DOMAIN front : Has(front[j], f.child, sv)
    BY <1>10, <2>2 DEF InFront, Has
  <2>3. CASE ~\E j \in DOMAIN front : Has(front[j], f.child, sv)
    <3>1. sv \in sample.sel[f.child]
      BY <1>3, <1>4, <1>10, <2>1, <2>3
    <3>2. ~InFront(f.child, sv)
      BY <1>3, <1>4, <2>3 DEF InFront
    <3>3. Followed(f.child, sv, f) => Followed(f.child, sv, f)'
      BY <1>3, <1>4, <1>8, <1>10, <2>1 DEF Followed
    <3>4. QED BY <3>1, <3>2, <3>3
  <2>4. QED BY <2>2, <2>3
<1>13. QED BY <1>3, <1>4, <1>9, <1>10, <1>11, <1>12

----------------------------------------------------------------------------
(* One step of the sampling command after the other.                       *)

\* Steps that leave the selection and the frontier as they are.
LEMMA PlainStep ==
  ASSUME SampleInv, UNCHANGED <<schema, db>>, SampleShape', sample'.sel = sample.sel, sample'.front = sample.front
  PROVE  /\ Meant' /\ schema' \in Schemas /\ Consistent(schema, db)'
         /\ \A t, sv : InFront(t, sv) => InFront(t, sv)'
         /\ \A t, sv, f : Followed(t, sv, f) => Followed(t, sv, f)'
<1>1. schema' = schema /\ db' = db
  OBVIOUS
<1>2. \A u \in Tables(schema) : Identify(u)' = Identify(u)
  BY <1>1 DEF Identify, KeyOf
<1>3. Meant'
  BY <1>1, <1>2 DEF SampleInv, Meant
<1>4. QED BY <1>1, <1>3 DEF SampleInv, InFront, Has, Followed

LEMMA CountRootStep == SampleInv /\ CountRoot => SampleInv'
<1> SUFFICES ASSUME SampleInv, CountRoot PROVE SampleInv'
  OBVIOUS
<1>1. SampleShape /\ sample.at = "roots" /\ sample.left = {} /\ UNCHANGED <<schema, db>>
  BY DEF SampleInv, AtHand, CountRoot, Samples
<1> DEFINE Moves(a, todo, n, c) ==
      /\ a \in {"roots", "pick", "down", "up"} /\ todo \in SUBSET Tables(schema)
      /\ sample' = [sample EXCEPT !.at = a, !.todo = todo, !.n = n, !.cur = c]
      /\ a = "pick" => c[1] \in Tables(schema)
<1> HIDE DEF Moves
<1>2. \E a, todo, n, c : Moves(a, todo, n, c)
  <2>1. CASE sample.todo = {}
    <3>1. PICK a \in {"down", "up"} : sample' = [sample EXCEPT !.at = a]
      BY <2>1 DEF CountRoot, Samples
    <3>2. sample' = [sample EXCEPT !.at = a, !.todo = sample.todo, !.n = sample.n, !.cur = sample.cur]
      BY <1>1, <3>1 DEF SampleShape
    <3>3. sample.todo \in SUBSET Tables(schema)
      BY <1>1 DEF SampleShape
    <3>4. Moves(a, sample.todo, sample.n, sample.cur)
      BY <3>2, <3>3 DEF Moves
    <3>5. QED BY <3>4
  <2>2. CASE sample.todo # {}
    <3>1. PICK t, n :
            /\ t \in sample.todo
            /\ \/ sample' = [sample EXCEPT !.todo = @ \ {t}]
               \/ sample' = [sample EXCEPT !.todo = @ \ {t}, !.at = "pick", !.n = n, !.cur = <<t>>]
      BY <2>2 DEF CountRoot, Samples
    <3>2. t \in Tables(schema) /\ sample.todo \ {t} \in SUBSET Tables(schema)
      BY <1>1, <3>1 DEF SampleShape
    <3>3. CASE sample' = [sample EXCEPT !.todo = @ \ {t}]
      <4>1. sample' = [sample EXCEPT !.at = "roots", !.todo = sample.todo \ {t}, !.n = sample.n, !.cur = sample.cur]
        BY <1>1, <3>3 DEF SampleShape
      <4>2. Moves("roots", sample.todo \ {t}, sample.n, sample.cur)
        BY <3>2, <4>1 DEF Moves
      <4>3. QED BY <4>2
    <3>4. CASE sample' = [sample EXCEPT !.todo = @ \ {t}, !.at = "pick", !.n = n, !.cur = <<t>>]
      <4>1. sample' = [sample EXCEPT !.at = "pick", !.todo = sample.todo \ {t}, !.n = n, !.cur = <<t>>]
        BY <1>1, <3>4 DEF SampleShape
      <4>2. <<t>>[1] \in Tables(schema)
        BY <3>2
      <4>3. Moves("pick", sample.todo \ {t}, n, <<t>>)
        BY <3>2, <4>1, <4>2 DEF Moves
      <4>4. QED BY <4>3
    <3>5. QED BY <3>1, <3>3, <3>4
  <2>3. QED BY <2>1, <2>2
<1>9. PICK a, todo, n, c : Moves(a, todo, n, c)
  BY <1>2
<1>10. /\ a \in {"roots", "pick", "down", "up"} /\ todo \in SUBSET Tables(schema)
       /\ sample' = [sample EXCEPT !.at = a, !.todo = todo, !.n = n, !.cur = c]
       /\ a = "pick" => c[1] \in Tables(schema)
  BY <1>9 DEF Moves
<1>3. sample' = [at |-> a, children |-> sample.children, todo |-> todo, sel |-> sample.sel, front |-> sample.front,
                 i |-> sample.i, n |-> n, left |-> sample.left, cur |-> c, out |-> sample.out]
  BY <1>1, <1>10 DEF SampleShape
<1>4. SampleShape' /\ AtHand' /\ Written'
  BY <1>1, <1>10, <1>3 DEF SampleShape, AtHand, Written
<1>5. sample'.sel = sample.sel /\ sample'.front = sample.front
  BY <1>3
<1>6. /\ Meant' /\ schema' \in Schemas /\ Consistent(schema, db)'
      /\ \A t, sv : InFront(t, sv) => InFront(t, sv)'
      /\ \A t, sv, f : Followed(t, sv, f) => Followed(t, sv, f)'
  BY <1>1, <1>4, <1>5, PlainStep
<1>7. NoneForgotten'
  BY <1>1, <1>5, <1>6 DEF SampleInv, NoneForgotten, Pending
<1>8. QED BY <1>4, <1>6, <1>7 DEF SampleInv

LEMMA PickRootStep == SampleInv /\ PickRoot => SampleInv'
<1> SUFFICES ASSUME SampleInv, PickRoot PROVE SampleInv'
  OBVIOUS
<1>1. SampleShape /\ sample.at = "pick" /\ sample.left = {} /\ sample.cur[1] \in Tables(schema)
      /\ schema' = schema /\ db' = db
  BY DEF SampleInv, AtHand, PickRoot, Samples
<1>2. PICK t \in Tables(schema) : t = sample.cur[1]
  BY <1>1
<1>3. PICK rs \in SUBSET db[sample.cur[1]] :
        sample' = [Joins(sample, sample.cur[1], KeyOf(sample.cur[1]),
                         {Pick(r, KeyOf(sample.cur[1])) : r \in rs}) EXCEPT !.at = "roots", !.cur = << >>]
  BY Zenon DEF PickRoot, Samples
<1>4. PICK vals : vals = {Pick(r, KeyOf(t)) : r \in rs}
  OBVIOUS
<1>5. \A v \in vals : \E r \in db[t] : Pick(r, KeyOf(t)) = v
  BY <1>2, <1>3, <1>4
<1>6. PICK m : m = Joins(sample, t, KeyOf(t), vals)
  OBVIOUS
<1>7. m = [sample EXCEPT !.sel = m.sel, !.front = m.front]
  <2>1. Joined(m, t, KeyOf(t), vals)
    BY <1>1, <1>6, JoinedSample, Zenon
  <2>2. QED BY <2>1, Zenon DEF Joined
<1>8. sample' = GoesOn(m, "roots", << >>, {})
  <2>1. sample' = [m EXCEPT !.at = "roots", !.cur = << >>]
    BY <1>2, <1>3, <1>4, <1>6
  <2>2. PICK sel, front : m = [sample EXCEPT !.sel = sel, !.front = front]
    BY <1>7
  <2>3. QED BY <1>1, <2>1, <2>2 DEF SampleShape, GoesOn
<1>9. KeyOf(t) \in Identify(t)
  BY DEF Identify
<1>10. /\ SampleShape' /\ Meant'
       /\ sample'.at = "roots" /\ sample'.cur = << >> /\ sample'.left = {}
       /\ \A f \in schema.fks : \A sv \in sample'.sel[f.child] :
            \/ InFront(f.child, sv)'
            \/ /\ sv \in sample.sel[f.child] /\ ~InFront(f.child, sv)
               /\ Followed(f.child, sv, f) => Followed(f.child, sv, f)'
  BY <1>1, <1>5, <1>6, <1>8, <1>9, JoinStep
<1>11. AtHand' /\ Written' /\ schema' \in Schemas /\ Consistent(schema, db)'
  BY <1>1, <1>10 DEF SampleInv, AtHand, Written
<1>12. NoneForgotten'
  BY <1>1, <1>10 DEF SampleInv, NoneForgotten, Pending
<1>13. QED BY <1>10, <1>11, <1>12 DEF SampleInv

LEMMA NextDownStep == SampleInv /\ NextDown => SampleInv'
<1> SUFFICES ASSUME SampleInv, NextDown PROVE SampleInv'
  OBVIOUS
<1>1. SampleShape /\ sample.at = "down" /\ sample.left = {} /\ schema' = schema /\ db' = db
  BY DEF SampleInv, NextDown, Samples
<1> DEFINE Moves(a, i, left, c) ==
      /\ a \in {"down", "up"}
      /\ sample' = [sample EXCEPT !.at = a, !.i = i, !.left = left, !.cur = c]
      /\ \A f \in left : a = "down" /\ f \in schema.fks /\ schema.pk[f.child] # << >>
<1> HIDE DEF Moves
<1>2. \E a, i, left, c : Moves(a, i, left, c)
  <2>1. CASE sample.i > Len(sample.front)
    <3>1. sample' = [sample EXCEPT !.at = "up", !.cur = << >>]
      BY <2>1 DEF NextDown, Samples
    <3>2. PICK left, i : left = {} /\ i = sample.i
      OBVIOUS
    <3>3. sample' = [sample EXCEPT !.at = "up", !.i = i, !.left = left, !.cur = << >>]
      BY <1>1, <3>1, <3>2 DEF SampleShape
    <3>4. Moves("up", i, left, << >>)
      BY <3>2, <3>3 DEF Moves
    <3>5. QED BY <3>4
  <2>2. CASE ~(sample.i > Len(sample.front))
    <3>1. PICK e, i : sample' = [sample EXCEPT !.i = i, !.cur = <<e>>, !.left = Children(e)]
      BY <2>2 DEF NextDown, Samples
    <3>2. sample' = [sample EXCEPT !.at = "down", !.i = i, !.left = Children(e), !.cur = <<e>>]
      BY <1>1, <3>1 DEF SampleShape
    <3>3. \A f \in Children(e) : f \in schema.fks /\ schema.pk[f.child] # << >>
      BY DEF Children
    <3>4. Moves("down", i, Children(e), <<e>>)
      BY <3>2, <3>3 DEF Moves
    <3>5. QED BY <3>4
  <2>3. QED BY <2>1, <2>2
<1>9. PICK a, i, left, c : Moves(a, i, left, c)
  BY <1>2
<1>10. /\ a \in {"down", "up"}
       /\ sample' = [sample EXCEPT !.at = a, !.i = i, !.left = left, !.cur = c]
       /\ \A f \in left : a = "down" /\ f \in schema.fks /\ schema.pk[f.child] # << >>
  BY <1>9 DEF Moves
<1>3. sample' = [at |-> a, children |-> sample.children, todo |-> sample.todo, sel |-> sample.sel,
                 front |-> sample.front, i |-> i, n |-> sample.n, left |-> left, cur |-> c, out |-> sample.out]
  BY <1>1, <1>10 DEF SampleShape
<1>4. SampleShape' /\ AtHand' /\ Written'
  BY <1>1, <1>10, <1>3 DEF SampleShape, AtHand, Written
<1>5. sample'.sel = sample.sel /\ sample'.front = sample.front
  BY <1>3
<1>6. /\ Meant' /\ schema' \in Schemas /\ Consistent(schema, db)'
      /\ \A t, sv : InFront(t, sv) => InFront(t, sv)'
      /\ \A t, sv, f : Followed(t, sv, f) => Followed(t, sv, f)'
  BY <1>1, <1>4, <1>5, PlainStep
<1>7. NoneForgotten'
  BY <1>1, <1>5, <1>6 DEF SampleInv, NoneForgotten, Pending
<1>8. QED BY <1>4, <1>6, <1>7 DEF SampleInv

\* A step that looks at one reference of the entry at hand, and joins what it finds.
LEMMA JoinedAs ==
  ASSUME SampleShape, NEW t \in Tables(schema), NEW cols, NEW vals, NEW left,
         sample' = [Joins(sample, t, cols, vals) EXCEPT !.left = left]
  PROVE  sample' = GoesOn(Joins(sample, t, cols, vals), sample.at, sample.cur, left)
<1>1. PICK m : m = Joins(sample, t, cols, vals)
  OBVIOUS
<1>2. m = [sample EXCEPT !.sel = m.sel, !.front = m.front]
  <2>1. Joined(m, t, cols, vals)
    BY <1>1, JoinedSample, Zenon
  <2>2. QED BY <2>1, Zenon DEF Joined
<1>3. PICK sel, front : m = [sample EXCEPT !.sel = sel, !.front = front]
  BY <1>2
<1>4. sample' = [m EXCEPT !.left = left]
  BY <1>1
<1>5. sample' = GoesOn(m, sample.at, sample.cur, left)
  BY <1>3, <1>4 DEF SampleShape, GoesOn
<1>6. QED BY <1>1, <1>5

LEMMA DownStep == SampleInv /\ Down => SampleInv'
<1> SUFFICES ASSUME SampleInv, Down PROVE SampleInv'
  OBVIOUS
<1>1. SampleShape /\ sample.at = "down" /\ schema' = schema /\ db' = db
  BY DEF SampleInv, Down, Samples
<1>2. PICK f, rs :
        /\ f \in sample.left /\ rs \subseteq db[f.child]
        /\ sample' = [Joins(sample, f.child, schema.pk[f.child], {Pick(r, schema.pk[f.child]) : r \in rs})
                     EXCEPT !.left = @ \ {f}]
  <2>1. PICK f \in sample.left : 
          sample' = [Joins(sample, f.child, schema.pk[f.child],
                           {Pick(r, schema.pk[f.child]) : r \in {r \in db[f.child] : Pick(r, f.cols) \in sample.cur[1].vals}})
                       EXCEPT !.left = @ \ {f}]
    BY Zenon DEF Down, Samples
  <2>2. {r \in db[f.child] : Pick(r, f.cols) \in sample.cur[1].vals} \subseteq db[f.child]
    OBVIOUS
  <2>3. QED BY <2>1, <2>2, Zenon
<1>3. PICK t, cols, vals : t = f.child /\ cols = schema.pk[t] /\ vals = {Pick(r, cols) : r \in rs}
  OBVIOUS
<1>4. f \in schema.fks /\ schema.pk[f.child] # << >> /\ schema \in Schemas
  BY <1>1, <1>2 DEF SampleInv, AtHand
<1>5. t \in Tables(schema) /\ cols \in Identify(t)
  <2>1. t \in Tables(schema)
    BY <1>3, <1>4, SchemaAssumption DEF SoundSchema
  <2>2. QED BY <1>3, <1>4, <2>1 DEF Identify, Keys
<1>6. \A v \in vals : \E r \in db[t] : Pick(r, cols) = v
  BY <1>2, <1>3
<1>7. PICK m : m = Joins(sample, t, cols, vals)
  OBVIOUS
<1>8. PICK left : left = sample.left \ {f} /\ sample' = [m EXCEPT !.left = left]
  <2>1. sample' = [m EXCEPT !.left = @ \ {f}]
    BY <1>2, <1>3, <1>7
  <2>2. m = [sample EXCEPT !.sel = m.sel, !.front = m.front]
    <3>1. Joined(m, t, cols, vals)
      BY <1>1, <1>5, <1>7, JoinedSample, Zenon
    <3>2. QED BY <3>1, Zenon DEF Joined
  <2>3. m.left = sample.left
    BY <1>1, <2>2 DEF SampleShape
  <2>4. QED BY <2>1, <2>3
<1>9. sample' = GoesOn(m, "down", sample.cur, left)
  BY <1>1, <1>5, <1>7, <1>8, JoinedAs
<1>10. /\ SampleShape' /\ Meant'
       /\ sample'.at = "down" /\ sample'.cur = sample.cur /\ sample'.left = left
       /\ \A g \in schema.fks : \A sv \in sample'.sel[g.child] :
            \/ InFront(g.child, sv)'
            \/ /\ sv \in sample.sel[g.child] /\ ~InFront(g.child, sv)
               /\ Followed(g.child, sv, g) => Followed(g.child, sv, g)'
  BY <1>1, <1>5, <1>6, <1>7, <1>9, JoinStep
<1>11. AtHand' /\ Written' /\ schema' \in Schemas /\ Consistent(schema, db)'
  BY <1>1, <1>8, <1>10 DEF SampleInv, AtHand, Written
<1>12. NoneForgotten'
  BY <1>1, <1>10 DEF SampleInv, NoneForgotten, Pending
<1>13. QED BY <1>10, <1>11, <1>12 DEF SampleInv

LEMMA NextUpStep == SampleInv /\ NextUp => SampleInv'
<1> SUFFICES ASSUME SampleInv, NextUp PROVE SampleInv'
  OBVIOUS
<1>1. SampleShape /\ sample.at = "up" /\ sample.left = {} /\ schema' = schema /\ db' = db
  BY DEF SampleInv, NextUp, Samples
<1>2. sample.front \in Seq(Elems(sample.front))
  BY <1>1 DEF SampleShape
<1>3. CASE sample.front = << >>
  <2>1. sample' = [sample EXCEPT !.at = "export", !.todo = Tables(schema), !.cur = << >>]
    BY <1>3 DEF NextUp, Samples
  <2>2. sample' = [at |-> "export", children |-> sample.children, todo |-> Tables(schema), sel |-> sample.sel,
                   front |-> sample.front, i |-> sample.i, n |-> sample.n, left |-> sample.left, cur |-> << >>,
                   out |-> sample.out]
    BY <1>1, <2>1 DEF SampleShape
  <2>3. SampleShape' /\ AtHand' /\ Written'
    BY <1>1, <1>3, <2>2 DEF SampleShape, AtHand, Written
  <2>4. sample'.sel = sample.sel /\ sample'.front = sample.front
    BY <2>2
  <2>5. /\ Meant' /\ schema' \in Schemas /\ Consistent(schema, db)'
        /\ \A t, sv : InFront(t, sv) => InFront(t, sv)'
        /\ \A t, sv, f : Followed(t, sv, f) => Followed(t, sv, f)'
    BY <1>1, <2>3, <2>4, PlainStep
  <2>6. NoneForgotten'
    BY <1>1, <2>4, <2>5 DEF SampleInv, NoneForgotten, Pending
  <2>7. QED BY <2>3, <2>5, <2>6 DEF SampleInv
<1>4. CASE sample.front # << >>
  <2>1. PICK last : last = Len(sample.front)
    OBVIOUS
  <2>2. last \in Nat \ {0} /\ DOMAIN sample.front = 1..last
    BY <1>2, <1>4, <2>1, EmptySeq, LenProperties
  <2>3. PICK e, front : e = sample.front[last] /\ front = SubSeq(sample.front, 1, last - 1)
    OBVIOUS
  <2>4. sample' = [sample EXCEPT !.front = front, !.cur = <<e>>, !.left = Parents(e)]
    BY <1>4, <2>1, <2>3 DEF NextUp, Samples
  <2>5. sample' = [at |-> "up", children |-> sample.children, todo |-> sample.todo, sel |-> sample.sel,
                   front |-> front, i |-> sample.i, n |-> sample.n, left |-> Parents(e), cur |-> <<e>>,
                   out |-> sample.out]
    BY <1>1, <2>4 DEF SampleShape
  <2>6. /\ front \in Seq(Elems(front)) /\ DOMAIN front = 1..(last - 1)
        /\ \A j \in 1..(last - 1) : front[j] = sample.front[j]
    <3>1. \A i \in 1..(last - 1) : sample.front[i] \in Elems(sample.front)
      BY <2>2 DEF Elems
    <3>2. /\ front \in Seq(Elems(sample.front))
          /\ Len(front) = IF 1 <= last - 1 THEN last - 1 - 1 + 1 ELSE 0
          /\ \A i \in 1..(last - 1 - 1 + 1) : front[i] = sample.front[1 + i - 1]
      BY <2>2, <2>3, <3>1, SubSeqProperties
    <3>3. Len(front) = last - 1 /\ DOMAIN front = 1..(last - 1)
      BY <2>2, <3>2, LenProperties
    <3>4. front \in [1..Len(front) -> Elems(front)]
      <4>1. front \in [1..Len(front) -> Elems(sample.front)]
        BY <3>2, LenProperties
      <4>2. \A i \in 1..Len(front) : front[i] \in Elems(front)
        BY <3>3 DEF Elems
      <4>3. QED BY <4>1, <4>2
    <3>5. front \in Seq(Elems(front))
      BY <2>2, <3>3, <3>4
    <3>6. \A j \in 1..(last - 1) : front[j] = sample.front[j]
      BY <2>2, <3>2
    <3>7. QED BY <3>3, <3>5, <3>6
  <2>7. sample'.sel = sample.sel /\ sample'.front = front /\ sample'.at = "up" /\ sample'.left = Parents(e)
        /\ sample'.cur = <<e>> /\ sample'.cur[1] = e
    BY <2>5
  <2>8. SampleShape'
    BY <1>1, <2>5, <2>6 DEF SampleShape
  <2>9. AtHand' /\ Written'
    BY <1>1, <2>7 DEF AtHand, Written, Parents
  <2>10. Meant' /\ schema' \in Schemas /\ Consistent(schema, db)'
    <3>1. \A u \in Tables(schema) : Identify(u)' = Identify(u)
      BY <1>1 DEF Identify, KeyOf
    <3>2. QED BY <1>1, <2>7, <3>1 DEF SampleInv, Meant
  <2>11. NoneForgotten'
    <3> SUFFICES ASSUME NEW f \in schema.fks, NEW sv \in sample.sel[f.child]
                 PROVE  Pending(f.child, sv, f)' \/ Followed(f.child, sv, f)'
      BY <1>1, <2>7 DEF NoneForgotten
    <3>1. CASE InFront(f.child, sv)
      <4>1. PICK j \in 1..last : Has(sample.front[j], f.child, sv)
        BY <2>2, <3>1 DEF InFront
      <4>2. CASE j = last
        <5>1. Has(e, f.child, sv)
          BY <2>3, <4>1, <4>2
        <5>2. f \in Parents(e)
          BY <5>1 DEF Has, Parents
        <5>3. QED BY <2>7, <5>1, <5>2 DEF Pending, Has
      <4>3. CASE j # last
        <5>1. j \in DOMAIN front /\ Has(front[j], f.child, sv)
          BY <2>2, <2>6, <4>1, <4>3
        <5>2. QED BY <2>7, <5>1 DEF Pending, InFront, Has
      <4>4. QED BY <4>2, <4>3
    <3>2. CASE ~InFront(f.child, sv)
      <4>1. Followed(f.child, sv, f)
        BY <1>1, <3>2 DEF SampleInv, NoneForgotten, Pending
      <4>2. QED BY <1>1, <2>7, <4>1 DEF Followed
    <3>3. QED BY <3>1, <3>2
  <2>12. QED BY <2>8, <2>9, <2>10, <2>11 DEF SampleInv
<1>5. QED BY <1>3, <1>4

LEMMA AscendStep == SampleInv /\ Ascend => SampleInv'
<1> SUFFICES ASSUME SampleInv, Ascend PROVE SampleInv'
  OBVIOUS
<1>1. SampleShape /\ sample.at = "up" /\ schema' = schema /\ db' = db /\ schema \in Schemas
  BY DEF SampleInv, Ascend, Samples
<1>2. PICK f \in sample.left :
        sample' = [Joins(sample, f.parent, f.ref, {Pick(r, f.cols) : r \in Selected(sample.cur[1])})
                     EXCEPT !.left = @ \ {f}]
  BY Zenon DEF Ascend, Samples
<1>3. PICK t, cols, vals : t = f.parent /\ cols = f.ref /\ vals = {Pick(r, f.cols) : r \in Selected(sample.cur[1])}
  OBVIOUS
<1>4. f \in schema.fks /\ f.child = sample.cur[1].table
  BY <1>1, <1>2 DEF SampleInv, AtHand
<1>5. t \in Tables(schema) /\ f.child \in Tables(schema) /\ cols \in Identify(t)
  <2>1. f.child \in Tables(schema) /\ f.parent \in Tables(schema) /\ f.ref \in Keys(schema, f.parent)
    BY <1>1, <1>4, SchemaAssumption DEF SoundSchema
  <2>2. QED BY <1>3, <2>1 DEF Identify
<1>6. PICK whole : whole = {v \in vals : Whole(v)}
  OBVIOUS
<1>7. \A v \in whole : \E r \in db[t] : Pick(r, cols) = v
  <2> SUFFICES ASSUME NEW v \in whole PROVE \E r \in db[t] : Pick(r, cols) = v
    OBVIOUS
  <2>1. PICK r \in Selected(sample.cur[1]) : v = Pick(r, f.cols)
    BY <1>3, <1>6
  <2>2. r \in db[f.child] /\ Whole(Pick(r, f.cols))
    BY <1>4, <1>6, <2>1 DEF Selected
  <2>3. PICK q \in db[f.parent] : Pick(q, f.ref) = Pick(r, f.cols)
    BY <1>4, <2>2 DEF SampleInv, Consistent, Refers
  <2>4. QED BY <1>3, <2>1, <2>3
<1>8. Joins(sample, t, cols, vals) = Joins(sample, t, cols, whole)
  <2>1. Fresh(t, cols, vals) = Fresh(t, cols, whole)
    BY <1>6 DEF Fresh
  <2>2. QED BY <2>1 DEF Joins
<1>9. PICK m : m = Joins(sample, t, cols, whole)
  OBVIOUS
<1>10. PICK left : left = sample.left \ {f} /\ sample' = [m EXCEPT !.left = left]
  <2>1. sample' = [m EXCEPT !.left = @ \ {f}]
    BY <1>2, <1>3, <1>8, <1>9
  <2>2. m = [sample EXCEPT !.sel = m.sel, !.front = m.front]
    <3>1. Joined(m, t, cols, whole)
      BY <1>1, <1>5, <1>9, JoinedSample, Zenon
    <3>2. QED BY <3>1, Zenon DEF Joined
  <2>3. m.left = sample.left
    BY <1>1, <2>2 DEF SampleShape
  <2>4. QED BY <2>1, <2>3
<1>11. sample' = GoesOn(m, "up", sample.cur, left)
  BY <1>1, <1>5, <1>9, <1>10, JoinedAs
<1>12. /\ SampleShape' /\ Meant'
       /\ sample'.at = "up" /\ sample'.cur = sample.cur /\ sample'.left = left
       /\ \A v \in whole : Whole(v) => <<cols, v>> \in sample'.sel[t]
       /\ \A g \in schema.fks : \A sv \in sample'.sel[g.child] :
            \/ InFront(g.child, sv)'
            \/ /\ sv \in sample.sel[g.child] /\ ~InFront(g.child, sv)
               /\ Followed(g.child, sv, g) => Followed(g.child, sv, g)'
  BY <1>1, <1>5, <1>7, <1>9, <1>11, JoinStep
<1>13. AtHand' /\ Written' /\ schema' \in Schemas /\ Consistent(schema, db)'
  BY <1>1, <1>10, <1>12 DEF SampleInv, AtHand, Written
<1>14. NoneForgotten'
  <2> SUFFICES ASSUME NEW g \in schema.fks, NEW sv \in sample'.sel[g.child], ~InFront(g.child, sv)'
               PROVE  Pending(g.child, sv, g)' \/ Followed(g.child, sv, g)'
    BY <1>1 DEF NoneForgotten, Pending
  <2>1. /\ sv \in sample.sel[g.child] /\ ~InFront(g.child, sv)
        /\ Followed(g.child, sv, g) => Followed(g.child, sv, g)'
    BY <1>12
  <2>2. CASE Followed(g.child, sv, g)
    BY <2>1, <2>2
  <2>3. CASE g \in sample.left /\ Has(sample.cur[1], g.child, sv) /\ g # f
    <3>1. g \in left /\ Has(sample'.cur[1], g.child, sv)
      BY <1>10, <1>12, <2>3
    <3>2. QED BY <1>12, <3>1 DEF Pending, Has
  <2>4. CASE g = f /\ Has(sample.cur[1], g.child, sv)
    <3> SUFFICES ASSUME NEW r \in db[f.child], Pick(r, sv[1]) = sv[2], Whole(Pick(r, f.cols))
                 PROVE  <<f.ref, Pick(r, f.cols)>> \in sample'.sel[f.parent]
      BY <1>1, <2>4 DEF Followed
    <3>1. r \in Selected(sample.cur[1])
      BY <1>4, <2>4 DEF Selected, Has
    <3>2. Pick(r, f.cols) \in whole
      BY <1>3, <1>6, <3>1
    <3>3. QED BY <1>3, <1>12, <3>2
  <2>5. QED BY <2>1, <2>2, <2>3, <2>4 DEF SampleInv, NoneForgotten, Pending
<1>15. QED BY <1>12, <1>13, <1>14 DEF SampleInv

LEMMA ExportStep == SampleInv /\ Export => SampleInv'
<1> SUFFICES ASSUME SampleInv, Export PROVE SampleInv'
  OBVIOUS
<1>1. SampleShape /\ sample.at = "export" /\ schema' = schema /\ db' = db
  BY DEF SampleInv, Export, Samples
<1> DEFINE Moves(a, todo, out) ==
        /\ a \in {"export", "done"} /\ todo \in SUBSET sample.todo
        /\ sample' = [sample EXCEPT !.at = a, !.todo = todo, !.out = out]
        /\ TableMap(schema, out) /\ (a = "done" => todo = {})
        /\ \A t \in Tables(schema) \ todo : out[t] = IF t \in sample.todo THEN Exported(t) ELSE sample.out[t]
<1> HIDE DEF Moves
<1>2. \E a, todo, out : Moves(a, todo, out)
  <2>1. CASE sample.todo = {}
    <3>1. sample' = [sample EXCEPT !.at = "done"]
      BY <2>1 DEF Export, Samples
    <3>2. PICK out, todo : out = sample.out /\ todo = sample.todo
      OBVIOUS
    <3>3. sample' = [sample EXCEPT !.at = "done", !.todo = todo, !.out = out]
      BY <1>1, <3>1, <3>2 DEF SampleShape
    <3>4. TableMap(schema, out)
      BY <1>1, <3>2 DEF SampleShape
    <3>5. Moves("done", todo, out)
      BY <2>1, <3>2, <3>3, <3>4 DEF Moves
    <3>6. QED BY <3>5
  <2>2. CASE sample.todo # {}
    <3>1. PICK t \in Firsts(schema, Tables(schema), sample.todo) :
            sample' = [sample EXCEPT !.todo = @ \ {t}, !.out[t] = Exported(t)]
      BY <2>2 DEF Export, Samples
    <3>2. t \in sample.todo /\ t \in Tables(schema)
      BY <1>1, <3>1 DEF SampleShape, Firsts
    <3>3. PICK rows : rows = Exported(t)
      OBVIOUS
    <3>4. PICK out, todo : out = [sample.out EXCEPT ![t] = rows] /\ todo = sample.todo \ {t}
      OBVIOUS
    <3>5. sample' = [sample EXCEPT !.at = "export", !.todo = todo, !.out = out]
      BY <1>1, <3>1, <3>3, <3>4 DEF SampleShape
    <3>6. TableMap(schema, out) /\ todo \subseteq sample.todo
      BY <1>1, <3>4, MapOfTables DEF SampleShape
    <3>7. \A u \in Tables(schema) \ todo : out[u] = IF u \in sample.todo THEN Exported(u) ELSE sample.out[u]
      <4>1. DOMAIN sample.out = Tables(schema)
        BY <1>1, MapOfTables DEF SampleShape
      <4>2. QED BY <3>2, <3>3, <3>4, <4>1
    <3>8. Moves("export", todo, out)
      BY <3>5, <3>6, <3>7 DEF Moves
    <3>9. QED BY <3>8
  <2>3. QED BY <2>1, <2>2
<1>10. PICK a, todo, out : Moves(a, todo, out)
  BY <1>2
<1>11. /\ a \in {"export", "done"} /\ todo \in SUBSET sample.todo
       /\ sample' = [sample EXCEPT !.at = a, !.todo = todo, !.out = out]
       /\ TableMap(schema, out) /\ (a = "done" => todo = {})
       /\ \A t \in Tables(schema) \ todo : out[t] = IF t \in sample.todo THEN Exported(t) ELSE sample.out[t]
  BY <1>10 DEF Moves
<1>3. sample' = [at |-> a, children |-> sample.children, todo |-> todo, sel |-> sample.sel, front |-> sample.front,
                 i |-> sample.i, n |-> sample.n, left |-> sample.left, cur |-> sample.cur, out |-> out]
  BY <1>1, <1>11 DEF SampleShape
<1>4. SampleShape' /\ AtHand'
  BY <1>1, <1>11, <1>3 DEF SampleInv, SampleShape, AtHand
<1>5. sample'.sel = sample.sel /\ sample'.front = sample.front /\ sample'.at = a /\ sample'.todo = todo /\ sample'.out = out
  BY <1>3
<1>6. /\ Meant' /\ schema' \in Schemas /\ Consistent(schema, db)'
      /\ \A t, sv : InFront(t, sv) => InFront(t, sv)'
      /\ \A t, sv, f : Followed(t, sv, f) => Followed(t, sv, f)'
  BY <1>1, <1>4, <1>5, PlainStep
<1>7. NoneForgotten'
  BY <1>1, <1>5, <1>6 DEF SampleInv, NoneForgotten, Pending
<1>8. Written'
  <2>1. \A t \in Tables(schema) : Exported(t)' = Exported(t)
    BY <1>1, <1>5 DEF Exported
  <2>2. sample.front = << >> /\ \A t \in Tables(schema) \ sample.todo : sample.out[t] = Exported(t)
    BY <1>1 DEF SampleInv, Written
  <2>3. \A t \in Tables(schema) \ todo : out[t] = Exported(t)
    BY <1>11, <2>2
  <2>4. QED BY <1>1, <1>11, <1>5, <2>1, <2>2, <2>3 DEF Written
<1>9. QED BY <1>4, <1>6, <1>7, <1>8 DEF SampleInv

\* The application, and the seeding command, insert rows the engine accepts.
LEMMA InsertSteps == SampleInv /\ SeedInv /\ (AppInsert \/ SeedNext) => SampleInv'
<1> SUFFICES ASSUME SampleInv, SeedInv, AppInsert \/ SeedNext PROVE SampleInv'
  OBVIOUS
<1>1. schema' = schema /\ sample' = sample /\ schema \in Schemas /\ Consistent(schema, db)
  BY DEF SampleInv, AppInsert, SeedNext, Begin, AskParent, NextTable, AskPool, CountRows, MakeRow, Insert, Seeds
<1>2. ASSUME NEW t \in Tables(schema), NEW rows, db' = [db EXCEPT ![t] = @ \cup rows], Accepts(schema, db, t, rows),
             IsFiniteSet(rows), rows \subseteq [schema.cols[t] -> Nat]
      PROVE  SampleInv'
  <2>1. Consistent(schema, [db EXCEPT ![t] = @ \cup rows])
    BY <1>1, <1>2, AcceptedIsConsistent
  <2>2. Consistent(schema, db')
    BY <1>2, <2>1
  <2>3. \A u \in Tables(schema) : db[u] \subseteq db'[u]
    BY <1>1, <1>2 DEF Consistent
  <2>4. QED BY <1>1, <2>2, <2>3, GrowthKeepsSample
<1>3. ASSUME db' = db PROVE SampleInv'
  BY <1>1, <1>3, GrowthKeepsSample
<1>4. CASE AppInsert
  <2>1. PICK t \in Tables(schema) : \E r \in [schema.cols[t] -> 0..MaxKey] :
          Accepts(schema, db, t, {r}) /\ db' = [db EXCEPT ![t] = @ \cup {r}]
    BY <1>4 DEF AppInsert
  <2>2. PICK r \in [schema.cols[t] -> 0..MaxKey] :
          Accepts(schema, db, t, {r}) /\ db' = [db EXCEPT ![t] = @ \cup {r}]
    BY <2>1
  <2>3. r \in [schema.cols[t] -> Nat]
    BY DatasetAssumption
  <2>4. PICK rows : rows = {r}
    OBVIOUS
  <2>5. Accepts(schema, db, t, rows) /\ db' = [db EXCEPT ![t] = @ \cup rows]
        /\ IsFiniteSet(rows) /\ rows \subseteq [schema.cols[t] -> Nat]
    BY <2>2, <2>3, <2>4, FS_Singleton
  <2>6. QED BY <1>2, <2>5
<1>5. CASE Insert /\ db' # db
  <2>1. PICK t, rows : t = seed.table /\ rows = {Stored(t, r) : r \in seed.batch}
    OBVIOUS
  <2>2. Accepts(schema, db, t, rows) /\ db' = [db EXCEPT ![t] = @ \cup rows] /\ seed.at = "rows"
    BY <1>5, <2>1 DEF Insert
  <2>3. t \in Tables(schema) /\ IsFiniteSet(rows) /\ rows \subseteq [schema.cols[t] -> Nat]
    BY <1>1, <2>1, <2>2, StoredRows DEF SeedInv
  <2>4. QED BY <1>2, <2>2, <2>3
<1>6. CASE SeedNext /\ db' = db
  BY <1>3, <1>6
<1>7. (Begin \/ AskParent \/ NextTable \/ AskPool \/ CountRows \/ MakeRow) => db' = db
  BY DEF Begin, AskParent, NextTable, AskPool, CountRows, MakeRow, Seeds
<1>8. QED BY <1>4, <1>5, <1>6, <1>7 DEF SeedNext

LEMMA SampleStep == SampleInv /\ SampleNext => SampleInv'
BY CountRootStep, PickRootStep, NextDownStep, DownStep, NextUpStep, AscendStep, ExportStep DEF SampleNext

\* How the sampling command, or a capsule, begins.
LEMMA SampleBegins ==
  ASSUME schema \in Schemas, db \in Databases(schema), NEW children, sample = Sampling("roots", schema, children)
  PROVE  SampleInv
<1>1. sample = [at |-> "roots", children |-> children, todo |-> Roots(schema), sel |-> [t \in Tables(schema) |-> {}],
                front |-> << >>, i |-> 1, n |-> 0, left |-> {}, cur |-> << >>, out |-> [t \in Tables(schema) |-> {}]]
  BY DEF Sampling
<1>2. Roots(schema) \subseteq Tables(schema)
  BY DEF Roots
<1>3. << >> \in Seq(Elems(<< >>))
  OBVIOUS
<1>4. SampleShape
  <2>1. PICK sel, out : sel = [t \in Tables(schema) |-> {}] /\ out = sel
    OBVIOUS
  <2>2. sample = [at |-> "roots", children |-> children, todo |-> Roots(schema), sel |-> sel, front |-> << >>,
                  i |-> 1, n |-> 0, left |-> {}, cur |-> << >>, out |-> out]
    BY <1>1, <2>1
  <2>3. sample.sel = sel /\ sample.out = out
    BY <2>2
  <2>4. DOMAIN sample.sel = Tables(schema) /\ TableMap(schema, sample.out)
    BY <2>1, <2>3 DEF TableMap
  <2>5. /\ sample.todo \subseteq Tables(schema) /\ sample.at = "roots"
        /\ sample.front = << >>
    BY <1>2, <2>2
  <2>6. sample = [at |-> sample.at, children |-> sample.children, todo |-> sample.todo, sel |-> sample.sel,
                  front |-> sample.front, i |-> sample.i, n |-> sample.n, left |-> sample.left,
                  cur |-> sample.cur, out |-> sample.out]
    BY <2>2
  <2>7. QED BY <1>3, <2>4, <2>5, <2>6 DEF SampleShape
<1>5. AtHand /\ Written
  BY <1>1 DEF AtHand, Written
<1>6. sample.sel = [t \in Tables(schema) |-> {}]
  BY <1>1
<1>7. Meant
  BY <1>6 DEF Meant
<1>8. NoneForgotten
  BY <1>6, SchemaAssumption DEF NoneForgotten, SoundSchema
<1>9. Consistent(schema, db)
  BY SchemaAssumption
<1>10. QED BY <1>4, <1>5, <1>7, <1>8, <1>9 DEF SampleInv

\* When the sample is done, its rows hold all that they refer to.
LEMMA DoneIsComplete == SampleInv /\ sample.at = "done" => Refers(schema, sample.out)
<1> SUFFICES ASSUME SampleInv, sample.at = "done", NEW f \in schema.fks, NEW r \in sample.out[f.child],
                    Whole(Pick(r, f.cols))
             PROVE  \E q \in sample.out[f.parent] : Pick(q, f.ref) = Pick(r, f.cols)
  BY DEF Refers
<1>1. f.child \in Tables(schema) /\ f.parent \in Tables(schema)
  BY SchemaAssumption DEF SampleInv, SoundSchema
<1>2. sample.front = << >> /\ \A t \in Tables(schema) : sample.out[t] = Exported(t)
  BY DEF SampleInv, Written
<1>3. PICK sv \in sample.sel[f.child] : r \in db[f.child] /\ Pick(r, sv[1]) = sv[2]
  BY <1>1, <1>2 DEF Exported
<1>4. Followed(f.child, sv, f)
  BY <1>2, <1>3 DEF SampleInv, NoneForgotten, Pending, InFront
<1>5. <<f.ref, Pick(r, f.cols)>> \in sample.sel[f.parent]
  BY <1>3, <1>4 DEF Followed
<1>6. PICK sw \in sample.sel[f.parent] : sw = <<f.ref, Pick(r, f.cols)>>
  BY <1>5
<1>7. PICK q \in db[f.parent] : Pick(q, sw[1]) = sw[2]
  BY <1>1, <1>6 DEF SampleInv, Meant
<1>8. q \in sample.out[f.parent]
  BY <1>1, <1>2, <1>6, <1>7 DEF Exported
<1>9. QED BY <1>6, <1>7, <1>8

----------------------------------------------------------------------------
(* The capsule: what the file says, and what a load makes of it.           *)

\* Where a secret that is not supplied stands.
LEMMA UnfilledIsSomewhere ==
  ASSUME file.cut = Secrets, NEW supplied, Unfilled("command", supplied) = {}
  PROVE  Unfilled("env", supplied) \cup Unfilled("label", supplied) = Secrets \ supplied
<1>1. \A s \in Secrets \ supplied : s \notin InCommand
  BY DEF Unfilled
<1>2. \A s \in Secrets \ supplied : Where[s] \in {"env", "label"}
  BY <1>1, CapsuleAssumption DEF Secrets
<1>3. QED BY <1>1, <1>2 DEF Unfilled

\* A step of neither command that leaves sample.at = "done" alone.
LEMMA CapsuleUnmoved ==
  ASSUME CapsuleInv, SampleInv', UNCHANGED <<schema, cvars>>, sample.at = "done" => UNCHANGED sample
  PROVE  CapsuleInv'
<1>1. schema' = schema /\ capsule' = capsule /\ file' = file /\ load' = load /\ there' = there
  BY DEF cvars
<1>2. \A where, supplied : Unfilled(where, supplied)' = Unfilled(where, supplied)
  BY <1>1 DEF Unfilled
<1>3. FileShape' /\ LoadShape' /\ Filled' /\ Restored'
  <2>1. FileShape'
    BY <1>1 DEF CapsuleInv, FileShape
  <2>2. LoadShape'
    BY <1>1 DEF CapsuleInv, LoadShape
  <2>3. Filled'
    BY <1>1 DEF CapsuleInv, Filled
  <2>4. Restored'
    BY <1>1 DEF CapsuleInv, Restored
  <2>5. QED BY <2>1, <2>2, <2>3, <2>4
<1>4. FileSays'
  BY <1>1 DEF CapsuleInv, FileSays
<1>5. Loadable'
  BY <1>1, <1>2 DEF CapsuleInv, Loadable
<1>6. QED BY <1>3, <1>4, <1>5 DEF CapsuleInv

\* A step of create: the file is not loaded meanwhile.
LEMMA CreateStep == CapsuleInv /\ Create => CapsuleInv'
<1> SUFFICES ASSUME CapsuleInv, Create PROVE CapsuleInv'
  OBVIOUS
<1>1. /\ schema' = schema /\ db' = db /\ sample' = sample /\ load' = load /\ there' = there
      /\ capsule.at \in {"inspect", "schema", "sampling", "volumes", "manifest"}
  BY DEF Create, Inspect, DumpSchema, AddSample, AddVolume, AddManifest, CreateFails, Writes, vars
<1>2. SampleInv'
  BY <1>1, GrowthKeepsSample DEF CapsuleInv, SampleInv
<1>3. load.at = "idle" /\ load.report # "schema and sample"
  BY <1>1 DEF CapsuleInv, Loadable, Restored
<1>4. LoadShape' /\ Filled' /\ Restored'
  BY <1>1, <1>3 DEF CapsuleInv, LoadShape, Filled, Restored
<1>5. FileShape /\ FileSays /\ ~file.manifest
  BY <1>1 DEF CapsuleInv, FileSays, FileShape
<1> DEFINE Adds(at, manifest, cut, sampled, rows) ==
      /\ at \in {"schema", "sampling", "volumes", "manifest", "done", "failed"}
      /\ capsule' = [capsule EXCEPT !.at = at]
      /\ \E hasdb, mounts, image : file' = [manifest |-> manifest, cut |-> cut, db |-> hasdb, sampled |-> sampled,
                                            rows |-> rows, mounts |-> mounts, image |-> image]
      /\ manifest \in BOOLEAN /\ (manifest => at = "done")
      /\ at # "failed" => cut = Secrets
      /\ sampled => sample.at = "done" /\ rows = sample.out
<1> HIDE DEF Adds
<1>6. \E at, manifest, cut, sampled, rows : Adds(at, manifest, cut, sampled, rows)
  <2>1. PICK cut, hasdb, sampled, rows, mounts, image :
          file = [manifest |-> FALSE, cut |-> cut, db |-> hasdb, sampled |-> sampled, rows |-> rows,
                  mounts |-> mounts, image |-> image]
    BY <1>5 DEF FileShape
  <2>2. capsule.at # "inspect" => cut = Secrets
    BY <1>1, <1>5, <2>1 DEF FileSays
  <2>3. sampled => sample.at = "done" /\ rows = sample.out
    BY <1>5, <2>1 DEF FileSays
  <2>4. CASE Inspect
    <3>1. PICK at \in {"schema", "volumes"} : capsule' = [capsule EXCEPT !.at = at] /\ file' = [file EXCEPT !.cut = Secrets]
      BY <2>4 DEF Inspect, Writes
    <3>2. file' = [manifest |-> FALSE, cut |-> Secrets, db |-> hasdb, sampled |-> sampled,
                   rows |-> rows, mounts |-> mounts, image |-> image]
      BY <2>1, <3>1
    <3>3. Adds(at, FALSE, Secrets, sampled, rows)
      BY <2>3, <3>1, <3>2 DEF Adds
    <3>4. QED BY <3>3
  <2>5. CASE DumpSchema
    <3>1. PICK at \in {"sampling", "volumes"} : capsule' = [capsule EXCEPT !.at = at] /\ file' = [file EXCEPT !.db = TRUE]
      BY <2>5 DEF DumpSchema, Writes
    <3>2. file' = [manifest |-> FALSE, cut |-> cut, db |-> TRUE, sampled |-> sampled,
                   rows |-> rows, mounts |-> mounts, image |-> image]
      BY <2>1, <3>1
    <3>3. Adds(at, FALSE, cut, sampled, rows)
      BY <2>2, <2>3, <2>5, <3>1, <3>2 DEF Adds, DumpSchema
    <3>4. QED BY <3>3
  <2>6. CASE AddSample
    <3>1. capsule' = [capsule EXCEPT !.at = "volumes"] /\ file' = [file EXCEPT !.sampled = TRUE, !.rows = sample.out]
      BY <2>6 DEF AddSample, Writes
    <3>2. file' = [manifest |-> FALSE, cut |-> cut, db |-> hasdb, sampled |-> TRUE,
                   rows |-> sample.out, mounts |-> mounts, image |-> image]
      BY <2>1, <3>1
    <3>3. Adds("volumes", FALSE, cut, TRUE, sample.out)
      BY <2>2, <2>6, <3>1, <3>2 DEF Adds, AddSample
    <3>4. QED BY <3>3
  <2>7. CASE AddVolume
    <3>1. PICK at, ms, im :
            /\ at \in {"volumes", "manifest"}
            /\ capsule' = [capsule EXCEPT !.at = at]
            /\ (file' = [file EXCEPT !.mounts = ms] \/ file' = [file EXCEPT !.image = im])
      BY <2>7 DEF AddVolume, Writes
    <3>2. PICK m, i : file' = [manifest |-> FALSE, cut |-> cut, db |-> hasdb, sampled |-> sampled,
                               rows |-> rows, mounts |-> m, image |-> i]
      BY <2>1, <3>1
    <3>3. cut = Secrets
      BY <2>2, <2>7 DEF AddVolume
    <3>4. Adds(at, FALSE, cut, sampled, rows)
      BY <2>3, <3>1, <3>2, <3>3 DEF Adds
    <3>5. QED BY <3>4
  <2>8. CASE AddManifest
    <3>1. capsule' = [capsule EXCEPT !.at = "done"] /\ file' = [file EXCEPT !.manifest = TRUE]
      BY <2>8 DEF AddManifest, Writes
    <3>2. Adds("done", TRUE, cut, sampled, rows)
      BY <2>1, <2>2, <2>3, <2>8, <3>1 DEF Adds, AddManifest
    <3>3. QED BY <3>2
  <2>9. CASE CreateFails
    <3>1. capsule' = [capsule EXCEPT !.at = "failed"] /\ file' = file
      BY <2>9 DEF CreateFails, Writes
    <3>2. Adds("failed", FALSE, cut, sampled, rows)
      BY <2>1, <2>3, <3>1 DEF Adds
    <3>3. QED BY <3>2
  <2>10. QED BY <2>4, <2>5, <2>6, <2>7, <2>8, <2>9 DEF Create
<1>7. PICK at, manifest, cut, sampled, rows : Adds(at, manifest, cut, sampled, rows)
  BY <1>6
<1>8. /\ at \in {"schema", "sampling", "volumes", "manifest", "done", "failed"}
      /\ capsule' = [capsule EXCEPT !.at = at]
      /\ manifest \in BOOLEAN /\ (manifest => at = "done")
      /\ at # "failed" => cut = Secrets
      /\ sampled => sample.at = "done" /\ rows = sample.out
  BY <1>7 DEF Adds
<1>9. PICK hasdb, mounts, image :
        file' = [manifest |-> manifest, cut |-> cut, db |-> hasdb, sampled |-> sampled,
                 rows |-> rows, mounts |-> mounts, image |-> image]
  BY <1>7 DEF Adds
<1>10. FileShape' /\ capsule'.at = at
  BY <1>5, <1>8, <1>9 DEF FileShape
<1>11. FileSays'
  BY <1>1, <1>8, <1>9, <1>10 DEF FileSays
<1>12. Loadable'
  BY <1>1, <1>3, <1>8, <1>10 DEF Loadable
<1>13. QED BY <1>2, <1>4, <1>10, <1>11, <1>12 DEF CapsuleInv

\* What a load keeps: the machine is changed by a complete file only.
LEMMA LoadingKept ==
  ASSUME CapsuleInv, UNCHANGED <<vars, capsule, file>>, LoadShape', Filled', Restored',
         load' # load => capsule.at # "off", load'.at # "idle" => capsule.at \in {"done", "failed"},
         load'.at \in {"image", "create", "put", "replay", "script", "done"} =>
           file.manifest /\ load'.supplied \subseteq Secrets /\ Unfilled("command", load'.supplied) = {}
  PROVE  CapsuleInv'
<1>1. schema' = schema /\ db' = db /\ sample' = sample /\ capsule' = capsule /\ file' = file
  BY DEF vars
<1>2. SampleInv'
  BY <1>1, GrowthKeepsSample DEF CapsuleInv, SampleInv
<1>3. FileShape' /\ FileSays'
  BY <1>1 DEF CapsuleInv, FileShape, FileSays
<1>4. Unfilled("command", load.supplied)' = Unfilled("command", load'.supplied)
  BY <1>1 DEF Unfilled
<1>5. Loadable'
  BY <1>1, <1>4 DEF CapsuleInv, Loadable
<1>6. QED BY <1>2, <1>3, <1>5 DEF CapsuleInv

\* What holds of the file while a load is past its check.
LEMMA PastCheck ==
  ASSUME CapsuleInv, load.at \in {"image", "create", "put", "replay", "script", "done"}
  PROVE  /\ file.manifest /\ file.cut = Secrets /\ capsule.at = "done"
         /\ load.supplied \subseteq Secrets /\ Unfilled("command", load.supplied) = {}
BY DEF CapsuleInv, Loadable, FileSays

LEMMA CheckStep == CapsuleInv /\ Check => CapsuleInv'
<1> SUFFICES ASSUME CapsuleInv, Check PROVE CapsuleInv'
  OBVIOUS
<1>1. there' = there /\ capsule.at \in {"done", "failed"} /\ load.report # "schema and sample" /\ UNCHANGED <<vars, capsule, file>>
  BY DEF Check, Loads, CapsuleInv, Restored
<1>2. PICK supplied \in SUBSET Secrets, at \in {"image", "refused"} :
        /\ load' = [at |-> at, n |-> load.n + 1, supplied |-> supplied, ref |-> "none", missing |-> {},
                    todo |-> {}, report |-> "none"]
        /\ at = "image" => file.manifest /\ Unfilled("command", supplied) = {}
  <2>1. PICK supplied \in SUBSET Secrets :
          load' = IF ~file.manifest \/ Unfilled("command", supplied) # {}
                  THEN [[Loading("image", load.n + 1) EXCEPT !.supplied = supplied] EXCEPT !.at = "refused"]
                  ELSE [Loading("image", load.n + 1) EXCEPT !.supplied = supplied]
    BY DEF Check, Loads
  <2>2. PICK n : n = load.n + 1
    OBVIOUS
  <2>3. PICK l : l = [Loading("image", n) EXCEPT !.supplied = supplied]
    OBVIOUS
  <2>4. l = [at |-> "image", n |-> n, supplied |-> supplied, ref |-> "none", missing |-> {},
             todo |-> {}, report |-> "none"]
    BY <2>3 DEF Loading
  <2>5. CASE ~file.manifest \/ Unfilled("command", supplied) # {}
    <3>1. load' = [l EXCEPT !.at = "refused"]
      BY <2>1, <2>2, <2>3, <2>5
    <3>2. load' = [at |-> "refused", n |-> n, supplied |-> supplied, ref |-> "none", missing |-> {},
                   todo |-> {}, report |-> "none"]
      BY <2>4, <3>1
    <3>3. QED BY <2>2, <3>2
  <2>6. CASE ~(~file.manifest \/ Unfilled("command", supplied) # {})
    <3>1. load' = l /\ file.manifest /\ Unfilled("command", supplied) = {}
      BY <2>1, <2>2, <2>3, <2>6
    <3>2. QED BY <2>2, <2>4, <3>1
  <2>7. QED BY <2>5, <2>6
<1>3. load'.at = at /\ load'.supplied = supplied /\ load'.report = "none"
  BY <1>2
<1>4. LoadShape'
  BY <1>1, <1>2 DEF CapsuleInv, LoadShape
<1>5. Filled' /\ Restored'
  BY <1>3 DEF Filled, Restored
<1>6. QED BY <1>1, <1>2, <1>3, <1>4, <1>5, LoadingKept

LEMMA EnsureImageStep == CapsuleInv /\ EnsureImage => CapsuleInv'
<1> SUFFICES ASSUME CapsuleInv, EnsureImage PROVE CapsuleInv'
  OBVIOUS
<1>1. load.at = "image" /\ UNCHANGED <<vars, capsule, file>>
  BY DEF EnsureImage, Loads
<1>2. PICK at, ref, images :
        /\ at \in {"create", "refused"} /\ load' = [load EXCEPT !.at = at, !.ref = ref]
        /\ there' = [there EXCEPT !.images = images]
  <2> DEFINE Takes(at, ref, images) ==
        /\ at \in {"create", "refused"} /\ load' = [load EXCEPT !.at = at, !.ref = ref]
        /\ there' = [there EXCEPT !.images = images]
  <2> HIDE DEF Takes
  <2>1. \E at, ref, images : Takes(at, ref, images)
    <3>1. CASE \E ref, images : load' = [load EXCEPT !.at = "create", !.ref = ref] /\ there' = [there EXCEPT !.images = images]
      <4>1. PICK ref, images : load' = [load EXCEPT !.at = "create", !.ref = ref] /\ there' = [there EXCEPT !.images = images]
        BY <3>1
      <4>2. Takes("create", ref, images)
        BY <4>1 DEF Takes
      <4>3. QED BY <4>2
    <3>2. CASE load' = [load EXCEPT !.at = "refused"] /\ there' = there
      <4>1. PICK ref, images : ref = load.ref /\ images = there.images
        OBVIOUS
      <4>2. load' = [load EXCEPT !.at = "refused", !.ref = ref]
        BY <3>2, <4>1 DEF CapsuleInv, LoadShape
      <4>3. there' = [there EXCEPT !.images = images]
        BY <3>2, <4>1 DEF CapsuleInv, LoadShape
      <4>4. Takes("refused", ref, images)
        BY <4>2, <4>3 DEF Takes
      <4>5. QED BY <4>4
    <3>3. (\E ref, images : load' = [load EXCEPT !.at = "create", !.ref = ref] /\ there' = [there EXCEPT !.images = images])
          \/ (load' = [load EXCEPT !.at = "refused"] /\ there' = there)
      BY Zenon DEF EnsureImage, Loads
    <3>4. QED BY <3>1, <3>2, <3>3
  <2>2. QED BY <2>1 DEF Takes
<1>3. LoadShape
  BY DEF CapsuleInv
<1>4. /\ load' = [at |-> at, n |-> load.n, supplied |-> load.supplied, ref |-> ref, missing |-> load.missing,
                  todo |-> load.todo, report |-> load.report]
      /\ there' = [images |-> images, container |-> there.container, volumes |-> there.volumes]
  BY <1>2, <1>3 DEF LoadShape
<1>5. load'.at = at /\ load'.supplied = load.supplied /\ load'.report = load.report /\ load.report # "schema and sample"
  BY <1>1, <1>4 DEF CapsuleInv, Restored
<1>6. LoadShape'
  BY <1>2, <1>3, <1>4 DEF LoadShape
<1>7. Filled' /\ Restored'
  BY <1>2, <1>5 DEF Filled, Restored
<1>8. QED BY <1>1, <1>2, <1>5, <1>6, <1>7, PastCheck, LoadingKept

LEMMA CreateContainerStep == CapsuleInv /\ CreateContainer => CapsuleInv'
<1> SUFFICES ASSUME CapsuleInv, CreateContainer PROVE CapsuleInv'
  OBVIOUS
<1>1. load.at = "create" /\ UNCHANGED <<vars, capsule, file>> /\ LoadShape /\ load.report # "schema and sample"
      /\ schema' = schema
  BY DEF CreateContainer, Loads, CapsuleInv, Restored, vars
<1>2. file.cut = Secrets /\ load.supplied \subseteq Secrets /\ capsule.at = "done"
      /\ Unfilled("env", load.supplied) \cup Unfilled("label", load.supplied) = Secrets \ load.supplied
  BY <1>1, PastCheck, UnfilledIsSomewhere
<1>3. PICK missing : missing = Secrets \ load.supplied
  OBVIOUS
<1>4. PICK has, placeholders, rows :
        /\ has = (Secrets \ file.cut) \cup (file.cut \cap load.supplied)
        /\ placeholders = (file.cut \ load.supplied) \ Dropped(load.supplied)
        /\ rows = [t \in Tables(schema) |-> {}]
  OBVIOUS
<1>5. has = load.supplied /\ placeholders = {} /\ TableMap(schema, rows)
  BY <1>2, <1>4 DEF Dropped, TableMap
<1>6. PICK container : container = [state |-> "created", has |-> has, placeholders |-> placeholders, rows |-> rows]
  OBVIOUS
<1>10. PICK images, volumes :
        \/ /\ load' = [load EXCEPT !.at = "put", !.todo = file.mounts, !.missing = missing]
           /\ there' = [there EXCEPT !.images = images, !.container = container, !.volumes = volumes]
        \/ load' = [load EXCEPT !.at = "failed"] /\ there' = there
  <2>1. Unfilled("env", load.supplied) \cup Unfilled("label", load.supplied) = missing
    BY <1>2, <1>3
  <2>2. QED BY <2>1, <1>4, <1>6 DEF CreateContainer, Loads
<1>7. CASE load' = [load EXCEPT !.at = "failed"] /\ there' = there
  <2>1. load' = [at |-> "failed", n |-> load.n, supplied |-> load.supplied, ref |-> load.ref, missing |-> load.missing,
                 todo |-> load.todo, report |-> load.report]
    BY <1>1, <1>7 DEF LoadShape
  <2>2. LoadShape'
    BY <1>1, <1>7, <2>1 DEF LoadShape
  <2>3. Filled' /\ Restored'
    BY <1>1, <2>1 DEF Filled, Restored
  <2>4. QED BY <1>1, <1>2, <2>1, <2>2, <2>3, LoadingKept
<1>8. CASE /\ load' = [load EXCEPT !.at = "put", !.todo = file.mounts, !.missing = missing]
           /\ there' = [there EXCEPT !.images = images, !.container = container, !.volumes = volumes]
  <2>1. load' = [at |-> "put", n |-> load.n, supplied |-> load.supplied, ref |-> load.ref, missing |-> missing,
                 todo |-> file.mounts, report |-> load.report]
    BY <1>1, <1>8 DEF LoadShape
  <2>2. there' = [images |-> images, container |-> container, volumes |-> volumes]
    BY <1>1, <1>8 DEF LoadShape
  <2>3. LoadShape'
    BY <1>6, <2>1, <2>2 DEF LoadShape
  <2>4. Filled' /\ Restored'
    BY <1>1, <1>3, <1>5, <1>6, <2>1, <2>2 DEF Filled, Restored
  <2>5. load'.at = "put" /\ load'.supplied = load.supplied
    BY <2>1
  <2>6. QED BY <1>1, <1>2, <2>3, <2>4, <2>5, PastCheck, LoadingKept
<1>9. QED BY <1>10, <1>7, <1>8

\* Steps that leave what the container has, and its rows, as they are.
LEMMA PutArchivesStep == CapsuleInv /\ PutArchives => CapsuleInv'
<1> SUFFICES ASSUME CapsuleInv, PutArchives PROVE CapsuleInv'
  OBVIOUS
<1>1. load.at = "put" /\ UNCHANGED <<vars, capsule, file>> /\ LoadShape /\ schema' = schema
      /\ load.report # "schema and sample"
  BY DEF PutArchives, Loads, CapsuleInv, Restored, vars
<1>2. PICK c : c = there.container
  OBVIOUS
<1>3. c = [state |-> c.state, has |-> c.has, placeholders |-> c.placeholders, rows |-> c.rows]
  BY <1>1, <1>2 DEF LoadShape
<1> DEFINE Puts(at, todo, state, volumes, images) ==
        /\ at \in {"put", "replay"}
        /\ load' = [at |-> at, n |-> load.n, supplied |-> load.supplied, ref |-> load.ref, missing |-> load.missing,
                    todo |-> todo, report |-> load.report]
        /\ there' = [images |-> images, volumes |-> volumes,
                     container |-> [state |-> state, has |-> c.has, placeholders |-> c.placeholders, rows |-> c.rows]]
<1> HIDE DEF Puts
<1>8. \E at, todo, state, volumes, images : Puts(at, todo, state, volumes, images)
  <2>1. CASE load.todo = {}
    <3>1. load' = [load EXCEPT !.at = "replay"] /\ there' = [there EXCEPT !.container.state = "running"]
      BY <2>1 DEF PutArchives, Loads
    <3>2. load' = [at |-> "replay", n |-> load.n, supplied |-> load.supplied, ref |-> load.ref, missing |-> load.missing,
                   todo |-> load.todo, report |-> load.report]
      BY <1>1, <3>1 DEF LoadShape
    <3>3. PICK d : d = [c EXCEPT !.state = "running"]
      OBVIOUS
    <3>4. d = [state |-> "running", has |-> c.has, placeholders |-> c.placeholders, rows |-> c.rows]
      BY <1>3, <3>3
    <3>5. there' = [there EXCEPT !.container = d]
      BY <1>1, <1>2, <3>1, <3>3 DEF LoadShape
    <3>6. there' = [images |-> there.images, container |-> d, volumes |-> there.volumes]
      BY <1>1, <3>5 DEF LoadShape
    <3>7. Puts("replay", load.todo, "running", there.volumes, there.images)
      BY <3>2, <3>4, <3>6 DEF Puts
    <3>8. QED BY <3>7
  <2>2. CASE load.todo # {}
    <3>1. PICK todo, volumes : load' = [load EXCEPT !.todo = todo] /\ there' = [there EXCEPT !.volumes = volumes]
      BY <2>2 DEF PutArchives, Loads
    <3>2. load' = [at |-> "put", n |-> load.n, supplied |-> load.supplied, ref |-> load.ref, missing |-> load.missing,
                   todo |-> todo, report |-> load.report]
      BY <1>1, <3>1 DEF LoadShape
    <3>3. there' = [images |-> there.images, container |-> c, volumes |-> volumes]
      BY <1>1, <1>2, <3>1 DEF LoadShape
    <3>4. Puts("put", todo, c.state, volumes, there.images)
      BY <1>3, <3>2, <3>3 DEF Puts
    <3>5. QED BY <3>4
  <2>3. QED BY <2>1, <2>2
<1>4. PICK at, todo, state, volumes, images :
        /\ at \in {"put", "replay"}
        /\ load' = [at |-> at, n |-> load.n, supplied |-> load.supplied, ref |-> load.ref, missing |-> load.missing,
                    todo |-> todo, report |-> load.report]
        /\ there' = [images |-> images, volumes |-> volumes,
                     container |-> [state |-> state, has |-> c.has, placeholders |-> c.placeholders, rows |-> c.rows]]
  BY <1>8 DEF Puts
<1>5. LoadShape'
  BY <1>4 DEF LoadShape
<1>6. Filled' /\ Restored'
  BY <1>1, <1>2, <1>4 DEF CapsuleInv, Filled, Restored
<1>7. QED BY <1>1, <1>4, <1>5, <1>6, PastCheck, LoadingKept

LEMMA ReplayStep == CapsuleInv /\ Replay => CapsuleInv'
<1> SUFFICES ASSUME CapsuleInv, Replay PROVE CapsuleInv'
  OBVIOUS
<1>1. load.at = "replay" /\ UNCHANGED <<vars, capsule, file>> /\ LoadShape /\ schema' = schema /\ there' = there
      /\ load.report # "schema and sample"
  BY DEF Replay, Loads, CapsuleInv, Restored, vars
<1>2. PICK at, todo, report :
        /\ at \in {"done", "script"} /\ report # "schema and sample"
        /\ load' = [at |-> at, n |-> load.n, supplied |-> load.supplied, ref |-> load.ref, missing |-> load.missing,
                    todo |-> todo, report |-> report]
        /\ at = "script" /\ file.sampled => todo = Tables(schema)
  <2>1. \/ load' = [load EXCEPT !.at = "done"]
        \/ load' = [load EXCEPT !.at = "done", !.report = "from volumes"]
        \/ load' = [load EXCEPT !.at = "done", !.report = "error"]
        \/ load' = [load EXCEPT !.at = "script", !.todo = IF file.sampled THEN Tables(schema) ELSE {}]
    BY DEF Replay, Loads
  <2>2. PICK todo : todo = IF file.sampled THEN Tables(schema) ELSE {}
    OBVIOUS
  <2>3. \/ load' = [load EXCEPT !.at = "done"]
        \/ load' = [load EXCEPT !.at = "done", !.report = "from volumes"]
        \/ load' = [load EXCEPT !.at = "done", !.report = "error"]
        \/ load' = [load EXCEPT !.at = "script", !.todo = todo]
    BY <2>1, <2>2
  <2>4. QED BY <1>1, <2>2, <2>3 DEF LoadShape
<1>3. LoadShape'
  BY <1>1, <1>2 DEF LoadShape
<1>4. Filled' /\ Restored'
  BY <1>1, <1>2 DEF CapsuleInv, Filled, Restored
<1>5. QED BY <1>1, <1>2, <1>3, <1>4, PastCheck, LoadingKept

LEMMA RunScriptStep == CapsuleInv /\ RunScript => CapsuleInv'
<1> SUFFICES ASSUME CapsuleInv, RunScript PROVE CapsuleInv'
  OBVIOUS
<1>1. load.at = "script" /\ UNCHANGED <<vars, capsule, file>> /\ LoadShape /\ schema' = schema
      /\ load.report # "schema and sample" /\ file' = file
  BY DEF RunScript, Loads, CapsuleInv, Restored, vars
<1>2. PICK c : c = there.container
  OBVIOUS
<1>3. /\ c = [state |-> c.state, has |-> c.has, placeholders |-> c.placeholders, rows |-> c.rows]
      /\ TableMap(schema, c.rows) /\ DOMAIN c.rows = Tables(schema)
      /\ file.sampled => \A t \in Tables(schema) \ load.todo : c.rows[t] = file.rows[t]
  BY <1>1, <1>2, MapOfTables DEF CapsuleInv, LoadShape, Restored
<1>4. CASE load.todo = {} /\ load' = [load EXCEPT !.at = "done", !.report = Reported(TRUE)] /\ there' = there
  <2>1. PICK report : report = Reported(TRUE)
    OBVIOUS
  <2>2. load' = [at |-> "done", n |-> load.n, supplied |-> load.supplied, ref |-> load.ref, missing |-> load.missing,
                 todo |-> load.todo, report |-> report]
    BY <1>1, <1>4, <2>1 DEF LoadShape
  <2>3. report = "schema and sample" => file.sampled
    BY <2>1 DEF Reported
  <2>4. file.sampled => c.rows = file.rows
    <3>1. SUFFICES ASSUME file.sampled PROVE c.rows = file.rows
      OBVIOUS
    <3>2. \A t \in Tables(schema) : c.rows[t] = file.rows[t]
      BY <1>3, <1>4, <3>1
    <3>3. TableMap(schema, file.rows)
      BY <3>1 DEF CapsuleInv, FileSays, SampleInv, SampleShape
    <3>4. QED BY <1>3, <3>2, <3>3, SameTables
  <2>5. LoadShape'
    BY <1>1, <1>4, <2>2 DEF LoadShape
  <2>6. Filled' /\ Restored'
    <3>1. Filled'
      BY <1>1, <1>2, <1>4, <2>2, <2>3, <2>4 DEF CapsuleInv, Filled
    <3>2. Restored'
      <4>1. load'.at = "done" /\ load'.report = report
        BY <2>2
      <4>2. TableMap(schema', there'.container.rows)
        BY <1>1, <1>2, <1>3, <1>4, Zenon
      <4>3. report = "schema and sample" => file'.sampled /\ there'.container.rows = file'.rows
        BY <1>1, <1>2, <1>4, <2>3, <2>4
      <4>4. QED BY <4>1, <4>2, <4>3 DEF Restored
    <3>3. QED BY <3>1, <3>2
  <2>7. QED BY <1>1, <2>2, <2>5, <2>6, PastCheck, LoadingKept
<1>5. CASE load' = [load EXCEPT !.at = "done", !.report = Reported(FALSE)] /\ there' = there
  <2>1. load' = [load EXCEPT !.at = "done", !.report = "error"]
    BY <1>5 DEF Reported
  <2>2. load' = [at |-> "done", n |-> load.n, supplied |-> load.supplied, ref |-> load.ref, missing |-> load.missing,
                 todo |-> load.todo, report |-> "error"]
    BY <1>1, <2>1 DEF LoadShape
  <2>3. LoadShape'
    BY <1>1, <1>5, <2>2 DEF LoadShape
  <2>4. Filled' /\ Restored'
    <3>1. Filled'
      BY <1>1, <1>5, <2>2 DEF CapsuleInv, Filled
    <3>2. Restored'
      <4>1. load'.at = "done" /\ load'.report = "error"
        BY <2>2
      <4>2. TableMap(schema', there'.container.rows)
        BY <1>1, <1>2, <1>3, <1>5, Zenon
      <4>3. QED BY <4>1, <4>2 DEF Restored
    <3>3. QED BY <3>1, <3>2
  <2>5. QED BY <1>1, <2>2, <2>3, <2>4, PastCheck, LoadingKept
<1>6. ASSUME NEW t \in Firsts(schema, Tables(schema), load.todo), load' = [load EXCEPT !.todo = @ \ {t}],
             there' = [there EXCEPT !.container.rows[t] = file.rows[t]]
      PROVE  CapsuleInv'
  <2>1. PICK todo, row : todo = load.todo \ {t} /\ row = file.rows[t]
    OBVIOUS
  <2>2. load' = [at |-> "script", n |-> load.n, supplied |-> load.supplied, ref |-> load.ref, missing |-> load.missing,
                 todo |-> todo, report |-> load.report]
    BY <1>1, <1>6, <2>1 DEF LoadShape
  <2>3. PICK rows : rows = [c.rows EXCEPT ![t] = row]
    OBVIOUS
  <2>4. PICK d : d = [c EXCEPT !.rows = rows]
    OBVIOUS
  <2>5. d = [state |-> c.state, has |-> c.has, placeholders |-> c.placeholders, rows |-> rows]
    BY <1>3, <2>4
  <2>6. there' = [there EXCEPT !.container = d]
    BY <1>1, <1>2, <1>3, <1>6, <2>1, <2>3, <2>4 DEF LoadShape
  <2>7. there' = [images |-> there.images, container |-> d, volumes |-> there.volumes]
    BY <1>1, <2>6 DEF LoadShape
  <2>8. TableMap(schema, rows) /\ (file.sampled => \A u \in Tables(schema) \ todo : rows[u] = file.rows[u])
    BY <1>3, <2>1, <2>3, MapOfTables
  <2>9. LoadShape'
    BY <2>2, <2>5, <2>7 DEF LoadShape
  <2>10. Filled' /\ Restored'
    BY <1>1, <1>2, <2>2, <2>5, <2>7, <2>8 DEF CapsuleInv, Filled, Restored
  <2>11. QED BY <1>1, <2>2, <2>9, <2>10, PastCheck, LoadingKept
<1>7. QED
  <2>1. \/ load.todo = {} /\ load' = [load EXCEPT !.at = "done", !.report = Reported(TRUE)] /\ there' = there
        \/ load' = [load EXCEPT !.at = "done", !.report = Reported(FALSE)] /\ there' = there
        \/ \E t \in Firsts(schema, Tables(schema), load.todo) :
             load' = [load EXCEPT !.todo = @ \ {t}] /\ there' = [there EXCEPT !.container.rows[t] = file.rows[t]]
    BY Zenon DEF RunScript, Loads
  <2>2. QED BY <1>4, <1>5, <1>6, <2>1, Zenon

\* A load that is refused or fails, one that begins again, and images that go.
LEMMA OtherLoadSteps == CapsuleInv /\ (LoadFails \/ Again \/ Prune) => CapsuleInv'
<1> SUFFICES ASSUME CapsuleInv, LoadFails \/ Again \/ Prune PROVE CapsuleInv'
  OBVIOUS
<1>1. UNCHANGED <<vars, capsule, file>> /\ LoadShape /\ schema' = schema
  BY DEF LoadFails, Again, Prune, Loads, CapsuleInv, vars
<1>2. CASE LoadFails
  <2>1. load' = [load EXCEPT !.at = "failed"] /\ there' = there /\ load.at \in {"image", "create", "put"}
    BY <1>2 DEF LoadFails, Loads
  <2>2. load' = [at |-> "failed", n |-> load.n, supplied |-> load.supplied, ref |-> load.ref, missing |-> load.missing,
                 todo |-> load.todo, report |-> load.report]
    BY <1>1, <2>1 DEF LoadShape
  <2>3. load.report # "schema and sample" /\ capsule.at = "done"
    BY <2>1, PastCheck DEF CapsuleInv, Restored
  <2>4. LoadShape'
    BY <1>1, <2>1, <2>2 DEF LoadShape
  <2>5. Filled' /\ Restored'
    BY <2>2, <2>3 DEF Filled, Restored
  <2>6. QED BY <1>1, <2>2, <2>3, <2>4, <2>5, LoadingKept
<1>3. CASE Again
  <2>1. PICK container :
          /\ load' = Loading("idle", load.n) /\ (there' = there \/ there' = [there EXCEPT !.container = container])
          /\ container = NoContainer /\ load.at \in {"done", "failed", "refused"}
    BY <1>3 DEF Again, Loads
  <2>2. load' = [at |-> "idle", n |-> load.n, supplied |-> {}, ref |-> "none", missing |-> {}, todo |-> {}, report |-> "none"]
    BY <2>1 DEF Loading
  <2>3. LoadShape'
    <3>1. container = [state |-> container.state, has |-> container.has, placeholders |-> container.placeholders,
                       rows |-> container.rows]
      BY <2>1 DEF NoContainer
    <3>2. there' = there \/ there' = [images |-> there.images, container |-> container, volumes |-> there.volumes]
      BY <1>1, <2>1 DEF LoadShape
    <3>3. CASE there' = there
      BY <1>1, <2>2, <3>3 DEF LoadShape
    <3>4. CASE there' = [images |-> there.images, container |-> container, volumes |-> there.volumes]
      BY <2>2, <3>1, <3>4 DEF LoadShape
    <3>5. QED BY <3>2, <3>3, <3>4
  <2>4. capsule.at \in {"done", "failed"}
    BY <2>1 DEF CapsuleInv, Loadable
  <2>5. Filled' /\ Restored'
    BY <2>2 DEF Filled, Restored
  <2>6. QED BY <1>1, <2>2, <2>3, <2>4, <2>5, LoadingKept
<1>4. CASE Prune
  <2>1. load' = load /\ there' = [there EXCEPT !.images = {}] /\ load.at = "create"
    BY <1>4 DEF Prune, Loads
  <2>2. there' = [images |-> {}, container |-> there.container, volumes |-> there.volumes]
    BY <1>1, <2>1 DEF LoadShape
  <2>3. LoadShape'
    BY <1>1, <2>1, <2>2 DEF LoadShape
  <2>4. Filled' /\ Restored'
    BY <2>1 DEF CapsuleInv, Filled, Restored
  <2>5. QED BY <1>1, <2>1, <2>3, <2>4, PastCheck, LoadingKept
<1>5. QED BY <1>2, <1>3, <1>4

LEMMA CapsuleBegins == AloneInit \/ CapsuleInit => CapsuleInv
<1> SUFFICES ASSUME AloneInit \/ CapsuleInit PROVE CapsuleInv
  OBVIOUS
<1>1. SampleInv
  <2>1. CASE AloneInit
    <3>1. PICK children \in WithChildren : sample = Sampling("roots", schema, children)
      BY <2>1 DEF AloneInit, Init
    <3>2. schema \in Schemas /\ db \in Databases(schema)
      BY <2>1 DEF AloneInit, Init
    <3>3. QED BY <3>1, <3>2, SampleBegins
  <2>2. CASE CapsuleInit
    <3>1. schema \in Schemas /\ db \in Databases(schema) /\ sample = Sampling("roots", schema, FALSE)
      BY <2>2 DEF CapsuleInit
    <3>2. QED BY <3>1, SampleBegins
  <2>3. QED BY <2>1, <2>2
<1>2. file = [manifest |-> FALSE, cut |-> {}, db |-> FALSE, sampled |-> FALSE, rows |-> << >>, mounts |-> {}, image |-> FALSE]
  BY DEF AloneInit, CapsuleInit, NoFile
<1>3. /\ capsule \in [at : {"off", "inspect"}, volumes : BOOLEAN, db_sample : BOOLEAN, image : BOOLEAN, sql : BOOLEAN]
      /\ capsule.at = "off" => load = Loading("idle", MaxLoads)
  <2>1. CASE AloneInit
    <3>1. capsule = [at |-> "off", volumes |-> FALSE, db_sample |-> FALSE, image |-> FALSE, sql |-> FALSE]
          /\ load = Loading("idle", MaxLoads)
      BY <2>1 DEF AloneInit
    <3>2. QED BY <3>1
  <2>2. CASE CapsuleInit
    <3>1. capsule \in [at : {"inspect"}, volumes : BOOLEAN, db_sample : BOOLEAN, image : BOOLEAN, sql : BOOLEAN]
      BY <2>2 DEF CapsuleInit
    <3>2. QED BY <3>1
  <2>3. QED BY <2>1, <2>2
<1>4. PICK n : load = [at |-> "idle", n |-> n, supplied |-> {}, ref |-> "none", missing |-> {}, todo |-> {}, report |-> "none"]
  <2>1. \E n : load = Loading("idle", n)
    BY DEF AloneInit, CapsuleInit
  <2>2. QED BY <2>1 DEF Loading
<1>5. PICK images, volumes : there = [images |-> images, container |-> NoContainer, volumes |-> volumes]
  BY DEF AloneInit, CapsuleInit
<1>6. LoadShape
  <2>1. PICK container : container = [state |-> "none", has |-> {}, placeholders |-> {}, rows |-> << >>] /\ container = NoContainer
    BY DEF NoContainer
  <2>2. there = [images |-> images, container |-> container, volumes |-> volumes]
    BY <1>5, <2>1
  <2>3. QED BY <1>4, <2>1, <2>2 DEF LoadShape
<1>7. FileShape /\ FileSays
  BY <1>2, <1>3 DEF FileShape, FileSays
<1>8. Loadable
  BY <1>3, <1>4 DEF Loadable
<1>9. Filled /\ Restored
  BY <1>4 DEF Filled, Restored
<1>10. QED BY <1>1, <1>6, <1>7, <1>8, <1>9 DEF CapsuleInv

LEMMA CapsuleInvKept == CapsuleInv /\ SeedInv /\ [CapsuleNext]_allvars => CapsuleInv'
<1> SUFFICES ASSUME CapsuleInv, SeedInv, [CapsuleNext]_allvars PROVE CapsuleInv'
  OBVIOUS
<1>1. SampleInv
  BY DEF CapsuleInv
<1>2. CASE Elsewhere
  <2>1. SampleInv' /\ UNCHANGED <<schema, cvars>>
    BY <1>1, <1>2, SampleStep DEF Elsewhere, SampleNext, CountRoot, PickRoot, NextDown, Down, NextUp, Ascend, Export, Samples
  <2>2. sample.at # "done"
    BY <1>2 DEF Elsewhere, SampleNext, CountRoot, PickRoot, NextDown, Down, NextUp, Ascend, Export
  <2>3. QED BY <2>1, <2>2, CapsuleUnmoved
<1>3. CASE Others
  <2>1. SampleInv' /\ UNCHANGED <<schema, cvars>> /\ UNCHANGED sample
    BY <1>1, <1>3, InsertSteps DEF Others, AppInsert, SeedNext, Begin, AskParent, NextTable, AskPool, CountRows, MakeRow, Insert, Seeds
  <2>2. QED BY <2>1, CapsuleUnmoved
<1>4. CASE Create
  BY <1>4, CreateStep
<1>5. CASE Load
  BY <1>5, CheckStep, EnsureImageStep, CreateContainerStep, PutArchivesStep, ReplayStep, RunScriptStep, OtherLoadSteps DEF Load
<1>6. CASE Again \/ Prune
  BY <1>6, OtherLoadSteps
<1>7. CASE UNCHANGED allvars
  <2>1. UNCHANGED <<schema, cvars>> /\ UNCHANGED sample /\ schema' = schema /\ db' = db /\ sample' = sample
    BY <1>7 DEF allvars, vars
  <2>2. SampleInv'
    BY <1>1, <2>1, GrowthKeepsSample DEF SampleInv
  <2>3. QED BY <2>1, <2>2, CapsuleUnmoved
<1>8. QED BY <1>2, <1>3, <1>4, <1>5, <1>6, <1>7 DEF CapsuleNext

LEMMA SeedInvKept == CapsuleInv /\ SeedInv /\ [CapsuleNext]_allvars => SeedInv'
<1> SUFFICES ASSUME CapsuleInv, SeedInv, [CapsuleNext]_allvars PROVE SeedInv'
  OBVIOUS
<1>1. SeedOn
  BY DEF SeedOn, CapsuleInv, SampleInv
<1>2. CASE Others
  BY <1>1, <1>2, SeedKept DEF Others
<1>3. CASE Elsewhere
  <2>1. UNCHANGED <<schema, db, seed>>
    BY <1>3 DEF Elsewhere, SampleNext, CountRoot, PickRoot, NextDown, Down, NextUp, Ascend, Export, Samples
  <2>2. QED BY <2>1, SeedStays
<1>4. CASE Create
  <2>1. UNCHANGED vars
    BY <1>4 DEF Create, Inspect, DumpSchema, AddSample, AddVolume, AddManifest, CreateFails, Writes
  <2>2. QED BY <2>1, SeedStays DEF vars
<1>5. CASE Load
  <2>1. CASE Check \/ LoadFails \/ PutArchives
    BY <2>1, SeedStays DEF Check, LoadFails, PutArchives, Loads, vars
  <2>2. CASE EnsureImage
    BY <2>2, SeedStays DEF EnsureImage, Loads, vars
  <2>3. CASE CreateContainer
    BY <2>3, SeedStays DEF CreateContainer, Loads, vars
  <2>4. CASE Replay \/ RunScript
    BY <2>4, SeedStays DEF Replay, RunScript, Loads, vars
  <2>5. QED BY <1>5, <2>1, <2>2, <2>3, <2>4 DEF Load
<1>6. CASE Again \/ Prune \/ UNCHANGED allvars
  BY <1>6, SeedStays DEF Again, Prune, Loads, allvars, vars
<1>7. QED BY <1>2, <1>3, <1>4, <1>5, <1>6 DEF CapsuleNext

LEMMA SeedInitially == AloneInit \/ CapsuleInit => SeedInv
BY SeedBegins DEF AloneInit, Init, CapsuleInit

\* A sample is referentially complete when it is done, though the application
\* and `db seed` insert rows between its queries; and a load that reports the
\* schema and the sample has restored those rows: for every schema, database
\* and sequence of random roots.
THEOREM SamplesAreWhole == CapsuleSpec => []SampleIsWhole
<1>1. CapsuleInv => SampleIsWhole
  <2> SUFFICES ASSUME CapsuleInv PROVE SampleIsWhole
    OBVIOUS
  <2>1. sample.at = "done" => Refers(schema, sample.out)
    BY DoneIsComplete DEF CapsuleInv
  <2>2. load.report = "schema and sample" =>
          there.container.rows = file.rows /\ file.rows = sample.out /\ sample.at = "done"
    BY DEF CapsuleInv, Restored, FileSays
  <2>3. QED BY <2>1, <2>2 DEF SampleIsWhole
<1>2. QED BY <1>1, CapsuleBegins, CapsuleInvKept, SeedInitially, SeedInvKept, PTL DEF CapsuleSpec

\* Seeding the wanted tables, and the parents they need, fails only if others
\* insert meanwhile or the database is not one that can be filled: for every
\* schema and database, whatever is picked for a reference.
THEOREM SeedSucceeds == CapsuleSpec => []SeedFills
<1>1. SeedInv => SeedFills
  BY DEF SeedInv, SeedFills
<1>2. QED BY <1>1, CapsuleBegins, CapsuleInvKept, SeedInitially, SeedInvKept, PTL DEF CapsuleSpec

\* A container started from a capsule has no placeholder for a secret, lacks
\* none of its command, and what it lacks has been named, whatever failed and
\* was loaded again before.
THEOREM NoSecretIsLost == CapsuleSpec => []SecretsAccounted
<1>1. CapsuleInv => SecretsAccounted
  <2> SUFFICES ASSUME CapsuleInv, load.at \in {"replay", "script", "done"}
               PROVE  /\ there.container.placeholders = {} /\ load.missing = Secrets \ there.container.has
                      /\ load.missing \cap InCommand = {}
    BY DEF SecretsAccounted
  <2>1. there.container.has = load.supplied /\ there.container.placeholders = {} /\ load.missing = Secrets \ load.supplied
    BY DEF CapsuleInv, Filled
  <2>2. file.cut = Secrets /\ Unfilled("command", load.supplied) = {}
    BY PastCheck
  <2>3. QED BY <2>1, <2>2 DEF Unfilled
<1>2. QED BY <1>1, CapsuleBegins, CapsuleInvKept, SeedInitially, SeedInvKept, PTL DEF CapsuleSpec

----------------------------------------------------------------------------
(* Faults and game days.                                                   *)

FaultStep == {"pause", "unpause", "disconnect", "cut", "heal", "hold", "latency", "start", "wait", "delete", "untc", "done"}
SidecarAt == {"created", "started", "sleeping", "exited", "reverted", "gone"}
Faulty == {"pause", "disconnect", "latency"}

BoxState == [running: BOOLEAN, paused: BOOLEAN, on: SUBSET Network, slow: BOOLEAN]
Sidecars == [at: SidecarAt, of: Service, stale: BOOLEAN]
CardEntry == [of: Service, fault: Faulty, skipped: {"unhealthy", "failed", ""}, recovered: BOOLEAN,
              blast: SUBSET Service, detected: BOOLEAN]

OpState == [at: FaultStep, of: Service \cup {""}, todo: SUBSET Network, done: SUBSET Network,
            log: BOOLEAN, err: BOOLEAN, k: Nat]
DayState == [at: {"alone", "next", "pre", "watch", "join", "recover", "ended"},
             left: Seq(Service \X Faulty), todo: SUBSET Service, bad: SUBSET Service,
             affected: SUBSET Service, late: BOOLEAN, stop: BOOLEAN, card: Seq(CardEntry)]

ChaosShape ==
  /\ box \in [Service -> BoxState] /\ side \in Seq(Sidecars)
  /\ op \in OpState /\ day \in DayState

\* Where the fault command may be, with what.
OpShape(o) ==
  /\ o.at # "done" => o.of \in Service /\ o.k # 0
  /\ o.at = "latency" => o.k = Len(side) + 1
  /\ o.at \in {"start", "wait", "delete"} => o.k \in 1..Len(side) /\ side[o.k].of = o.of
  /\ o.at = "pause" => o.done = {}
  /\ o.at \in {"pause", "disconnect", "latency", "start", "wait"} => ~o.err

\* And where the game day is meanwhile.
DayShape ==
  /\ day.at \in {"next", "pre", "recover", "ended"} => op.at = "done"
  /\ day.at \in {"pre", "watch", "join", "recover"} => day.left # << >>
  /\ day.at \in {"watch", "join"} => op.of = Target
  /\ day.at \notin {"join", "ended"} => ~day.stop
  /\ day.at = "alone" /\ op = Quiet => side = << >> /\ \A s \in Service : ~box[s].slow

\* What the command at o is still to undo of its target.
Unpauses(o) == o.at = "unpause" \/ (o.at = "hold" /\ o.done = {})
Heals(o) == IF o.at \in {"cut", "heal", "hold"} THEN o.done ELSE {}
Untcs(o) == o.at = "untc" \/ (o.at \in {"wait", "delete"} /\ side[o.k].at # "reverted" /\ ~side[o.k].stale)

\* What is broken of service s in b is in ex, or the command is to undo it.
Undoes(s, b, o, ex) ==
  /\ b[s].paused => <<s, "paused">> \in ex \/ (o.of = s /\ Unpauses(o))
  /\ \A n \in nets[s] \ b[s].on : <<s, n>> \in ex \/ (o.of = s /\ n \in Heals(o))
  /\ b[s].slow => b[s].running /\ (<<s, "slow">> \in ex \/ (o.of = s /\ Untcs(o)))

AllUndone == \A s \in Service : Undoes(s, box, op, excused)

\* A sidecar whose script still runs is the command's own, or could not be stopped.
SidecarsKnown ==
  \A k \in DOMAIN side :
    side[k].at \in {"started", "sleeping"} /\ ~side[k].stale =>
      /\ box[side[k].of].running
      /\ <<side[k].of, "slow">> \in excused \/ (k = op.k /\ op.at \in {"wait", "delete"})

\* What could not be undone is in the report, or will be.
Told ==
  \A p \in excused :
    Reports(p[1]) \/ (op.err /\ op.of = p[1] /\ day.at \in {"alone", "watch", "join"})

ChaosInv == ChaosShape /\ OpShape(op) /\ DayShape /\ AllUndone /\ SidecarsKnown /\ Told

----------------------------------------------------------------------------

\* A call that changes one field of the target's container.
LEMMA SetsFacts ==
  ASSUME ChaosShape, op.of \in Service, NEW f \in {"paused", "on", "slow"}, NEW v,
         IF f = "on" THEN v \in SUBSET Network ELSE v \in BOOLEAN
  PROVE  /\ Sets(f, v) \in [Service -> BoxState]
         /\ \A s \in Service : s # op.of => Sets(f, v)[s] = box[s]
         /\ Sets(f, v)[op.of].running = box[op.of].running
         /\ Sets(f, v)[op.of].paused = IF f = "paused" THEN v ELSE box[op.of].paused
         /\ Sets(f, v)[op.of].on = IF f = "on" THEN v ELSE box[op.of].on
         /\ Sets(f, v)[op.of].slow = IF f = "slow" THEN v ELSE box[op.of].slow
<1>1. PICK r : r = box[op.of]
  OBVIOUS
<1>2. r \in BoxState
  BY <1>1 DEF ChaosShape
<1>3. PICK u : u = [r EXCEPT ![f] = v]
  OBVIOUS
<1>4. /\ u \in BoxState /\ u.running = r.running
      /\ u.paused = IF f = "paused" THEN v ELSE r.paused
      /\ u.on = IF f = "on" THEN v ELSE r.on
      /\ u.slow = IF f = "slow" THEN v ELSE r.slow
  <2>1. CASE f = "paused"
    <3>1. u = [r EXCEPT !.paused = v] /\ v \in BOOLEAN
      BY <1>3, <2>1
    <3>2. QED BY <1>2, <2>1, <3>1 DEF BoxState
  <2>2. CASE f = "on"
    <3>1. u = [r EXCEPT !.on = v] /\ v \in SUBSET Network
      BY <1>3, <2>2
    <3>2. QED BY <1>2, <2>2, <3>1 DEF BoxState
  <2>3. CASE f = "slow"
    <3>1. u = [r EXCEPT !.slow = v] /\ v \in BOOLEAN
      BY <1>3, <2>3
    <3>2. QED BY <1>2, <2>3, <3>1 DEF BoxState
  <2>4. QED BY <2>1, <2>2, <2>3
<1>5. Sets(f, v) = [box EXCEPT ![op.of] = u]
  BY <1>1, <1>3 DEF Sets
<1>6. QED BY <1>1, <1>4, <1>5 DEF ChaosShape

LEMMA SideFacts ==
  ASSUME ChaosShape, NEW k \in DOMAIN side
  PROVE  k \in 1..Len(side) /\ side[k] \in Sidecars /\ side[k].of \in Service
<1>1. side \in Seq(Sidecars)
  BY DEF ChaosShape
<1>2. k \in 1..Len(side)
  BY <1>1
<1>3. side[k] \in Sidecars
  BY <1>1, <1>2
<1>4. QED BY <1>2, <1>3 DEF Sidecars

\* What a call can come to: it is made, or it fails, with its effect or without.
LEMMA CallFacts ==
  ASSUME NEW can \in BOOLEAN, NEW b, NEW piece, NEW good, NEW bad, Call(can, b, piece, good, bad)
  PROVE  /\ excused \subseteq excused'
         /\ \/ can /\ box' = b /\ op' = good /\ excused' = excused
            \/ /\ op' = bad
               /\ \A p \in excused' : p \in excused \/ p[1] = op.of
               /\ box' = box \/ (can /\ box' = b)
               /\ (~can /\ box' = box) \/ (<<op.of, piece>> \in Broken(box') => <<op.of, piece>> \in excused')
<1>1. PICK x : x = <<op.of, piece>>
  OBVIOUS
<1>2. x[1] = op.of
  BY <1>1
<1>3. CASE can /\ box' = b /\ op' = good /\ UNCHANGED <<excused, faults>>
  BY <1>3
<1>4. CASE ~can /\ op' = bad /\ UNCHANGED <<box, excused, faults>>
  BY <1>4
<1>5. CASE /\ op' = bad /\ box' \in {box} \cup {y \in {b} : can}
           /\ excused' = excused \cup ({x} \cap Broken(box'))
  BY <1>1, <1>2, <1>5
<1>6. QED BY <1>1, <1>3, <1>4, <1>5 DEF Call

\* A step of the command that leaves the sidecars alone keeps the invariant
\* when it accounts for what is broken of the target.
LEMMA CommandStep ==
  ASSUME ChaosInv, UNCHANGED <<side, day>>, op.at # "done", op' \in OpState, OpShape(op'),
         op.at \in {"wait", "delete"} => op'.at \in {"wait", "delete"},
         op'.of = op.of, op'.k = op.k, op.err => op'.err,
         box' \in [Service -> BoxState], \A s \in Service : s # op.of => box'[s] = box[s],
         box'[op.of].running = box[op.of].running,
         excused \subseteq excused', \A p \in excused' : p \in excused \/ (p[1] = op.of /\ op'.err),
         Undoes(op.of, box', op', excused')
  PROVE  ChaosInv'
<1>1. op.of \in Service /\ op.k # 0
  BY DEF ChaosInv, OpShape
<1>2. day.at \in {"alone", "watch", "join"}
  BY DEF ChaosInv, DayShape, ChaosShape, DayState
<1>3. ChaosShape' /\ OpShape(op)'
  BY DEF ChaosInv, ChaosShape, OpShape
<1>4. DayShape'
  <2>1. Quiet.k = 0
    BY DEF Quiet
  <2>2. op # Quiet /\ op' # Quiet
    BY <1>1, <2>1
  <2>3. QED BY <1>2, <2>2 DEF ChaosInv, DayShape, Target
<1>5. AllUndone'
  <2> SUFFICES ASSUME NEW s \in Service PROVE Undoes(s, box, op, excused)'
    BY DEF AllUndone
  <2>1. CASE s = op.of
    BY <2>1 DEF Undoes, Unpauses, Heals, Untcs
  <2>2. CASE s # op.of
    <3>1. Undoes(s, box, op, excused)
      BY DEF ChaosInv, AllUndone
    <3>2. box'[s] = box[s]
      BY <2>2
    <3>3. QED BY <2>2, <3>1, <3>2 DEF Undoes
  <2>3. QED BY <2>1, <2>2
<1>6. SidecarsKnown'
  <2> SUFFICES ASSUME NEW k \in DOMAIN side, side[k].at \in {"started", "sleeping"}, ~side[k].stale
               PROVE  /\ box'[side[k].of].running
                      /\ <<side[k].of, "slow">> \in excused' \/ (k = op'.k /\ op'.at \in {"wait", "delete"})
    BY DEF SidecarsKnown
  <2>1. /\ box[side[k].of].running
        /\ <<side[k].of, "slow">> \in excused \/ (k = op.k /\ op.at \in {"wait", "delete"})
    BY DEF ChaosInv, SidecarsKnown
  <2>2. side[k].of \in Service
    BY SideFacts DEF ChaosInv
  <2>3. QED BY <2>1, <2>2
<1>7. Told'
  <2> SUFFICES ASSUME NEW p \in excused'
               PROVE  Reports(p[1]) \/ (op'.err /\ op'.of = p[1])
    BY <1>2 DEF Told, Reports
  <2>1. p \in excused => Reports(p[1]) \/ (op.err /\ op.of = p[1])
    BY DEF ChaosInv, Told
  <2>2. QED BY <2>1
<1>8. QED BY <1>3, <1>4, <1>5, <1>6, <1>7 DEF ChaosInv

\* A call to the daemon: its outcomes account for what is broken.
LEMMA CallStep ==
  ASSUME ChaosInv, UNCHANGED <<side, day>>, op.at \notin {"done", "wait", "delete"},
         NEW can \in BOOLEAN, NEW b, NEW piece, NEW good \in OpState, NEW bad \in OpState,
         Call(can, b, piece, good, bad), OpShape(good), OpShape(bad),
         good.of = op.of, bad.of = op.of, good.k = op.k, bad.k = op.k, op.err => good.err, bad.err,
         b \in [Service -> BoxState], \A s \in Service : s # op.of => b[s] = box[s],
         b[op.of].running = box[op.of].running,
         can => Undoes(op.of, b, good, excused),
         ~can => Undoes(op.of, box, bad, excused),
         \A ex, bx : /\ excused \subseteq ex /\ (bx = box \/ (can /\ bx = b))
                     /\ <<op.of, piece>> \in Broken(bx) => <<op.of, piece>> \in ex
                     => Undoes(op.of, bx, bad, ex)
  PROVE  ChaosInv'
<1>1. /\ excused \subseteq excused'
      /\ \/ can /\ box' = b /\ op' = good /\ excused' = excused
         \/ /\ op' = bad
            /\ \A p \in excused' : p \in excused \/ p[1] = op.of
            /\ box' = box \/ (can /\ box' = b)
            /\ (~can /\ box' = box) \/ (<<op.of, piece>> \in Broken(box') => <<op.of, piece>> \in excused')
  BY CallFacts
<1>2. box \in [Service -> BoxState]
  BY DEF ChaosInv, ChaosShape
<1>3. op' \in {good, bad} /\ box' \in {box, b}
  BY <1>1
<1>4. /\ op'.of = op.of /\ op'.k = op.k /\ (op.err => op'.err)
      /\ op' \in OpState /\ OpShape(op') /\ box' \in [Service -> BoxState]
      /\ \A p \in excused' : p \in excused \/ (p[1] = op.of /\ op'.err)
  BY <1>1, <1>2, <1>3
<1>5. Undoes(op.of, box', op', excused')
  <2>1. CASE can /\ box' = b /\ op' = good /\ excused' = excused
    BY <2>1
  <2>2. CASE ~can /\ op' = bad /\ box' = box
    BY <1>1, <2>2 DEF Undoes
  <2>3. CASE /\ op' = bad /\ (box' = box \/ (can /\ box' = b))
             /\ <<op.of, piece>> \in Broken(box') => <<op.of, piece>> \in excused'
    BY <1>1, <2>3
  <2>4. QED BY <1>1, <2>1, <2>2, <2>3
<1>6. /\ \A s \in Service : s # op.of => box'[s] = box[s]
      /\ box'[op.of].running = box[op.of].running
  BY <1>3
<1>7. QED BY <1>1, <1>4, <1>5, <1>6, CommandStep

LEMMA PauseStep == ChaosInv /\ Pause => ChaosInv'
<1> SUFFICES ASSUME ChaosInv, Pause PROVE ChaosInv'
  OBVIOUS
<1>1. op.at = "pause" /\ op.of \in Service /\ UNCHANGED <<side, day>> /\ op.done = {} /\ ~op.err /\ op.k # 0
  BY DEF Pause, ChaosInv, OpShape
<1>2. PICK b, good, bad : b = Sets("paused", TRUE) /\ good = Goes("hold") /\ bad = Raised("done")
  OBVIOUS
<1>3. /\ b \in [Service -> BoxState]
      /\ \A s \in Service : s # op.of => b[s] = box[s]
      /\ b[op.of].running = box[op.of].running /\ b[op.of].slow = box[op.of].slow
      /\ b[op.of].on = box[op.of].on /\ b[op.of].paused = TRUE
  BY <1>1, <1>2, SetsFacts DEF ChaosInv
<1>4. /\ good \in OpState /\ good.at = "hold" /\ good.of = op.of /\ good.k = op.k /\ good.done = {} /\ ~good.err
      /\ bad \in OpState /\ bad.at = "done" /\ bad.of = op.of /\ bad.k = op.k /\ bad.err
  BY <1>1, <1>2 DEF ChaosInv, ChaosShape, OpState, FaultStep, Goes, Raised
<1>5. OpShape(good) /\ OpShape(bad)
  BY <1>1, <1>4 DEF OpShape
<1>6. Undoes(op.of, box, op, excused)
  BY <1>1 DEF ChaosInv, AllUndone
<1>7. Undoes(op.of, b, good, excused)
  BY <1>1, <1>3, <1>4, <1>6 DEF Undoes, Unpauses, Heals, Untcs
<1>8. ASSUME NEW ex, NEW bx, excused \subseteq ex, bx = box \/ bx = b,
             <<op.of, "paused">> \in Broken(bx) => <<op.of, "paused">> \in ex
      PROVE  Undoes(op.of, bx, bad, ex)
  <2>1. CASE bx = box
    BY <1>1, <1>4, <1>6, <1>8, <2>1 DEF Undoes, Unpauses, Heals, Untcs
  <2>2. CASE bx = b
    <3>1. <<op.of, "paused">> \in Broken(b)
      BY <1>1, <1>3 DEF Broken
    <3>2. QED BY <1>1, <1>3, <1>4, <1>6, <1>8, <2>2, <3>1 DEF Undoes, Unpauses, Heals, Untcs
  <2>3. QED BY <1>8, <2>1, <2>2
<1>9. Undoes(op.of, box, bad, excused)
  BY <1>1, <1>4, <1>6 DEF Undoes, Unpauses, Heals, Untcs
<1>10. Call(Running /\ ~box[op.of].paused, b, "paused", good, bad)
  BY <1>2 DEF Pause
<1>11. QED BY <1>1, <1>3, <1>4, <1>5, <1>7, <1>8, <1>9, <1>10, CallStep

LEMMA UnpauseStep == ChaosInv /\ Unpause => ChaosInv'
<1> SUFFICES ASSUME ChaosInv, Unpause PROVE ChaosInv'
  OBVIOUS
<1>1. op.at = "unpause" /\ op.of \in Service /\ UNCHANGED <<side, day>> /\ op.k # 0
  BY DEF Unpause, ChaosInv, OpShape
<1>2. PICK b, good, bad : b = Sets("paused", FALSE) /\ good = Goes("done") /\ bad = Raised("done")
  OBVIOUS
<1>3. /\ b \in [Service -> BoxState]
      /\ \A s \in Service : s # op.of => b[s] = box[s]
      /\ b[op.of].running = box[op.of].running /\ b[op.of].slow = box[op.of].slow
      /\ b[op.of].on = box[op.of].on /\ b[op.of].paused = FALSE
  BY <1>1, <1>2, SetsFacts DEF ChaosInv
<1>4. /\ good \in OpState /\ good.at = "done" /\ good.of = op.of /\ good.k = op.k /\ good.err = op.err
      /\ bad \in OpState /\ bad.at = "done" /\ bad.of = op.of /\ bad.k = op.k /\ bad.err
  BY <1>1, <1>2 DEF ChaosInv, ChaosShape, OpState, FaultStep, Goes, Raised
<1>5. OpShape(good) /\ OpShape(bad)
  BY <1>1, <1>4 DEF OpShape
<1>6. Undoes(op.of, box, op, excused)
  BY <1>1 DEF ChaosInv, AllUndone
<1>7. \A ex : excused \subseteq ex => Undoes(op.of, b, good, ex) /\ Undoes(op.of, b, bad, ex)
  BY <1>1, <1>3, <1>4, <1>6 DEF Undoes, Unpauses, Heals, Untcs
<1>8. ~box[op.of].paused => Undoes(op.of, box, bad, excused)
  BY <1>1, <1>4, <1>6 DEF Undoes, Unpauses, Heals, Untcs
<1>9. ASSUME NEW ex, excused \subseteq ex, <<op.of, "paused">> \in Broken(box) => <<op.of, "paused">> \in ex
      PROVE  Undoes(op.of, box, bad, ex)
  <2>1. box[op.of].paused => <<op.of, "paused">> \in Broken(box)
    BY <1>1 DEF Broken
  <2>2. QED BY <1>1, <1>4, <1>6, <1>9, <2>1 DEF Undoes, Unpauses, Heals, Untcs
<1>10. Call(box[op.of].paused, b, "paused", good, bad) /\ box[op.of].paused \in BOOLEAN
  BY <1>1, <1>2 DEF Unpause, ChaosInv, ChaosShape, BoxState
<1>11. QED BY <1>1, <1>3, <1>4, <1>5, <1>7, <1>8, <1>9, <1>10, CallStep

LEMMA UntcStep == ChaosInv /\ Untc => ChaosInv'
<1> SUFFICES ASSUME ChaosInv, Untc PROVE ChaosInv'
  OBVIOUS
<1>1. op.at = "untc" /\ op.of \in Service /\ UNCHANGED <<side, day>> /\ op.k # 0
  BY DEF Untc, ChaosInv, OpShape
<1>2. PICK b, good, bad : b = Sets("slow", FALSE) /\ good = Goes("done") /\ bad = Raised("done")
  OBVIOUS
<1>3. /\ b \in [Service -> BoxState]
      /\ \A s \in Service : s # op.of => b[s] = box[s]
      /\ b[op.of].running = box[op.of].running /\ b[op.of].paused = box[op.of].paused
      /\ b[op.of].on = box[op.of].on /\ b[op.of].slow = FALSE
  BY <1>1, <1>2, SetsFacts DEF ChaosInv
<1>4. /\ good \in OpState /\ good.at = "done" /\ good.of = op.of /\ good.k = op.k /\ good.err = op.err
      /\ bad \in OpState /\ bad.at = "done" /\ bad.of = op.of /\ bad.k = op.k /\ bad.err
  BY <1>1, <1>2 DEF ChaosInv, ChaosShape, OpState, FaultStep, Goes, Raised
<1>5. OpShape(good) /\ OpShape(bad)
  BY <1>1, <1>4 DEF OpShape
<1>6. Undoes(op.of, box, op, excused)
  BY <1>1 DEF ChaosInv, AllUndone
<1>7. \A ex : excused \subseteq ex => Undoes(op.of, b, good, ex) /\ Undoes(op.of, b, bad, ex)
  BY <1>1, <1>3, <1>4, <1>6 DEF Undoes, Unpauses, Heals, Untcs
<1>8. ~Running => Undoes(op.of, box, bad, excused)
  BY <1>1, <1>4, <1>6 DEF Undoes, Unpauses, Heals, Untcs, Running
<1>9. ASSUME NEW ex, excused \subseteq ex, <<op.of, "slow">> \in Broken(box) => <<op.of, "slow">> \in ex
      PROVE  Undoes(op.of, box, bad, ex)
  <2>1. box[op.of].slow => <<op.of, "slow">> \in Broken(box)
    BY <1>1 DEF Broken
  <2>2. QED BY <1>1, <1>4, <1>6, <1>9, <2>1 DEF Undoes, Unpauses, Heals, Untcs
<1>10. Call(Running, b, "slow", good, bad) /\ Running \in BOOLEAN
  BY <1>1, <1>2 DEF Untc, Running, ChaosInv, ChaosShape, BoxState
<1>11. QED BY <1>1, <1>3, <1>4, <1>5, <1>7, <1>8, <1>9, <1>10, CallStep

LEMMA CutStep == ChaosInv /\ Cut => ChaosInv'
<1> SUFFICES ASSUME ChaosInv, Cut PROVE ChaosInv'
  OBVIOUS
<1>1. op.at = "cut" /\ op.of \in Service /\ UNCHANGED <<side, day>> /\ op.k # 0 /\ op \in OpState
  BY DEF Cut, ChaosInv, OpShape, ChaosShape
<1>2. PICK n \in op.todo :
        Call(n \in box[op.of].on, Sets("on", box[op.of].on \ {n}), n,
             [op EXCEPT !.todo = @ \ {n}, !.done = @ \cup {n}, !.at = IF op.todo = {n} THEN "hold" ELSE "cut"],
             Raised("heal"))
  BY DEF Cut
<1>3. PICK on : on = box[op.of].on \ {n}
  OBVIOUS
<1>4. PICK b : b = Sets("on", on)
  OBVIOUS
<1>5. PICK at : at = IF op.todo = {n} THEN "hold" ELSE "cut"
  OBVIOUS
<1>6. PICK good, bad :
        /\ good = [op EXCEPT !.todo = @ \ {n}, !.done = @ \cup {n}, !.at = at]
        /\ bad = Raised("heal")
  OBVIOUS
<1>7. n \in Network /\ on \in SUBSET Network
  BY <1>1, <1>2, <1>3 DEF ChaosInv, ChaosShape, OpState, BoxState
<1>8. /\ b \in [Service -> BoxState]
      /\ \A s \in Service : s # op.of => b[s] = box[s]
      /\ b[op.of].running = box[op.of].running /\ b[op.of].paused = box[op.of].paused
      /\ b[op.of].on = on /\ b[op.of].slow = box[op.of].slow
  BY <1>1, <1>4, <1>7, SetsFacts DEF ChaosInv
<1>9. /\ good \in OpState /\ good.at \in {"hold", "cut"} /\ good.of = op.of /\ good.k = op.k /\ good.err = op.err
      /\ good.done = op.done \cup {n}
  BY <1>1, <1>5, <1>6, <1>7 DEF OpState, FaultStep
<1>10. /\ bad \in OpState /\ bad.at = "heal" /\ bad.of = op.of /\ bad.k = op.k /\ bad.err
       /\ bad.done = op.done
  BY <1>1, <1>6 DEF OpState, FaultStep, Raised
<1>11. OpShape(good) /\ OpShape(bad)
  BY <1>1, <1>9, <1>10 DEF OpShape
<1>12. Undoes(op.of, box, op, excused)
  BY <1>1 DEF ChaosInv, AllUndone
<1>13. \A ex : excused \subseteq ex => Undoes(op.of, b, good, ex)
  BY <1>1, <1>3, <1>8, <1>9, <1>12 DEF Undoes, Unpauses, Heals, Untcs
<1>14. \A ex : excused \subseteq ex => Undoes(op.of, box, bad, ex)
  BY <1>1, <1>10, <1>12 DEF Undoes, Unpauses, Heals, Untcs
<1>15. ASSUME NEW ex, excused \subseteq ex, <<op.of, n>> \in Broken(b) => <<op.of, n>> \in ex
       PROVE  Undoes(op.of, b, bad, ex)
  <2>1. n \in nets[op.of] => <<op.of, n>> \in ex
    BY <1>1, <1>3, <1>7, <1>8, <1>15 DEF Broken
  <2>2. QED BY <1>1, <1>3, <1>8, <1>10, <1>12, <1>15, <2>1 DEF Undoes, Unpauses, Heals, Untcs
<1>16. PICK can \in BOOLEAN : can <=> n \in box[op.of].on
  OBVIOUS
<1>17. Call(can, b, n, good, bad)
  BY <1>2, <1>3, <1>4, <1>5, <1>6, <1>16
<1>18. \A ex, bx : /\ excused \subseteq ex /\ (bx = box \/ (can /\ bx = b))
                   /\ <<op.of, n>> \in Broken(bx) => <<op.of, n>> \in ex
                   => Undoes(op.of, bx, bad, ex)
  BY <1>14, <1>15
<1>19. QED BY <1>1, <1>8, <1>9, <1>10, <1>11, <1>13, <1>14, <1>17, <1>18, CallStep

LEMMA HealStep == ChaosInv /\ Heal => ChaosInv'
<1> SUFFICES ASSUME ChaosInv, Heal PROVE ChaosInv'
  OBVIOUS
<1>1. op.at = "heal" /\ op.of \in Service /\ UNCHANGED <<side, day>> /\ op.k # 0 /\ op \in OpState
  BY DEF Heal, ChaosInv, OpShape, ChaosShape
<1>2. Undoes(op.of, box, op, excused)
  BY <1>1 DEF ChaosInv, AllUndone
<1>3. CASE op.done = {} /\ op' = Goes("done") /\ UNCHANGED <<box, excused, faults>>
  <2>1. op' \in OpState /\ op'.at = "done" /\ op'.of = op.of /\ op'.k = op.k /\ op'.err = op.err
    BY <1>1, <1>3 DEF OpState, FaultStep, Goes
  <2>2. OpShape(op')
    BY <2>1 DEF OpShape
  <2>3. Undoes(op.of, box', op', excused')
    BY <1>1, <1>2, <1>3, <2>1 DEF Undoes, Unpauses, Heals, Untcs
  <2>4. box' \in [Service -> BoxState]
    BY <1>3 DEF ChaosInv, ChaosShape
  <2>5. QED BY <1>1, <1>3, <2>1, <2>2, <2>3, <2>4, CommandStep
<1>4. ASSUME NEW n \in op.done,
             Call(n \notin box[op.of].on, Sets("on", box[op.of].on \cup {n}), n, [op EXCEPT !.done = @ \ {n}], Healed(n))
      PROVE  ChaosInv'
  <2>1. PICK on : on = box[op.of].on \cup {n}
    OBVIOUS
  <2>2. PICK b : b = Sets("on", on)
    OBVIOUS
  <2>3. PICK good, bad : good = [op EXCEPT !.done = @ \ {n}] /\ bad = [op EXCEPT !.done = @ \ {n}, !.err = TRUE]
    OBVIOUS
  <2>4. n \in Network /\ on \in SUBSET Network
    BY <1>1, <2>1 DEF ChaosInv, ChaosShape, OpState, BoxState
  <2>5. /\ b \in [Service -> BoxState]
        /\ \A s \in Service : s # op.of => b[s] = box[s]
        /\ b[op.of].running = box[op.of].running /\ b[op.of].paused = box[op.of].paused
        /\ b[op.of].on = on /\ b[op.of].slow = box[op.of].slow
    BY <1>1, <2>2, <2>4, SetsFacts DEF ChaosInv
  <2>6. /\ good \in OpState /\ good.at = "heal" /\ good.of = op.of /\ good.k = op.k /\ good.err = op.err
        /\ good.done = op.done \ {n}
    BY <1>1, <2>3 DEF OpState
  <2>7. /\ bad \in OpState /\ bad.at = "heal" /\ bad.of = op.of /\ bad.k = op.k /\ bad.err
        /\ bad.done = op.done \ {n}
    BY <1>1, <2>3 DEF OpState
  <2>8. OpShape(good) /\ OpShape(bad)
    BY <1>1, <2>6, <2>7 DEF OpShape
  <2>9. \A ex : excused \subseteq ex => Undoes(op.of, b, good, ex) /\ Undoes(op.of, b, bad, ex)
    BY <1>1, <1>2, <2>1, <2>5, <2>6, <2>7 DEF Undoes, Unpauses, Heals, Untcs
  <2>10. n \in box[op.of].on => Undoes(op.of, box, bad, excused)
    BY <1>1, <1>2, <2>7 DEF Undoes, Unpauses, Heals, Untcs
  <2>11. ASSUME NEW ex, excused \subseteq ex, <<op.of, n>> \in Broken(box) => <<op.of, n>> \in ex
         PROVE  Undoes(op.of, box, bad, ex)
    <3>1. n \in nets[op.of] \ box[op.of].on => <<op.of, n>> \in ex
      BY <1>1, <2>4, <2>11 DEF Broken
    <3>2. QED BY <1>1, <1>2, <2>7, <2>11, <3>1 DEF Undoes, Unpauses, Heals, Untcs
  <2>12. PICK can \in BOOLEAN : can <=> n \notin box[op.of].on
    OBVIOUS
  <2>13. Call(can, b, n, good, bad)
    BY <1>4, <2>1, <2>2, <2>3, <2>12 DEF Healed
  <2>14. \A ex, bx : /\ excused \subseteq ex /\ (bx = box \/ (can /\ bx = b))
                     /\ <<op.of, n>> \in Broken(bx) => <<op.of, n>> \in ex
                     => Undoes(op.of, bx, bad, ex)
    BY <2>9, <2>11
  <2>15. QED BY <1>1, <2>5, <2>6, <2>7, <2>8, <2>9, <2>10, <2>12, <2>13, <2>14, CallStep
<1>5. QED BY <1>3, <1>4 DEF Heal

\* Steps of the command that touch no container and no sidecar.
LEMMA QuietSteps == ChaosInv /\ (ReadNetworks \/ Hold \/ Wait) => ChaosInv'
<1>1. ASSUME ChaosInv, UNCHANGED <<box, side, day, excused>>, op.at # "done", op' \in OpState, OpShape(op'),
             op.at \in {"wait", "delete"} => op'.at \in {"wait", "delete"},
             op'.of = op.of, op'.k = op.k, op.err => op'.err, Undoes(op.of, box, op', excused)
      PROVE  ChaosInv'
  <2>1. box' \in [Service -> BoxState]
    BY <1>1 DEF ChaosInv, ChaosShape
  <2>2. QED BY <1>1, <2>1, CommandStep
<1>2. ASSUME ChaosInv PROVE op \in OpState /\ (op.of \in Service => Undoes(op.of, box, op, excused))
  BY <1>2 DEF ChaosInv, ChaosShape, AllUndone
<1>3. ASSUME ChaosInv, ReadNetworks PROVE ChaosInv'
  <2>1. op.at = "disconnect" /\ op.of \in Service /\ op.k # 0 /\ ~op.err
    BY <1>3 DEF ReadNetworks, ChaosInv, OpShape
  <2>2. PICK ns : ns = box[op.of].on \cap op.todo
    OBVIOUS
  <2>3. ns \in SUBSET Network
    BY <1>2, <1>3, <2>2 DEF OpState
  <2>4. PICK at \in {"done", "cut"}, err \in BOOLEAN : op' = [op EXCEPT !.at = at, !.err = err, !.todo = ns] \/ op' = Raised("done")
    <3>1. \/ op' = [op EXCEPT !.at = IF ns = {} THEN "done" ELSE "cut", !.err = (ns = {}), !.todo = ns]
          \/ op' = Raised("done")
      BY <1>3, <2>2 DEF ReadNetworks
    <3>2. CASE ns = {}
      BY <3>1, <3>2
    <3>3. CASE ns # {}
      BY <3>1, <3>3
    <3>4. QED BY <3>2, <3>3
  <2>5. op' \in OpState /\ op'.at \in {"done", "cut"} /\ op'.of = op.of /\ op'.k = op.k
    BY <1>2, <1>3, <2>1, <2>3, <2>4 DEF OpState, FaultStep, Raised
  <2>6. OpShape(op') /\ Undoes(op.of, box, op', excused)
    BY <1>2, <1>3, <2>1, <2>5 DEF OpShape, Undoes, Unpauses, Heals, Untcs
  <2>7. UNCHANGED <<box, side, day, excused>>
    BY <1>3 DEF ReadNetworks
  <2>8. QED BY <1>1, <1>3, <2>1, <2>5, <2>6, <2>7
<1>4. ASSUME ChaosInv, Hold PROVE ChaosInv'
  <2>1. op.at = "hold" /\ op.of \in Service /\ op.k # 0 /\ UNCHANGED <<box, side, day, excused>>
    BY <1>4 DEF Hold, ChaosInv, OpShape
  <2>2. PICK at : at = IF op.done = {} THEN "unpause" ELSE "heal"
    OBVIOUS
  <2>3. op' = Goes(at) /\ at \in FaultStep
    BY <1>4, <2>2 DEF Hold, FaultStep
  <2>4. /\ op' \in OpState /\ op'.at = at /\ op'.of = op.of /\ op'.k = op.k /\ op'.err = op.err
        /\ op'.done = op.done
    BY <1>2, <1>4, <2>3 DEF OpState, Goes
  <2>5. OpShape(op')
    BY <2>1, <2>2, <2>4 DEF OpShape
  <2>6. Undoes(op.of, box, op', excused)
    BY <1>2, <1>4, <2>1, <2>2, <2>4 DEF Undoes, Unpauses, Heals, Untcs
  <2>7. QED BY <1>1, <1>4, <2>1, <2>4, <2>5, <2>6
<1>5. ASSUME ChaosInv, Wait PROVE ChaosInv'
  <2>1. /\ op.at = "wait" /\ op.of \in Service /\ op.k # 0 /\ ~op.err /\ UNCHANGED <<box, side, day, excused>>
        /\ op.k \in 1..Len(side) /\ side[op.k].of = op.of
    BY <1>5 DEF Wait, ChaosInv, OpShape
  <2>2. PICK log \in BOOLEAN, err \in BOOLEAN : op' = [op EXCEPT !.at = "delete", !.log = log, !.err = err]
    <3>1. \/ op' = [op EXCEPT !.at = "delete", !.log = TRUE, !.err = (Mine.at = "exited")]
          \/ op' = [op EXCEPT !.at = "delete", !.err = TRUE]
      BY <1>5 DEF Wait, Raised
    <3>2. CASE op' = [op EXCEPT !.at = "delete", !.err = TRUE]
      <4>1. op' = [op EXCEPT !.at = "delete", !.log = op.log, !.err = TRUE] /\ op.log \in BOOLEAN
        BY <1>2, <1>5, <3>2 DEF OpState
      <4>2. QED BY <4>1
    <3>3. CASE op' = [op EXCEPT !.at = "delete", !.log = TRUE, !.err = (Mine.at = "exited")]
      <4>1. CASE Mine.at = "exited"
        BY <3>3, <4>1
      <4>2. CASE Mine.at # "exited"
        BY <3>3, <4>2
      <4>3. QED BY <4>1, <4>2
    <3>4. QED BY <3>1, <3>2, <3>3
  <2>3. op' \in OpState /\ op'.at = "delete" /\ op'.of = op.of /\ op'.k = op.k
    BY <1>2, <1>5, <2>2 DEF OpState, FaultStep
  <2>4. OpShape(op') /\ Undoes(op.of, box, op', excused)
    BY <1>2, <1>5, <2>1, <2>3 DEF OpShape, Undoes, Unpauses, Heals, Untcs
  <2>5. QED BY <1>1, <1>5, <2>1, <2>3, <2>4
<1>6. QED BY <1>3, <1>4, <1>5

\* Ctrl-C between the calls of a command run alone.
LEMMA InterruptStep == ChaosInv /\ Interrupt => ChaosInv'
<1> SUFFICES ASSUME ChaosInv, Interrupt PROVE ChaosInv'
  OBVIOUS
<1>1. /\ op.at \in {"cut", "hold", "wait", "heal"} /\ UNCHANGED <<box, side, day>>
      /\ op.of \in Service /\ op.k # 0 /\ op \in OpState
  BY DEF Interrupt, ChaosInv, ChaosShape, OpShape
<1>2. PICK at :
        /\ at = (CASE op.at = "cut" -> "heal" [] op.at = "wait" -> "delete" [] op.at = "heal" -> "done"
                   [] OTHER -> IF op.done = {} THEN "unpause" ELSE "heal")
  OBVIOUS
<1>3. op' = Raised(at) /\ at \in FaultStep
  BY <1>1, <1>2 DEF Interrupt, FaultStep
<1>4. excused' = excused \cup (IF op.at = "heal" THEN {op.of} \X op.done ELSE {})
  BY <1>1 DEF Interrupt
<1>5. op' \in OpState /\ op'.at = at /\ op'.of = op.of /\ op'.k = op.k /\ op'.err /\ op'.done = op.done
  BY <1>1, <1>3 DEF OpState, Raised
<1>6. OpShape(op')
  BY <1>1, <1>2, <1>5 DEF OpShape, ChaosInv
<1>7. Undoes(op.of, box, op, excused)
  BY <1>1 DEF ChaosInv, AllUndone
<1>8. Undoes(op.of, box', op', excused')
  <2>1. CASE op.at = "heal"
    <3>1. \A n \in op.done : <<op.of, n>> \in excused'
      BY <1>4, <2>1
    <3>2. QED BY <1>1, <1>2, <1>4, <1>5, <1>7, <2>1, <3>1 DEF Undoes, Unpauses, Heals, Untcs
  <2>2. CASE op.at # "heal"
    BY <1>1, <1>2, <1>4, <1>5, <1>7, <2>2 DEF Undoes, Unpauses, Heals, Untcs
  <2>3. QED BY <2>1, <2>2
<1>9. excused \subseteq excused' /\ \A p \in excused' : p \in excused \/ (p[1] = op.of /\ op'.err)
  BY <1>4, <1>5
<1>10. box' \in [Service -> BoxState] /\ (op.at \in {"wait", "delete"} => op'.at \in {"wait", "delete"})
  BY <1>1, <1>2, <1>5 DEF ChaosInv, ChaosShape
<1>11. QED BY <1>1, <1>5, <1>6, <1>8, <1>9, <1>10, CommandStep

\* A step of the command that changes its own sidecar only.
LEMMA OwnSidecarStep ==
  ASSUME ChaosInv, UNCHANGED <<box, day>>, op.at \in {"latency", "start", "delete"},
         op' \in OpState, OpShape(op)', op'.of = op.of, op'.k = op.k, op.err => op'.err,
         side' \in Seq(Sidecars), \A k \in 1..Len(side') : k # op.k => k \in 1..Len(side) /\ side'[k] = side[k],
         excused \subseteq excused', \A p \in excused' : p \in excused \/ (p[1] = op.of /\ op'.err),
         Untcs(op) => Untcs(op)' \/ <<op.of, "slow">> \in excused',
         \/ op.k \notin 1..Len(side')
         \/ side'[op.k].at \notin {"started", "sleeping"}
         \/ side'[op.k].stale
         \/ /\ side'[op.k].of \in Service /\ box[side'[op.k].of].running
            /\ op'.at \in {"wait", "delete"} \/ <<side'[op.k].of, "slow">> \in excused'
  PROVE  ChaosInv'
<1>1. op.of \in Service /\ op.k # 0
  BY DEF ChaosInv, OpShape
<1>2. day.at \in {"alone", "watch", "join"}
  BY DEF ChaosInv, DayShape, ChaosShape, DayState
<1>3. ChaosShape'
  BY DEF ChaosInv, ChaosShape
<1>4. DayShape'
  <2>1. Quiet.k = 0
    BY DEF Quiet
  <2>2. op # Quiet /\ op' # Quiet
    BY <1>1, <2>1
  <2>3. QED BY <1>2, <2>2 DEF ChaosInv, DayShape, Target
<1>5. AllUndone'
  <2> SUFFICES ASSUME NEW s \in Service PROVE Undoes(s, box, op, excused)'
    BY DEF AllUndone
  <2>1. Undoes(s, box, op, excused)
    BY DEF ChaosInv, AllUndone
  <2>2. s = op.of => ~Unpauses(op) /\ Heals(op) = {}
    BY DEF Unpauses, Heals
  <2>3. QED BY <2>1, <2>2 DEF Undoes
<1>6. SidecarsKnown'
  <2> SUFFICES ASSUME NEW k \in DOMAIN side', side'[k].at \in {"started", "sleeping"}, ~side'[k].stale
               PROVE  /\ box[side'[k].of].running
                      /\ <<side'[k].of, "slow">> \in excused' \/ (k = op'.k /\ op'.at \in {"wait", "delete"})
    BY DEF SidecarsKnown
  <2>1. k \in 1..Len(side')
    OBVIOUS
  <2>2. CASE k = op.k
    BY <2>1, <2>2
  <2>3. CASE k # op.k
    <3>1. k \in 1..Len(side) /\ side'[k] = side[k]
      BY <2>1, <2>3
    <3>2. k \in DOMAIN side
      BY <3>1 DEF ChaosInv, ChaosShape
    <3>3. box[side[k].of].running /\ <<side[k].of, "slow">> \in excused
      BY <2>3, <3>1, <3>2 DEF ChaosInv, SidecarsKnown
    <3>4. QED BY <3>1, <3>3
  <2>4. QED BY <2>2, <2>3
<1>7. Told'
  <2> SUFFICES ASSUME NEW p \in excused'
               PROVE  Reports(p[1]) \/ (op'.err /\ op'.of = p[1])
    BY <1>2 DEF Told, Reports
  <2>1. p \in excused => Reports(p[1]) \/ (op.err /\ op.of = p[1])
    BY DEF ChaosInv, Told
  <2>2. QED BY <2>1
<1>8. QED BY <1>3, <1>4, <1>5, <1>6, <1>7 DEF ChaosInv

LEMMA SidecarStep == ChaosInv /\ Sidecar => ChaosInv'
<1> SUFFICES ASSUME ChaosInv, Sidecar PROVE ChaosInv'
  OBVIOUS
<1>1. /\ op.at = "latency" /\ op.of \in Service /\ UNCHANGED <<box, day, excused>> /\ ~op.err
      /\ op \in OpState /\ side \in Seq(Sidecars) /\ op.k = Len(side) + 1
  BY DEF Sidecar, ChaosInv, ChaosShape, OpShape
<1>2. PICK new : new = [at |-> "created", of |-> op.of, stale |-> FALSE]
  OBVIOUS
<1>3. new \in Sidecars /\ new.at = "created" /\ new.of = op.of
  BY <1>1, <1>2 DEF Sidecars, SidecarAt
<1>4. CASE side' = Append(side, new) /\ op' = Goes("start")
  <2>1. /\ op' \in OpState /\ op'.at = "start" /\ op'.of = op.of /\ op'.k = op.k /\ op'.err = op.err
    BY <1>1, <1>4 DEF OpState, FaultStep, Goes
  <2>2. /\ side' \in Seq(Sidecars) /\ Len(side') = Len(side) + 1 /\ side'[Len(side) + 1] = new
        /\ \A k \in 1..Len(side) : side'[k] = side[k]
    BY <1>1, <1>3, <1>4, AppendProperties
  <2>3. op.k \in 1..Len(side') /\ side'[op.k] = new /\ op.k # 0
    BY <1>1, <2>2
  <2>4. OpShape(op)'
    BY <1>1, <1>3, <2>1, <2>3 DEF OpShape
  <2>5. \A k \in 1..Len(side') : k # op.k => k \in 1..Len(side) /\ side'[k] = side[k]
    BY <1>1, <2>2
  <2>6. ~Untcs(op)
    BY <1>1 DEF Untcs
  <2>7. QED BY <1>1, <1>3, <2>1, <2>2, <2>3, <2>4, <2>5, <2>6, OwnSidecarStep
<1>5. CASE op' = Raised("done") /\ UNCHANGED side
  <2>1. op' \in OpState /\ op'.at = "done" /\ op'.of = op.of /\ op'.k = op.k
    BY <1>1, <1>5 DEF OpState, FaultStep, Raised
  <2>2. OpShape(op')
    BY <2>1 DEF OpShape
  <2>3. Undoes(op.of, box', op', excused') /\ box' \in [Service -> BoxState]
    BY <1>1, <2>1 DEF Undoes, Unpauses, Heals, Untcs, ChaosInv, AllUndone, ChaosShape
  <2>4. QED BY <1>1, <1>5, <2>1, <2>2, <2>3, CommandStep
<1>6. QED BY <1>2, <1>4, <1>5 DEF Sidecar

\* What becomes of the command's own sidecar.
LEMMA OwnSidecar ==
  ASSUME ChaosShape, op.k \in 1..Len(side), NEW r \in Sidecars, side' = [side EXCEPT ![op.k] = r]
  PROVE  /\ side' \in Seq(Sidecars) /\ Len(side') = Len(side) /\ side'[op.k] = r
         /\ \A k \in 1..Len(side') : k # op.k => k \in 1..Len(side) /\ side'[k] = side[k]
BY ExceptSeq DEF ChaosShape

LEMMA StartSidecarStep == ChaosInv /\ StartSidecar => ChaosInv'
<1> SUFFICES ASSUME ChaosInv, StartSidecar PROVE ChaosInv'
  OBVIOUS
<1>1. /\ op.at = "start" /\ op.of \in Service /\ UNCHANGED <<box, day, excused>> /\ ~op.err
      /\ op \in OpState /\ side \in Seq(Sidecars) /\ op.k \in 1..Len(side) /\ side[op.k].of = op.of
  BY DEF StartSidecar, ChaosInv, ChaosShape, OpShape
<1>2. PICK r : r = [side[op.k] EXCEPT !.at = "started", !.stale = FALSE]
  OBVIOUS
<1>3. r \in Sidecars /\ r.of = op.of
  <2>1. side[op.k] \in Sidecars
    BY <1>1, ElementOfSeq
  <2>2. QED BY <1>1, <1>2, <2>1 DEF Sidecars, SidecarAt
<1>4. StartedSide = [side EXCEPT ![op.k] = r]
  BY <1>1, <1>2 DEF StartedSide
<1>5. /\ op' \in OpState /\ op'.at \in {"wait", "delete"} /\ op'.of = op.of /\ op'.k = op.k
      /\ op'.at = "wait" => ~op'.err
  <2>1. op' = Goes("wait") \/ op' = Raised("delete")
    BY DEF StartSidecar
  <2>2. QED BY <1>1, <2>1 DEF OpState, FaultStep, Goes, Raised
<1>6. ~Untcs(op)
  BY <1>1 DEF Untcs
<1>7. CASE side' = StartedSide /\ Running
  <2>1. /\ side' \in Seq(Sidecars) /\ Len(side') = Len(side) /\ side'[op.k] = r
        /\ \A k \in 1..Len(side') : k # op.k => k \in 1..Len(side) /\ side'[k] = side[k]
    BY <1>1, <1>3, <1>4, <1>7, OwnSidecar DEF ChaosInv
  <2>2. OpShape(op)'
    BY <1>1, <1>3, <1>5, <2>1 DEF OpShape
  <2>3. QED BY <1>1, <1>3, <1>5, <1>6, <1>7, <2>1, <2>2, OwnSidecarStep DEF Running
<1>8. CASE side' = side
  <2>1. OpShape(op')
    BY <1>1, <1>5 DEF OpShape
  <2>2. Undoes(op.of, box', op', excused') /\ box' \in [Service -> BoxState]
    BY <1>1, <1>5 DEF Undoes, Unpauses, Heals, Untcs, ChaosInv, AllUndone, ChaosShape
  <2>3. QED BY <1>1, <1>5, <1>8, <2>1, <2>2, CommandStep
<1>9. QED BY <1>7, <1>8 DEF StartSidecar

LEMMA DeleteSidecarStep == ChaosInv /\ DeleteSidecar => ChaosInv'
<1> SUFFICES ASSUME ChaosInv, DeleteSidecar PROVE ChaosInv'
  OBVIOUS
<1>1. /\ op.at = "delete" /\ op.of \in Service /\ UNCHANGED <<box, day>> /\ op.k # 0
      /\ op \in OpState /\ side \in Seq(Sidecars) /\ op.k \in 1..Len(side) /\ side[op.k].of = op.of
  BY DEF DeleteSidecar, ChaosInv, ChaosShape, OpShape
<1>2. PICK r : r = [side[op.k] EXCEPT !.at = "gone"]
  OBVIOUS
<1>3. side[op.k] \in Sidecars /\ r \in Sidecars /\ r.at = "gone"
  <2>1. side[op.k] \in Sidecars
    BY <1>1, ElementOfSeq
  <2>2. QED BY <1>1, <1>2, <2>1 DEF Sidecars, SidecarAt
<1>4. PICK gone : gone = [side EXCEPT ![op.k] = r]
  OBVIOUS
<1>5. gone = [side EXCEPT ![op.k].at = "gone"]
  BY <1>1, <1>2, <1>4
<1>6. PICK at : at = AfterDelete
  OBVIOUS
<1>7. /\ op' \in OpState /\ op'.at = at /\ at \in {"done", "untc"} /\ op'.of = op.of /\ op'.k = op.k
      /\ op.err => op'.err
  <2>1. at \in {"done", "untc"}
    BY <1>6 DEF AfterDelete
  <2>2. op' = Goes(at) \/ op' = Raised(at)
    BY <1>6 DEF DeleteSidecar
  <2>3. QED BY <1>1, <2>1, <2>2 DEF OpState, FaultStep, Goes, Raised
<1>8. Untcs(op) => op'.at = "untc"
  BY <1>1, <1>6, <1>7 DEF Untcs, AfterDelete, SaysReverted, Mine
<1>9. Untcs(op) => Untcs(op)'
  BY <1>8 DEF Untcs
<1>10. \/ side' = gone /\ excused' = excused
       \/ side' = side /\ Mine.at \notin {"started", "sleeping"} /\ excused' = excused
       \/ side' = side /\ op'.err /\ excused' = excused \cup {<<op.of, "slow">>}
  <2>1. CASE side' = gone /\ op' = Goes(AfterDelete) /\ UNCHANGED <<excused, faults>>
    BY <2>1
  <2>2. CASE /\ op' = Raised(AfterDelete) /\ side' \in {side, gone}
             /\ excused' = IF side' = side /\ Mine.at \in {"started", "sleeping"}
                           THEN excused \cup {<<op.of, "slow">>} ELSE excused
    <3>1. op'.err
      BY <1>1, <2>2 DEF Raised, OpState
    <3>2. QED BY <2>2, <3>1
  <2>3. QED BY <1>5, <2>1, <2>2 DEF DeleteSidecar
<1>11. /\ excused \subseteq excused'
       /\ \A p \in excused' : p \in excused \/ (p[1] = op.of /\ op'.err)
  <2>1. PICK x : x = <<op.of, "slow">>
    OBVIOUS
  <2>2. x[1] = op.of
    BY <2>1
  <2>3. QED BY <1>10, <2>1, <2>2
<1>12. OpShape(op)'
  BY <1>1, <1>7 DEF OpShape
<1>13. CASE side' = gone
  <2>1. /\ side' \in Seq(Sidecars) /\ Len(side') = Len(side) /\ side'[op.k] = r
        /\ \A k \in 1..Len(side') : k # op.k => k \in 1..Len(side) /\ side'[k] = side[k]
    BY <1>1, <1>3, <1>4, <1>13, OwnSidecar DEF ChaosInv
  <2>2. QED BY <1>1, <1>3, <1>7, <1>9, <1>11, <1>12, <2>1, OwnSidecarStep
<1>14. CASE side' = side
  <2>1. side' \in Seq(Sidecars) /\ \A k \in 1..Len(side') : k # op.k => k \in 1..Len(side) /\ side'[k] = side[k]
    BY <1>1, <1>14
  <2>2. \/ side'[op.k].at \notin {"started", "sleeping"}
        \/ side'[op.k].stale
        \/ /\ side'[op.k].of \in Service /\ box[side'[op.k].of].running
           /\ <<side'[op.k].of, "slow">> \in excused'
    <3>1. SUFFICES ASSUME side[op.k].at \in {"started", "sleeping"}, ~side[op.k].stale
                   PROVE  box[op.of].running /\ <<op.of, "slow">> \in excused'
      BY <1>1, <1>14
    <3>2. op.k \in DOMAIN side
      BY <1>1
    <3>3. box[op.of].running
      BY <1>1, <3>1, <3>2 DEF ChaosInv, SidecarsKnown
    <3>4. side # gone
      BY <1>1, <1>3, <1>4, <3>1
    <3>5. QED BY <1>10, <1>14, <3>1, <3>3, <3>4 DEF Mine
  <2>3. QED BY <1>1, <1>7, <1>9, <1>11, <1>12, <2>1, <2>2, OwnSidecarStep
<1>15. QED BY <1>10, <1>13, <1>14

\* A script injects its delay, fails half way, or removes the delay again.
LEMMA ScriptStep == ASSUME ChaosInv, NEW k \in DOMAIN side, Script(k) PROVE ChaosInv'
<1>1. PICK s : s = side[k].of
  OBVIOUS
<1>2. k \in 1..Len(side) /\ side \in Seq(Sidecars) /\ side[k] \in Sidecars /\ s \in Service /\ side # << >>
  BY <1>1, SideFacts DEF ChaosInv, ChaosShape
<1>3. PICK at \in SidecarAt, slow \in BOOLEAN :
        /\ side' = [side EXCEPT ![k].at = at]
        /\ box' = IF side[k].stale THEN box ELSE [box EXCEPT ![s].slow = slow]
        /\ side[k].at \in {"started", "sleeping"}
        /\ at \in {"sleeping", "exited", "reverted"} /\ (at = "reverted" => ~slow)
  <2>1. CASE side[k].at = "started" /\ side' = [side EXCEPT ![k].at = "sleeping"]
             /\ box' = IF side[k].stale THEN box ELSE [box EXCEPT ![s].slow = TRUE]
    BY <2>1 DEF SidecarAt
  <2>2. ASSUME NEW slow \in {box[s].slow, TRUE}, side[k].at = "started", side' = [side EXCEPT ![k].at = "exited"],
               box' = IF side[k].stale THEN box ELSE [box EXCEPT ![s].slow = slow]
        PROVE  \E at \in SidecarAt, z \in BOOLEAN :
                 /\ side' = [side EXCEPT ![k].at = at]
                 /\ box' = IF side[k].stale THEN box ELSE [box EXCEPT ![s].slow = z]
                 /\ side[k].at \in {"started", "sleeping"}
                 /\ at \in {"sleeping", "exited", "reverted"} /\ (at = "reverted" => ~z)
    <3>1. slow \in BOOLEAN
      BY <1>2, <2>2 DEF ChaosInv, ChaosShape, BoxState
    <3>2. QED BY <2>2, <3>1 DEF SidecarAt
  <2>3. CASE side[k].at = "sleeping" /\ side' = [side EXCEPT ![k].at = "reverted"]
             /\ box' = IF side[k].stale THEN box ELSE [box EXCEPT ![s].slow = FALSE]
    BY <2>3 DEF SidecarAt
  <2>4. QED BY <1>1, <2>1, <2>2, <2>3 DEF Script
<1>4. PICK r : r = [side[k] EXCEPT !.at = at]
  OBVIOUS
<1>5. r \in Sidecars /\ r.at = at /\ r.of = s /\ r.stale = side[k].stale
  BY <1>1, <1>2, <1>3, <1>4 DEF Sidecars
<1>6. side' = [side EXCEPT ![k] = r]
  BY <1>3, <1>4
<1>7. /\ side' \in Seq(Sidecars) /\ Len(side') = Len(side) /\ side'[k] = r
      /\ \A j \in 1..Len(side) : j # k => side'[j] = side[j]
  BY <1>2, <1>5, <1>6, ExceptSeq
<1>8. PICK u : u = [box[s] EXCEPT !.slow = slow]
  OBVIOUS
<1>9. u \in BoxState /\ u.running = box[s].running /\ u.paused = box[s].paused /\ u.on = box[s].on /\ u.slow = slow
  BY <1>2, <1>3, <1>8 DEF ChaosInv, ChaosShape, BoxState
<1>10. /\ box' \in [Service -> BoxState] /\ \A t \in Service : t # s \/ side[k].stale => box'[t] = box[t]
       /\ ~side[k].stale => box'[s] = u
       /\ \A t \in Service : box'[t].running = box[t].running
  BY <1>2, <1>3, <1>8, <1>9 DEF ChaosInv, ChaosShape
<1>11. UNCHANGED <<op, day, excused>>
  BY DEF Script
<1>12. ChaosShape'
  BY <1>7, <1>10, <1>11 DEF ChaosInv, ChaosShape
<1>13. OpShape(op)'
  BY <1>1, <1>2, <1>5, <1>7, <1>11 DEF ChaosInv, OpShape
<1>14. DayShape'
  BY <1>2, <1>11 DEF ChaosInv, DayShape, Target
<1>15. AllUndone'
  <2> SUFFICES ASSUME NEW t \in Service PROVE Undoes(t, box, op, excused)'
    BY DEF AllUndone
  <2>1. Undoes(t, box, op, excused)
    BY DEF ChaosInv, AllUndone
  <2>2. op.at \in {"wait", "delete"} => op.k \in 1..Len(side) /\ side[op.k].of = op.of
    BY DEF ChaosInv, OpShape
  <2>3. CASE t # s \/ side[k].stale
    <3>1. box'[t] = box[t]
      BY <1>10, <2>3
    <3>2. op.of = t /\ Untcs(op) => Untcs(op)'
      BY <1>1, <1>7, <1>11, <2>2, <2>3 DEF Untcs
    <3>3. Unpauses(op)' = Unpauses(op) /\ Heals(op)' = Heals(op)
      BY <1>11 DEF Unpauses, Heals
    <3>4. QED BY <1>11, <2>1, <3>1, <3>2, <3>3 DEF Undoes
  <2>4. CASE t = s /\ ~side[k].stale
    <3>1. box'[t] = u
      BY <1>10, <2>4
    <3>2. box[t].running /\ (<<t, "slow">> \in excused \/ (k = op.k /\ op.at \in {"wait", "delete"}))
      BY <1>1, <1>3, <2>4 DEF ChaosInv, SidecarsKnown
    <3>3. k = op.k /\ op.at \in {"wait", "delete"} /\ slow => op.of = t /\ Untcs(op)'
      BY <1>1, <1>3, <1>5, <1>7, <1>11, <2>2, <2>4 DEF Untcs
    <3>4. Unpauses(op)' = Unpauses(op) /\ Heals(op)' = Heals(op)
      BY <1>11 DEF Unpauses, Heals
    <3>5. QED BY <1>9, <1>11, <2>1, <2>4, <3>1, <3>2, <3>3, <3>4 DEF Undoes
  <2>5. QED BY <2>3, <2>4
<1>16. SidecarsKnown'
  <2> SUFFICES ASSUME NEW j \in DOMAIN side', side'[j].at \in {"started", "sleeping"}, ~side'[j].stale
               PROVE  /\ box'[side'[j].of].running
                      /\ <<side'[j].of, "slow">> \in excused' \/ (j = op'.k /\ op'.at \in {"wait", "delete"})
    BY DEF SidecarsKnown
  <2>1. j \in DOMAIN side /\ j \in 1..Len(side)
    BY <1>2, <1>7
  <2>2. side'[j].of = side[j].of /\ side[j].at \in {"started", "sleeping"} /\ ~side[j].stale
    BY <1>1, <1>3, <1>5, <1>7, <2>1
  <2>3. /\ box[side[j].of].running
        /\ <<side[j].of, "slow">> \in excused \/ (j = op.k /\ op.at \in {"wait", "delete"})
    BY <2>1, <2>2 DEF ChaosInv, SidecarsKnown
  <2>4. side[j].of \in Service
    BY <2>1, SideFacts DEF ChaosInv
  <2>5. QED BY <1>10, <1>11, <2>2, <2>3, <2>4
<1>17. Told'
  BY <1>11 DEF ChaosInv, Told, Reports
<1>18. QED BY <1>12, <1>13, <1>14, <1>15, <1>16, <1>17 DEF ChaosInv

\* An exit takes the pause, the delay and the namespace of its sidecars away.
LEMMA ExitsStep == ASSUME ChaosInv, NEW s \in Service, Exits(s) PROVE ChaosInv'
<1>1. /\ side' = [k \in DOMAIN side |-> [side[k] EXCEPT !.stale = @ \/ side[k].of = s]]
      /\ UNCHANGED <<op, day, excused>> /\ side \in Seq(Sidecars) /\ DOMAIN side = 1..Len(side)
  BY DEF Exits, ChaosInv, ChaosShape
<1>2. ASSUME NEW k \in 1..Len(side)
      PROVE  /\ side'[k] \in Sidecars /\ side'[k].at = side[k].at /\ side'[k].of = side[k].of
             /\ ~side'[k].stale <=> ~side[k].stale /\ side[k].of # s
  <2>1. side[k] \in Sidecars /\ side'[k] = [side[k] EXCEPT !.stale = @ \/ side[k].of = s]
    BY <1>1, ElementOfSeq
  <2>2. CASE side[k].of = s
    BY <2>1, <2>2 DEF Sidecars
  <2>3. CASE side[k].of # s
    BY <2>1, <2>3 DEF Sidecars
  <2>4. QED BY <2>2, <2>3
<1>3. side' \in Seq(Sidecars) /\ Len(side') = Len(side) /\ (side = << >> => side' = << >>)
  <2>1. Len(side) \in Nat /\ side' = [k \in 1..Len(side) |-> side'[k]]
    BY <1>1, LenProperties
  <2>2. side' \in Seq(Sidecars) /\ Len(side') = Len(side)
    BY <1>2, <2>1, IsASeq
  <2>3. QED BY <1>1, <2>2, EmptySeq
<1>4. PICK u : u = [box[s] EXCEPT !.running = FALSE, !.paused = FALSE, !.slow = FALSE]
  OBVIOUS
<1>5. u \in BoxState /\ ~u.running /\ ~u.paused /\ u.on = box[s].on /\ ~u.slow
  BY <1>4 DEF ChaosInv, ChaosShape, BoxState
<1>6. box' = [box EXCEPT ![s] = u]
  BY <1>4 DEF Exits
<1>7. box' \in [Service -> BoxState] /\ box'[s] = u /\ \A t \in Service : t # s => box'[t] = box[t]
  BY <1>5, <1>6 DEF ChaosInv, ChaosShape
<1>8. ChaosShape' /\ OpShape(op)'
  BY <1>1, <1>2, <1>3, <1>7 DEF ChaosInv, ChaosShape, OpShape
<1>9. DayShape'
  BY <1>1, <1>3, <1>5, <1>7 DEF ChaosInv, DayShape, Target
<1>10. AllUndone'
  <2> SUFFICES ASSUME NEW t \in Service PROVE Undoes(t, box, op, excused)'
    BY DEF AllUndone
  <2>1. Undoes(t, box, op, excused)
    BY DEF ChaosInv, AllUndone
  <2>2. Unpauses(op)' = Unpauses(op) /\ Heals(op)' = Heals(op)
    BY <1>1 DEF Unpauses, Heals
  <2>3. CASE t = s
    BY <1>1, <1>5, <1>7, <2>1, <2>2, <2>3 DEF Undoes
  <2>4. CASE t # s
    <3>1. op.at \in {"wait", "delete"} => op.k \in 1..Len(side) /\ side[op.k].of = op.of
      BY DEF ChaosInv, OpShape
    <3>2. op.of = t /\ Untcs(op) => Untcs(op)'
      BY <1>1, <1>2, <2>4, <3>1 DEF Untcs
    <3>3. box'[t] = box[t]
      BY <1>7, <2>4
    <3>4. QED BY <1>1, <2>1, <2>2, <3>2, <3>3 DEF Undoes
  <2>5. QED BY <2>3, <2>4
<1>11. SidecarsKnown'
  <2> SUFFICES ASSUME NEW j \in DOMAIN side', side'[j].at \in {"started", "sleeping"}, ~side'[j].stale
               PROVE  /\ box'[side'[j].of].running
                      /\ <<side'[j].of, "slow">> \in excused' \/ (j = op'.k /\ op'.at \in {"wait", "delete"})
    BY DEF SidecarsKnown
  <2>1. j \in DOMAIN side /\ j \in 1..Len(side)
    BY <1>1, <1>3
  <2>2. side'[j].of = side[j].of /\ side[j].at \in {"started", "sleeping"} /\ ~side[j].stale /\ side[j].of # s
    BY <1>2, <2>1
  <2>3. /\ box[side[j].of].running
        /\ <<side[j].of, "slow">> \in excused \/ (j = op.k /\ op.at \in {"wait", "delete"})
    BY <2>1, <2>2 DEF ChaosInv, SidecarsKnown
  <2>4. side[j].of \in Service
    BY <2>1, SideFacts DEF ChaosInv
  <2>5. box'[side[j].of] = box[side[j].of] /\ op' = op /\ excused' = excused
    BY <1>1, <1>7, <2>2, <2>4
  <2>6. QED BY <2>2, <2>3, <2>5
<1>12. Told'
  BY <1>1 DEF ChaosInv, Told, Reports
<1>13. QED BY <1>8, <1>9, <1>10, <1>11, <1>12 DEF ChaosInv

LEMMA ReturnsStep == ASSUME ChaosInv, NEW s \in Service, Returns(s) PROVE ChaosInv'
<1>1. UNCHANGED <<side, op, day, excused>>
  BY DEF Returns
<1>2. PICK u : u = [box[s] EXCEPT !.running = TRUE]
  OBVIOUS
<1>3. u \in BoxState /\ u.running /\ u.paused = box[s].paused /\ u.on = box[s].on /\ u.slow = box[s].slow
  BY <1>2 DEF ChaosInv, ChaosShape, BoxState
<1>4. box' = [box EXCEPT ![s] = u]
  BY <1>2 DEF Returns
<1>5. box' \in [Service -> BoxState] /\ box'[s] = u /\ \A t \in Service : t # s => box'[t] = box[t]
  BY <1>3, <1>4 DEF ChaosInv, ChaosShape
<1>6. ChaosShape' /\ OpShape(op)'
  BY <1>1, <1>5 DEF ChaosInv, ChaosShape, OpShape
<1>7. DayShape'
  BY <1>1, <1>3, <1>5 DEF ChaosInv, DayShape, Target
<1>8. AllUndone'
  <2> SUFFICES ASSUME NEW t \in Service PROVE Undoes(t, box, op, excused)'
    BY DEF AllUndone
  <2>1. Undoes(t, box, op, excused)
    BY DEF ChaosInv, AllUndone
  <2>2. Unpauses(op)' = Unpauses(op) /\ Heals(op)' = Heals(op) /\ Untcs(op)' = Untcs(op)
    BY <1>1 DEF Unpauses, Heals, Untcs
  <2>3. QED BY <1>1, <1>3, <1>5, <2>1, <2>2 DEF Undoes
<1>9. SidecarsKnown'
  <2> SUFFICES ASSUME NEW j \in DOMAIN side, side[j].at \in {"started", "sleeping"}, ~side[j].stale
               PROVE  box'[side[j].of].running
    BY <1>1 DEF SidecarsKnown, ChaosInv
  <2>1. side[j].of \in Service /\ box[side[j].of].running
    BY SideFacts DEF ChaosInv, SidecarsKnown
  <2>2. QED BY <1>3, <1>5, <2>1
<1>10. Told'
  BY <1>1 DEF ChaosInv, Told, Reports
<1>11. QED BY <1>6, <1>7, <1>8, <1>9, <1>10 DEF ChaosInv

LEMMA KillStep == ChaosInv /\ Kill => ChaosInv'
<1> SUFFICES ASSUME ChaosInv, Kill PROVE ChaosInv'
  OBVIOUS
<1>1. PICK s \in Service : box' = [box EXCEPT ![s].running = FALSE]
  BY DEF Kill
<1>2. /\ UNCHANGED <<side, op, excused>> /\ op = Quiet /\ day.at = "alone"
      /\ day' = [day EXCEPT !.at = "ended"] /\ side = << >> /\ \A t \in Service : ~box[t].slow
  BY DEF Kill, ChaosInv, DayShape
<1>3. op.at = "done" /\ ~op.err
  BY <1>2 DEF Quiet
<1>4. PICK u : u = [box[s] EXCEPT !.running = FALSE]
  OBVIOUS
<1>5. u \in BoxState /\ u.paused = box[s].paused /\ u.on = box[s].on /\ u.slow = box[s].slow
  BY <1>4 DEF ChaosInv, ChaosShape, BoxState
<1>6. box' = [box EXCEPT ![s] = u]
  BY <1>1, <1>4
<1>7. box' \in [Service -> BoxState] /\ box'[s] = u /\ \A t \in Service : t # s => box'[t] = box[t]
  BY <1>5, <1>6 DEF ChaosInv, ChaosShape
<1>8. day' \in DayState /\ day'.at = "ended" /\ day'.stop = day.stop /\ day'.card = day.card
  BY <1>2 DEF ChaosInv, ChaosShape, DayState
<1>9. ChaosShape' /\ OpShape(op)' /\ DayShape'
  BY <1>2, <1>3, <1>7, <1>8 DEF ChaosInv, ChaosShape, OpShape, DayShape
<1>10. AllUndone'
  <2> SUFFICES ASSUME NEW t \in Service PROVE Undoes(t, box, op, excused)'
    BY DEF AllUndone
  <2>1. Undoes(t, box, op, excused) /\ ~box'[t].slow /\ box'[t].paused = box[t].paused /\ box'[t].on = box[t].on
    BY <1>2, <1>5, <1>7 DEF ChaosInv, AllUndone
  <2>2. Unpauses(op)' = Unpauses(op) /\ Heals(op)' = Heals(op)
    BY <1>2 DEF Unpauses, Heals
  <2>3. QED BY <1>2, <2>1, <2>2 DEF Undoes
<1>11. SidecarsKnown'
  BY <1>2 DEF SidecarsKnown
<1>12. Told'
  BY <1>2, <1>3, <1>8 DEF ChaosInv, Told, Reports
<1>13. QED BY <1>9, <1>10, <1>11, <1>12 DEF ChaosInv

----------------------------------------------------------------------------

\* The steps of the main thread alone.
LEMMA DayStep ==
  ASSUME ChaosInv, UNCHANGED <<box, side, excused, op>>, day' \in DayState, DayShape', Told'
  PROVE  ChaosInv'
<1>1. ChaosShape' /\ OpShape(op)'
  BY DEF ChaosInv, ChaosShape, OpShape
<1>2. AllUndone'
  BY DEF ChaosInv, AllUndone, Undoes, Unpauses, Heals, Untcs
<1>3. SidecarsKnown'
  BY DEF ChaosInv, SidecarsKnown
<1>4. QED BY <1>1, <1>2, <1>3 DEF ChaosInv

LEMMA NetsAreNetworks == ASSUME NEW s \in Service PROVE nets[s] \in SUBSET Network
BY ChaosAssumption DEF Network

\* The experiment at hand.
LEMMA TargetFacts ==
  ASSUME ChaosShape, day.left # << >>
  PROVE  Target \in Service /\ Head(day.left)[2] \in Faulty /\ Tail(day.left) \in Seq(Service \X Faulty)
<1>1. day.left \in Seq(Service \X Faulty)
  BY DEF ChaosShape, DayState
<1>2. Head(day.left) \in Service \X Faulty /\ Tail(day.left) \in Seq(Service \X Faulty)
  BY <1>1, HeadTailProperties
<1>3. QED BY <1>2 DEF Target

\* The command begins with nothing of its own to undo.
LEMMA StartStep ==
  ASSUME ChaosInv, op.at = "done", NEW s \in Service, NEW f \in Faulty, NEW only \in SUBSET Network,
         Start(s, f, only), UNCHANGED <<box, side, excused>>
  PROVE  /\ op' \in OpState /\ op'.of = s /\ op'.at = f /\ ~op'.err /\ op' # Quiet
         /\ OpShape(op)' /\ AllUndone' /\ SidecarsKnown'
<1>1. PICK k : k = Len(side) + 1
  OBVIOUS
<1>2. k \in Nat /\ k # 0 /\ side \in Seq(Sidecars)
  BY <1>1, LenProperties DEF ChaosInv, ChaosShape
<1>3. op' = [at |-> f, of |-> s, todo |-> only, done |-> {}, log |-> FALSE, err |-> FALSE, k |-> k]
  BY <1>1 DEF Start, Quiet
<1>4. op' \in OpState /\ op'.of = s /\ op'.at = f /\ ~op'.err /\ op'.k = k /\ op'.done = {}
  BY <1>2, <1>3 DEF OpState, FaultStep, Faulty
<1>5. op' # Quiet
  <2>1. Quiet.k = 0
    BY DEF Quiet
  <2>2. QED BY <1>2, <1>4, <2>1
<1>6. OpShape(op)'
  BY <1>1, <1>2, <1>4 DEF OpShape, Faulty
<1>7. AllUndone'
  <2> SUFFICES ASSUME NEW t \in Service PROVE Undoes(t, box, op, excused)'
    BY DEF AllUndone
  <2>1. Undoes(t, box, op, excused)
    BY DEF ChaosInv, AllUndone
  <2>2. QED BY <2>1 DEF Undoes, Unpauses, Heals, Untcs
<1>8. SidecarsKnown'
  BY DEF ChaosInv, SidecarsKnown
<1>9. QED BY <1>4, <1>5, <1>6, <1>7, <1>8

LEMMA AloneStep == ChaosInv /\ Alone => ChaosInv'
<1> SUFFICES ASSUME ChaosInv, Alone PROVE ChaosInv'
  OBVIOUS
<1>1. /\ day.at = "alone" /\ ~day.stop /\ day \in DayState /\ UNCHANGED <<box, side, excused>>
  BY DEF Alone, ChaosInv, ChaosShape, DayShape
<1>2. ASSUME op = Quiet, NEW s \in Service, NEW f \in Faulty, NEW only \in {nets[s]} \cup {{n} : n \in nets[s]},
             Start(s, f, only), day' = [day EXCEPT !.left = << <<s, f>> >>]
      PROVE  ChaosInv'
  <2>1. op.at = "done" /\ ~op.err
    BY <1>2 DEF Quiet
  <2>2. only \in SUBSET Network
    BY <1>2, NetsAreNetworks
  <2>3. /\ op' \in OpState /\ op'.of = s /\ op'.at = f /\ ~op'.err /\ op' # Quiet
        /\ OpShape(op)' /\ AllUndone' /\ SidecarsKnown'
    BY <1>1, <1>2, <2>1, <2>2, StartStep
  <2>4. << <<s, f>> >> \in Seq(Service \X Faulty)
    OBVIOUS
  <2>5. day' \in DayState /\ day'.at = "alone" /\ day'.stop = day.stop /\ day'.card = day.card
    BY <1>1, <1>2, <2>4 DEF DayState
  <2>6. ChaosShape' /\ DayShape'
    BY <1>1, <2>3, <2>5 DEF ChaosInv, ChaosShape, DayShape
  <2>7. Told'
    BY <1>1, <2>1, <2>5 DEF ChaosInv, Told, Reports
  <2>8. QED BY <2>3, <2>6, <2>7 DEF ChaosInv
<1>3. CASE op.at = "done" /\ UNCHANGED op /\ day' = [day EXCEPT !.at = "ended", !.stop = op.err]
  <2>1. op.err \in BOOLEAN
    BY DEF ChaosInv, ChaosShape, OpState
  <2>2. day' \in DayState /\ day'.at = "ended" /\ day'.stop = op.err /\ day'.card = day.card
    BY <1>1, <1>3, <2>1 DEF DayState
  <2>3. DayShape'
    BY <1>3, <2>2 DEF DayShape
  <2>4. Told'
    BY <1>1, <1>3, <2>2 DEF ChaosInv, Told, Reports
  <2>5. QED BY <1>1, <1>3, <2>2, <2>3, <2>4, DayStep
<1>4. QED BY <1>2, <1>3 DEF Alone, Faulty, Busy

\* On to the next experiment, with an entry on the card.
LEMMA ThenStep ==
  ASSUME ChaosInv, UNCHANGED <<box, side, excused, op>>, day.at \in {"pre", "join", "recover"}, op.at = "done",
         ~day.stop, NEW entry \in CardEntry, day' = Then(entry),
         day.at = "join" /\ op.err => entry.of = op.of /\ entry.skipped = "failed"
  PROVE  ChaosInv'
<1>1. day \in DayState /\ day.left # << >> /\ day.card \in Seq(CardEntry)
  BY DEF ChaosInv, ChaosShape, DayShape, DayState
<1>2. PICK left, card : left = Tail(day.left) /\ card = Append(day.card, entry)
  OBVIOUS
<1>3. left \in Seq(Service \X Faulty)
  BY <1>1, <1>2, TargetFacts DEF ChaosInv
<1>4. /\ card \in Seq(CardEntry) /\ Len(card) = Len(day.card) + 1 /\ card[Len(day.card) + 1] = entry
      /\ \A i \in 1..Len(day.card) : card[i] = day.card[i]
  BY <1>1, <1>2, AppendProperties
<1>5. day' = [at |-> "next", left |-> left, todo |-> {}, bad |-> {}, affected |-> {}, late |-> FALSE,
              stop |-> FALSE, card |-> card]
  BY <1>2 DEF Then, Morning
<1>6. day' \in DayState /\ day'.at = "next" /\ ~day'.stop /\ day'.card = card
  BY <1>3, <1>4, <1>5 DEF DayState
<1>7. DayShape'
  BY <1>6 DEF DayShape
<1>8. Told'
  <2> SUFFICES ASSUME NEW p \in excused
               PROVE  \E i \in DOMAIN card : card[i].of = p[1] /\ card[i].skipped = "failed"
    BY <1>6 DEF Told, Reports
  <2>1. DOMAIN card = 1..(Len(day.card) + 1) /\ DOMAIN day.card = 1..Len(day.card) /\ Len(day.card) \in Nat
    BY <1>1, <1>4, LenProperties
  <2>2. CASE Reports(p[1])
    <3>1. PICK i \in DOMAIN day.card : day.card[i].of = p[1] /\ day.card[i].skipped = "failed"
      BY <2>2 DEF Reports
    <3>2. QED BY <1>4, <2>1, <3>1
  <2>3. CASE op.err /\ op.of = p[1] /\ day.at \in {"alone", "watch", "join"}
    <3>1. card[Len(day.card) + 1].of = p[1] /\ card[Len(day.card) + 1].skipped = "failed"
      BY <1>4, <2>3
    <3>2. QED BY <2>1, <3>1
  <2>4. QED BY <2>2, <2>3 DEF ChaosInv, Told
<1>9. QED BY <1>6, <1>7, <1>8, DayStep

LEMMA Decided == ASSUME NEW x, NEW S PROVE (x \in S) \in BOOLEAN
OBVIOUS

LEMMA EntryType ==
  ASSUME ChaosShape, day.left # << >>, NEW skipped \in {"unhealthy", "failed", ""}, NEW recovered \in BOOLEAN
  PROVE  /\ Entry(skipped, recovered) \in CardEntry
         /\ Entry(skipped, recovered).of = Target /\ Entry(skipped, recovered).skipped = skipped
<1>1. Target \in Service /\ Head(day.left)[2] \in Faulty /\ day.affected \in SUBSET Service
  BY TargetFacts DEF ChaosShape, DayState
<1>2. PICK of, seen : of = Target /\ seen = day.affected
  OBVIOUS
<1>3. PICK fault, detected : fault = Head(day.left)[2] /\ detected = (of \in seen)
  OBVIOUS
<1>4. PICK e : e = Entry(skipped, recovered)
  OBVIOUS
<1>5. e = [of |-> of, fault |-> fault, skipped |-> skipped, recovered |-> recovered,
           blast |-> seen \ {of}, detected |-> detected]
  BY <1>2, <1>3, <1>4 DEF Entry
<1>6. of \in Service /\ fault \in Faulty /\ detected \in BOOLEAN /\ seen \ {of} \in SUBSET Service
  BY <1>1, <1>2, <1>3, Decided
<1>7. e \in CardEntry /\ e.of = of /\ e.skipped = skipped
  BY <1>5, <1>6 DEF CardEntry
<1>8. QED BY <1>2, <1>4, <1>7

\* The day goes on to another place with the same card, or asks on.
LEMMA OnwardStep ==
  ASSUME ChaosInv, UNCHANGED <<box, side, excused, op>>, day' \in DayState, day'.left = day.left, day'.card = day.card,
         day'.stop = day.stop,
         \/ day'.at = day.at
         \/ day.at = "next" /\ day'.at = "ended"
         \/ day.at = "next" /\ day.left # << >> /\ day'.at = "pre"
         \/ day.at = "watch" /\ day'.at = "join"
         \/ day.at = "join" /\ day'.at = "ended" /\ op.at = "done" /\ day.stop
         \/ day.at = "join" /\ day'.at = "recover" /\ op.at = "done" /\ ~op.err /\ ~day.stop
  PROVE  ChaosInv'
<1>1. DayShape'
  BY DEF ChaosInv, DayShape, Target
<1>2. Told'
  BY DEF ChaosInv, Told, Reports
<1>3. QED BY <1>1, <1>2, DayStep

\* What a step of the main thread leaves of its record.
LEMMA DayFields ==
  ASSUME day \in DayState, NEW at \in {"alone", "next", "pre", "watch", "join", "recover", "ended"},
         NEW todo \in SUBSET Service, NEW bad \in SUBSET Service, NEW affected \in SUBSET Service,
         NEW late \in BOOLEAN, NEW d,
         d = [day EXCEPT !.at = at, !.todo = todo, !.bad = bad, !.affected = affected, !.late = late]
  PROVE  d \in DayState /\ d.at = at /\ d.left = day.left /\ d.card = day.card /\ d.stop = day.stop
BY DEF DayState

LEMMA GoesTo ==
  ASSUME day \in DayState, NEW at \in {"alone", "next", "pre", "watch", "join", "recover", "ended"}
  PROVE  /\ To(at) \in DayState /\ To(at).at = at /\ To(at).left = day.left
         /\ To(at).card = day.card /\ To(at).stop = day.stop
BY DEF DayState, To

LEMMA NextExperimentStep == ChaosInv /\ NextExperiment => ChaosInv'
<1> SUFFICES ASSUME ChaosInv, NextExperiment PROVE ChaosInv'
  OBVIOUS
<1>1. day \in DayState /\ day.at = "next" /\ UNCHANGED <<box, side, op, excused>>
  BY DEF NextExperiment, ChaosInv, ChaosShape
<1>2. CASE day.left = << >>
  <2>1. day' = [day EXCEPT !.at = "ended"]
    BY <1>2 DEF NextExperiment
  <2>2. day' \in DayState /\ day'.at = "ended" /\ day'.left = day.left /\ day'.card = day.card /\ day'.stop = day.stop
    BY <1>1, <2>1 DEF DayState
  <2>3. QED BY <1>1, <2>2, OnwardStep
<1>3. CASE day.left # << >>
  <2>1. day' = To("pre")
    BY <1>3 DEF NextExperiment
  <2>2. QED BY <1>1, <1>3, <2>1, GoesTo, OnwardStep
<1>4. QED BY <1>2, <1>3

LEMMA PreStep == ChaosInv /\ Pre => ChaosInv'
<1> SUFFICES ASSUME ChaosInv, Pre PROVE ChaosInv'
  OBVIOUS
<1>1. /\ day \in DayState /\ day.at = "pre" /\ UNCHANGED <<box, side, excused>> /\ day.left # << >>
      /\ op.at = "done" /\ ~day.stop
  BY DEF Pre, ChaosInv, ChaosShape, DayShape
<1>2. ASSUME NEW m \in day.todo, NEW ok \in BOOLEAN, UNCHANGED op,
             day' = [day EXCEPT !.todo = @ \ {m}, !.bad = IF ok THEN @ ELSE @ \cup {m}]
      PROVE  ChaosInv'
  <2>1. PICK todo, bad : todo = day.todo \ {m} /\ bad = IF ok THEN day.bad ELSE day.bad \cup {m}
    OBVIOUS
  <2>2. todo \in SUBSET Service /\ bad \in SUBSET Service
    BY <1>1, <1>2, <2>1 DEF DayState
  <2>3. day' = [day EXCEPT !.todo = todo, !.bad = bad]
    BY <1>2, <2>1
  <2>4. day' \in DayState /\ day'.at = day.at /\ day'.left = day.left /\ day'.card = day.card /\ day'.stop = day.stop
    BY <1>1, <2>2, <2>3 DEF DayState
  <2>5. QED BY <1>1, <1>2, <2>4, OnwardStep
<1>3. CASE day' = Then(Entry("unhealthy", FALSE)) /\ UNCHANGED op
  <2>1. Entry("unhealthy", FALSE) \in CardEntry
    BY <1>1, EntryType DEF ChaosInv
  <2>2. QED BY <1>1, <1>3, <2>1, ThenStep
<1>4. CASE day' = To("watch") /\ Start(Target, Head(day.left)[2], nets[Target])
  <2>1. Target \in Service /\ Head(day.left)[2] \in Faulty
    BY <1>1, TargetFacts DEF ChaosInv
  <2>2. PICK f, only : f = Head(day.left)[2] /\ only = nets[Target]
    OBVIOUS
  <2>3. f \in Faulty /\ only \in SUBSET Network /\ Start(Target, f, only)
    BY <1>4, <2>1, <2>2, NetsAreNetworks
  <2>4. /\ op' \in OpState /\ op'.of = Target /\ ~op'.err
        /\ OpShape(op)' /\ AllUndone' /\ SidecarsKnown'
    BY <1>1, <2>1, <2>3, StartStep
  <2>5. day' \in DayState /\ day'.at = "watch" /\ day'.left = day.left /\ day'.card = day.card /\ day'.stop = day.stop
    BY <1>1, <1>4, GoesTo
  <2>6. ChaosShape' /\ DayShape'
    BY <1>1, <2>4, <2>5 DEF ChaosInv, ChaosShape, DayShape, Target
  <2>7. Told'
    BY <1>1, <2>5 DEF ChaosInv, Told, Reports
  <2>8. QED BY <2>4, <2>6, <2>7 DEF ChaosInv
<1>5. QED BY <1>2, <1>3, <1>4 DEF Pre

LEMMA WatchStep == ChaosInv /\ Watch => ChaosInv'
<1> SUFFICES ASSUME ChaosInv, Watch PROVE ChaosInv'
  OBVIOUS
<1>1. day \in DayState /\ day.at = "watch" /\ UNCHANGED <<box, side, op, excused>>
  BY DEF Watch, ChaosInv, ChaosShape
<1>2. ASSUME NEW m \in day.todo, NEW ok \in BOOLEAN,
             day' = [day EXCEPT !.todo = @ \ {m}, !.affected = IF ok THEN @ ELSE @ \cup {m}]
      PROVE  ChaosInv'
  <2>1. PICK todo, affected : todo = day.todo \ {m} /\ affected = IF ok THEN day.affected ELSE day.affected \cup {m}
    OBVIOUS
  <2>2. todo \in SUBSET Service /\ affected \in SUBSET Service
    BY <1>1, <1>2, <2>1 DEF DayState
  <2>3. day' = [day EXCEPT !.todo = todo, !.affected = affected]
    BY <1>2, <2>1
  <2>4. day' \in DayState /\ day'.at = day.at /\ day'.left = day.left /\ day'.card = day.card /\ day'.stop = day.stop
    BY <1>1, <2>2, <2>3 DEF DayState
  <2>5. QED BY <1>1, <2>4, OnwardStep
<1>3. CASE day' = To(IF Busy THEN "watch" ELSE "join")
  <2>1. PICK at : at = IF Busy THEN "watch" ELSE "join"
    OBVIOUS
  <2>2. day' = To(at) /\ at \in {"watch", "join"}
    BY <1>3, <2>1
  <2>3. day' \in DayState /\ day'.at = at /\ day'.left = day.left /\ day'.card = day.card /\ day'.stop = day.stop
    BY <1>1, <2>2, GoesTo
  <2>4. QED BY <1>1, <2>2, <2>3, OnwardStep
<1>4. QED BY <1>2, <1>3 DEF Watch

LEMMA GameJoinStep == ChaosInv /\ Join => ChaosInv'
<1> SUFFICES ASSUME ChaosInv, Join PROVE ChaosInv'
  OBVIOUS
<1>1. /\ day \in DayState /\ day.at = "join" /\ UNCHANGED <<box, side, op, excused>> /\ op.at = "done"
      /\ day.left # << >> /\ op.of = Target
  BY DEF Join, Busy, ChaosInv, ChaosShape, DayShape
<1>2. CASE day.stop
  <2>1. day' = [day EXCEPT !.at = "ended"]
    BY <1>2 DEF Join
  <2>2. day' \in DayState /\ day'.at = "ended" /\ day'.left = day.left /\ day'.card = day.card /\ day'.stop = day.stop
    BY <1>1, <2>1 DEF DayState
  <2>3. QED BY <1>1, <1>2, <2>2, OnwardStep
<1>3. CASE ~day.stop /\ Graded
  <2>1. day' = To("recover")
    BY <1>3 DEF Join
  <2>2. day' \in DayState /\ day'.at = "recover" /\ day'.left = day.left /\ day'.card = day.card /\ day'.stop = day.stop
    BY <1>1, <2>1, GoesTo
  <2>3. QED BY <1>1, <1>3, <2>2, OnwardStep DEF Graded
<1>4. CASE ~day.stop /\ ~Graded
  <2>1. day' = Then(Entry("failed", FALSE))
    BY <1>4 DEF Join
  <2>2. PICK e : e = Entry("failed", FALSE)
    OBVIOUS
  <2>3. e \in CardEntry /\ e.of = op.of /\ e.skipped = "failed"
    BY <1>1, <2>2, EntryType DEF ChaosInv
  <2>4. QED BY <1>1, <1>4, <2>1, <2>2, <2>3, ThenStep
<1>5. QED BY <1>2, <1>3, <1>4

LEMMA RecoverStep == ChaosInv /\ (Recover \/ Deadline) => ChaosInv'
<1> SUFFICES ASSUME ChaosInv, Recover \/ Deadline PROVE ChaosInv'
  OBVIOUS
<1>1. /\ day \in DayState /\ day.at = "recover" /\ UNCHANGED <<box, side, op, excused>> /\ op.at = "done"
      /\ day.left # << >> /\ ~day.stop
  BY DEF Recover, Deadline, ChaosInv, ChaosShape, DayShape
<1>2. ASSUME NEW m \in day.todo, day' = [day EXCEPT !.todo = @ \ {m}]
      PROVE  ChaosInv'
  <2>1. day' \in DayState /\ day'.at = day.at /\ day'.left = day.left /\ day'.card = day.card /\ day'.stop = day.stop
    BY <1>1, <1>2 DEF DayState
  <2>2. QED BY <1>1, <2>1, OnwardStep
<1>3. CASE day' = To("recover")
  <2>1. day' \in DayState /\ day'.at = day.at /\ day'.left = day.left /\ day'.card = day.card /\ day'.stop = day.stop
    BY <1>1, <1>3, GoesTo
  <2>2. QED BY <1>1, <2>1, OnwardStep
<1>4. ASSUME NEW recovered \in BOOLEAN, day' = Then(Entry("", recovered))
      PROVE  ChaosInv'
  <2>1. Entry("", recovered) \in CardEntry
    BY <1>1, EntryType DEF ChaosInv
  <2>2. QED BY <1>1, <1>4, <2>1, ThenStep
<1>5. CASE Deadline
  <2>1. day' = [day EXCEPT !.late = TRUE]
    BY <1>5 DEF Deadline
  <2>2. day' \in DayState /\ day'.at = day.at /\ day'.left = day.left /\ day'.card = day.card /\ day'.stop = day.stop
    BY <1>1, <2>1 DEF DayState
  <2>3. QED BY <1>1, <2>2, OnwardStep
<1>6. CASE Recover
  <2>1. \/ \E m \in day.todo : day' = [day EXCEPT !.todo = @ \ {m}]
        \/ day' = To("recover")
        \/ \E recovered \in BOOLEAN : day' = Then(Entry("", recovered))
    BY <1>6 DEF Recover
  <2>2. QED BY <1>2, <1>3, <1>4, <2>1
<1>7. QED BY <1>5, <1>6

\* A second Ctrl-C ends the worker where it is.
LEMMA StoppedStep == ChaosInv /\ Stopped => ChaosInv'
<1> SUFFICES ASSUME ChaosInv, Stopped PROVE ChaosInv'
  OBVIOUS
<1>1. day \in DayState /\ op \in OpState /\ UNCHANGED <<box, side>>
  BY DEF Stopped, ChaosInv, ChaosShape
<1>2. CASE /\ day.at \in {"pre", "watch", "recover"} /\ UNCHANGED excused
           /\ day' = [day EXCEPT !.at = OnStop.at, !.stop = TRUE] /\ op' = OnStop.op
  <2>1. PICK at : at = IF day.at = "watch" THEN "join" ELSE "ended"
    OBVIOUS
  <2>2. day' = [day EXCEPT !.at = at, !.stop = TRUE] /\ op' = op
    BY <1>2, <2>1 DEF OnStop
  <2>3. day' \in DayState /\ day'.at = at /\ day'.stop /\ day'.left = day.left
    BY <1>1, <2>1, <2>2 DEF DayState
  <2>4. DayShape'
    BY <1>2, <2>1, <2>2, <2>3 DEF ChaosInv, DayShape, Target
  <2>5. Told'
    BY <2>3 DEF Told, Reports
  <2>6. QED BY <1>1, <1>2, <2>2, <2>3, <2>4, <2>5, DayStep
<1>3. CASE /\ day.at = "join" /\ Busy
           /\ day' = [day EXCEPT !.at = "ended", !.stop = TRUE] /\ op' = Raised("done")
           /\ excused' = excused \cup {p \in Broken(box) \cup {<<op.of, "slow">>} : p[1] = op.of}
  <2>1. day' \in DayState /\ day'.at = "ended" /\ day'.stop
    BY <1>1, <1>3 DEF DayState
  <2>2. op' \in OpState /\ op'.at = "done" /\ op'.of = op.of
    BY <1>1, <1>3 DEF OpState, FaultStep, Raised
  <2>3. ChaosShape' /\ OpShape(op)' /\ DayShape' /\ Told'
    BY <1>1, <2>1, <2>2 DEF ChaosInv, ChaosShape, OpShape, DayShape, Told, Reports
  <2>4. /\ excused \subseteq excused' /\ <<op.of, "slow">> \in excused'
        /\ \A x : <<op.of, x>> \in Broken(box) => <<op.of, x>> \in excused'
    <3>1. \A x : <<op.of, x>>[1] = op.of
      OBVIOUS
    <3>2. QED BY <1>3, <3>1
  <2>5. AllUndone'
    <3> SUFFICES ASSUME NEW s \in Service PROVE Undoes(s, box, op, excused)'
      BY DEF AllUndone
    <3>1. Undoes(s, box, op, excused)
      BY DEF ChaosInv, AllUndone
    <3>2. CASE s = op.of
      <4>1. box[s].paused => <<s, "paused">> \in excused'
        BY <2>4, <3>2 DEF Broken
      <4>2. ASSUME NEW n \in nets[s] \ box[s].on PROVE <<s, n>> \in excused'
        <5>1. n \in Network
          BY NetsAreNetworks
        <5>2. <<s, n>> \in Broken(box)
          BY <5>1 DEF Broken
        <5>3. QED BY <2>4, <3>2, <5>2
      <4>3. QED BY <1>1, <2>2, <2>4, <3>1, <3>2, <4>1, <4>2 DEF Undoes
    <3>3. CASE s # op.of
      BY <1>1, <2>2, <2>4, <3>1, <3>3 DEF Undoes
    <3>4. QED BY <3>2, <3>3
  <2>6. SidecarsKnown'
    <3> SUFFICES ASSUME NEW k \in DOMAIN side, side[k].at \in {"started", "sleeping"}, ~side[k].stale
                 PROVE  box[side[k].of].running /\ <<side[k].of, "slow">> \in excused'
      BY <1>1 DEF SidecarsKnown
    <3>1. /\ box[side[k].of].running
          /\ <<side[k].of, "slow">> \in excused \/ (k = op.k /\ op.at \in {"wait", "delete"})
      BY DEF ChaosInv, SidecarsKnown
    <3>2. k = op.k /\ op.at \in {"wait", "delete"} => side[k].of = op.of
      BY DEF ChaosInv, OpShape
    <3>3. QED BY <2>4, <3>1, <3>2
  <2>7. QED BY <2>3, <2>5, <2>6 DEF ChaosInv
<1>4. QED BY <1>2, <1>3 DEF Stopped

----------------------------------------------------------------------------

LEMMA ChaosInitial == ChaosInit => ChaosInv
<1> SUFFICES ASSUME ChaosInit PROVE ChaosInv
  OBVIOUS
<1>1. box \in [Service -> BoxState] /\ \A s \in Service : ~box[s].paused /\ ~box[s].slow /\ box[s].on = nets[s]
  BY NetsAreNetworks DEF ChaosInit, BoxState
<1>2. side \in Seq(Sidecars) /\ side = << >>
  BY DEF ChaosInit
<1>3. op \in OpState /\ op.at = "done" /\ ~op.err
  BY DEF ChaosInit, Quiet, OpState, FaultStep
<1>4. PICK left \in Seq(Service \X Faulty), at \in {"next", "alone"} :
        day = [at |-> at, left |-> left, todo |-> {}, bad |-> {}, affected |-> {}, late |-> FALSE,
               stop |-> FALSE, card |-> << >>]
  <2>1. << >> \in Seq(Service \X Faulty)
    OBVIOUS
  <2>2. CASE day \in {Morning(a) : a \in Agenda}
    BY <2>2, ChaosAssumption DEF Morning, Faulty
  <2>3. CASE day = [Morning(<< >>) EXCEPT !.at = "alone"]
    BY <2>1, <2>3 DEF Morning
  <2>4. QED BY <2>2, <2>3 DEF ChaosInit
<1>5. << >> \in Seq(CardEntry)
  OBVIOUS
<1>6. day \in DayState /\ day.at \in {"next", "alone"} /\ ~day.stop
  BY <1>4, <1>5 DEF DayState
<1>7. ChaosShape /\ OpShape(op) /\ DayShape
  BY <1>1, <1>2, <1>3, <1>6 DEF ChaosShape, OpShape, DayShape
<1>8. AllUndone
  BY <1>1 DEF AllUndone, Undoes
<1>9. SidecarsKnown
  BY <1>2 DEF SidecarsKnown
<1>10. Told
  BY DEF ChaosInit, Told
<1>11. QED BY <1>7, <1>8, <1>9, <1>10 DEF ChaosInv

LEMMA ChaosInvKept == ChaosInv /\ [ChaosNext]_chaosVars => ChaosInv'
<1> SUFFICES ASSUME ChaosInv, [ChaosNext]_chaosVars PROVE ChaosInv'
  OBVIOUS
<1>1. CASE Op
  BY <1>1, PauseStep, UnpauseStep, CutStep, HealStep, QuietSteps, SidecarStep, StartSidecarStep,
     DeleteSidecarStep, UntcStep DEF Op
<1>2. CASE Main \/ Deadline
  BY <1>2, AloneStep, NextExperimentStep, PreStep, WatchStep, GameJoinStep, RecoverStep DEF Main
<1>3. CASE Kill \/ Stopped \/ Interrupt
  BY <1>3, KillStep, StoppedStep, InterruptStep
<1>4. CASE \E k \in DOMAIN side : Script(k)
  BY <1>4, ScriptStep
<1>5. CASE \E s \in Service : Exits(s) \/ Returns(s)
  BY <1>5, ExitsStep, ReturnsStep
<1>6. CASE UNCHANGED chaosVars
  BY <1>6 DEF chaosVars, ChaosInv, ChaosShape, OpShape, DayShape, AllUndone, Undoes, Unpauses, Heals, Untcs,
     SidecarsKnown, Told, Reports, Target
<1>7. QED BY <1>1, <1>2, <1>3, <1>4, <1>5, <1>6 DEF ChaosNext

\* When a fault command or a game day has ended, whatever it paused, detached
\* or slowed down is back, or could not be undone and is in the report: for any
\* services and networks, and however many calls fail.
THEOREM FaultsAreReverted == ChaosSpec => []Reverted
<1>1. ChaosInv => Reverted
  <2> SUFFICES ASSUME ChaosInv, day.at = "ended"
               PROVE  Broken(box) \subseteq excused /\ \A p \in Broken(box) : Reports(p[1])
    BY DEF Reverted, Ended
  <2>1. op.at = "done"
    BY DEF ChaosInv, DayShape
  <2>2. \A s \in Service : /\ box[s].paused => <<s, "paused">> \in excused
                           /\ \A n \in nets[s] \ box[s].on : <<s, n>> \in excused
                           /\ box[s].slow => <<s, "slow">> \in excused
    BY <2>1 DEF ChaosInv, AllUndone, Undoes, Unpauses, Heals, Untcs
  <2>3. ASSUME NEW p \in Broken(box) PROVE p \in excused
    <3>1. CASE p \in {<<s, "paused">> : s \in {x \in Service : box[x].paused}}
      BY <2>2, <3>1
    <3>2. CASE p \in {<<s, "slow">> : s \in {x \in Service : box[x].slow}}
      BY <2>2, <3>2
    <3>3. CASE p \in {q \in Service \X Network : q[2] \in nets[q[1]] \ box[q[1]].on}
      <4>1. p = <<p[1], p[2]>> /\ p[1] \in Service /\ p[2] \in nets[p[1]] \ box[p[1]].on
        BY <3>3
      <4>2. QED BY <2>2, <4>1
    <3>4. QED BY <2>3, <3>1, <3>2, <3>3 DEF Broken
  <2>4. \A p \in excused : Reports(p[1])
    BY DEF ChaosInv, Told
  <2>5. QED BY <2>3, <2>4
<1>2. QED BY <1>1, ChaosInitial, ChaosInvKept, PTL DEF ChaosSpec

----------------------------------------------------------------------------
(* Inventories and selectors.                                              *)

\* A selector's terms, folded up to the i-th: what every & term and no ! term so
\* far has picked, of what the plain terms give.
LEMMA FoldIs ==
  ASSUME NEW inv, NEW e, IsSelector(e), NEW member, NEW h
  PROVE  h \in Fold(inv, e, member)
           <=> /\ IF Plain(e) = {} THEN h \in inv.hosts ELSE \E t \in Plain(e) : h \in AtomSet(inv, t, member)
               /\ \A t \in Terms(e) : /\ t.op = "&" => h \in AtomSet(inv, t, member)
                                      /\ t.op = "!" => h \notin AtomSet(inv, t, member)
<1> DEFINE A(t) == AtomSet(inv, t, member)
           first == IF Plain(e) = {} THEN inv.hosts ELSE UNION {A(t) : t \in Plain(e)}
           next(s, i) == CASE e[i].op = "," -> s [] e[i].op = "&" -> s \cap A(e[i]) [] e[i].op = "!" -> s \ A(e[i])
           n == Len(e)
           f == CHOOSE g : g = [i \in 0 .. n |-> IF i = 0 THEN first ELSE next(g[i - 1], i)]
<1>1. Fold(inv, e, member) = f[n]
  BY Zenon DEF Fold
<1>2. n \in Nat /\ DOMAIN e = 1 .. n /\ \A i \in 1 .. n : IsTerm(e[i])
  BY DEF IsSelector, Terms
<1>3. \E g : g = [i \in 0 .. n |-> IF i = 0 THEN first ELSE next(g[i - 1], i)]
  <2> HIDE DEF n, first, next
  <2> DEFINE Made(m) == \E g : g = [i \in 0 .. m |-> IF i = 0 THEN first ELSE next(g[i - 1], i)]
             T == {m \in 0 .. n : Made(m)}
  <2>1. 0 \in T
    <3>1. PICK g : g = [i \in 0 .. 0 |-> first]
      OBVIOUS
    <3>2. g = [i \in 0 .. 0 |-> IF i = 0 THEN first ELSE next(g[i - 1], i)]
      BY <3>1
    <3>3. QED BY <1>2, <3>2
  <2>2. ASSUME NEW m \in 0 .. n - 1, m \in T PROVE m + 1 \in T
    <3>1. PICK g : g = [i \in 0 .. m |-> IF i = 0 THEN first ELSE next(g[i - 1], i)]
      BY <2>2
    <3>2. PICK k : k = [i \in 0 .. m + 1 |-> IF i = m + 1 THEN next(g[m], m + 1) ELSE g[i]]
      OBVIOUS
    <3>3. \A i \in 0 .. m + 1 : k[i] = IF i = 0 THEN first ELSE next(k[i - 1], i)
      <4>1. \A i \in 0 .. m : k[i] = g[i]
        BY <1>2, <3>2
      <4>2. k[m + 1] = next(k[m], m + 1)
        BY <1>2, <3>2, <4>1
      <4>3. \A i \in 0 .. m : g[i] = IF i = 0 THEN first ELSE next(g[i - 1], i)
        BY <3>1
      <4>4. \A i \in 0 .. m : k[i] = IF i = 0 THEN first ELSE next(k[i - 1], i)
        BY <1>2, <4>1, <4>3
      <4>5. QED BY <1>2, <4>2, <4>4
    <3>4. k = [i \in 0 .. m + 1 |-> IF i = 0 THEN first ELSE next(k[i - 1], i)]
      BY <3>2, <3>3
    <3>5. QED BY <1>2, <3>4
  <2>3. 0 .. n \subseteq T
    <3> HIDE DEF T
    <3>1. QED BY <1>2, <2>1, <2>2, UpTo
  <2>4. QED BY <1>2, <2>3
<1>4. f = [i \in 0 .. n |-> IF i = 0 THEN first ELSE next(f[i - 1], i)]
  BY <1>3
<1> DEFINE Passes(i) == \A j \in 1 .. i : (e[j].op = "&" => h \in A(e[j])) /\ (e[j].op = "!" => h \notin A(e[j]))
           S == {i \in 0 .. n : h \in f[i] <=> h \in first /\ Passes(i)}
<1> HIDE DEF f
<1>5. 0 \in S
  <2>1. f[0] = first
    <3> HIDE DEF next, first, n
    <3>1. QED BY <1>2, <1>4
  <2>2. Passes(0)
    OBVIOUS
  <2> HIDE DEF first, Passes
  <2>3. QED BY <1>2, <2>1, <2>2
<1>6. ASSUME NEW i \in 0 .. n - 1, i \in S PROVE i + 1 \in S
  <2>1. f[i + 1] = next(f[i], i + 1)
    <3> HIDE DEF next, first, n
    <3>1. QED BY <1>2, <1>4
  <2>2. IsTerm(e[i + 1])
    BY <1>2
  <2> HIDE DEF first, A
  <2>3. h \in f[i + 1] <=> /\ h \in f[i] /\ (e[i + 1].op = "&" => h \in A(e[i + 1]))
                           /\ (e[i + 1].op = "!" => h \notin A(e[i + 1]))
    BY <2>1, <2>2 DEF IsTerm
  <2>4. Passes(i + 1) <=> /\ Passes(i) /\ (e[i + 1].op = "&" => h \in A(e[i + 1]))
                          /\ (e[i + 1].op = "!" => h \notin A(e[i + 1]))
    BY <1>2
  <2>5. i + 1 \in 0 .. n /\ (h \in f[i] <=> h \in first /\ Passes(i))
    BY <1>2, <1>6
  <2> HIDE DEF Passes
  <2>6. QED BY <2>3, <2>4, <2>5
<1>7. n \in S
  <2> HIDE DEF S, n
  <2>1. 0 .. n \subseteq S
    BY <1>2, <1>5, <1>6, UpTo
  <2>2. QED BY <1>2, <2>1
<1>8. h \in first <=> IF Plain(e) = {} THEN h \in inv.hosts ELSE \E t \in Plain(e) : h \in A(t)
  OBVIOUS
<1>9. Passes(n) <=> \A t \in Terms(e) : (t.op = "&" => h \in A(t)) /\ (t.op = "!" => h \notin A(t))
  BY <1>2 DEF Terms
<1> HIDE DEF A, first, Passes
<1>10. QED BY <1>1, <1>7, <1>8, <1>9 DEF A

\* A selector asks only for the members of the groups it names.
LEMMA FoldAsks ==
  ASSUME NEW inv, NEW e, IsSelector(e), NEW one, NEW two,
         \A t \in Terms(e) : t.kind = "group" => one[t.arg] = two[t.arg]
  PROVE  Fold(inv, e, one) = Fold(inv, e, two)
<1>1. \A t \in Terms(e) : AtomSet(inv, t, one) = AtomSet(inv, t, two)
  BY DEF AtomSet, IsSelector, IsTerm
<1>2. Plain(e) \subseteq Terms(e)
  BY DEF Plain
<1>3. ASSUME NEW h PROVE h \in Fold(inv, e, one) <=> h \in Fold(inv, e, two)
  <2> DEFINE Picked(m) ==
               /\ IF Plain(e) = {} THEN h \in inv.hosts ELSE \E t \in Plain(e) : h \in AtomSet(inv, t, m)
               /\ \A t \in Terms(e) : /\ t.op = "&" => h \in AtomSet(inv, t, m)
                                      /\ t.op = "!" => h \notin AtomSet(inv, t, m)
  <2>1. (h \in Fold(inv, e, one) <=> Picked(one)) /\ (h \in Fold(inv, e, two) <=> Picked(two))
    BY FoldIs
  <2>2. Picked(one) <=> Picked(two)
    BY <1>1, <1>2
  <2>3. QED BY <2>1, <2>2
<1>4. QED BY <1>3

----------------------------------------------------------------------------
(* Groups.                                                                 *)

Asked == Group \X SUBSET Group

\* The groups that have not led to what is asked.
Unseen == [x \in Asked |-> Cardinality(Group \ x[2])]

LEMMA UnseenFalls ==
  /\ Cardinality(Group) \in Nat /\ Unseen \in [Asked -> 0 .. Cardinality(Group)]
  /\ \A x \in Asked, g \in Group :
       x[1] \notin x[2] => <<g, x[2] \cup {x[1]}>> \in Asked /\ Unseen[<<g, x[2] \cup {x[1]}>>] < Unseen[x]
<1>1. IsFiniteSet(Group) /\ Cardinality(Group) \in Nat
  BY InventoryAssumption, FS_CardinalityType
<1>2. ASSUME NEW x \in Asked PROVE Cardinality(Group \ x[2]) \in 0 .. Cardinality(Group)
  <2>1. Group \ x[2] \subseteq Group
    OBVIOUS
  <2>2. QED BY <1>1, <2>1, FS_Subset, FS_CardinalityType
<1>3. ASSUME NEW x \in Asked, NEW g \in Group, x[1] \notin x[2]
      PROVE  <<g, x[2] \cup {x[1]}>> \in Asked /\ Unseen[<<g, x[2] \cup {x[1]}>>] < Unseen[x]
  <2>1. x[1] \in Group /\ x[2] \subseteq Group /\ <<g, x[2] \cup {x[1]}>> \in Asked
    BY DEF Asked
  <2>2. PICK rest : rest = Group \ x[2]
    OBVIOUS
  <2>3. IsFiniteSet(rest) /\ x[1] \in rest /\ Group \ (x[2] \cup {x[1]}) = rest \ {x[1]}
    BY <1>1, <1>3, <2>1, <2>2, FS_Subset
  <2>4. Cardinality(rest \ {x[1]}) = Cardinality(rest) - 1 /\ Cardinality(rest) \in Nat
    BY <2>3, FS_RemoveElement, FS_CardinalityType
  <2>5. Unseen[<<g, x[2] \cup {x[1]}>>] = Cardinality(rest \ {x[1]}) /\ Unseen[x] = Cardinality(rest)
    BY <2>1, <2>2, <2>3 DEF Unseen
  <2>6. QED BY <2>1, <2>4, <2>5
<1>4. QED BY <1>1, <1>2, <1>3 DEF Unseen

\* A function of what is asked exists if its value rests on its values where more
\* groups have led.
LEMMA Recursive ==
  ASSUME NEW V, NEW v \in V, NEW F \in [[Asked -> V] -> [Asked -> V]],
         \A f, g \in [Asked -> V] : \A x \in Asked :
           (\A y \in Asked : Unseen[y] < Unseen[x] => f[y] = g[y]) => F[f][x] = F[g][x]
  PROVE  \E f \in [Asked -> V] : f = F[f]
<1> DEFINE N == Cardinality(Group)
<1>0. N \in Nat /\ Unseen \in [Asked -> 0 .. N]
  BY UnseenFalls
<1> HIDE DEF N
<1> DEFINE Done(f, n) == \A x \in Asked : Unseen[x] < n => f[x] = F[f][x]
           T == {n \in 0 .. N + 1 : \E f \in [Asked -> V] : Done(f, n)}
<1>1. 0 \in T
  <2>1. PICK f : f = [x \in Asked |-> v]
    OBVIOUS
  <2>2. f \in [Asked -> V] /\ Done(f, 0)
    BY <1>0, <2>1
  <2> HIDE DEF Done
  <2>3. QED BY <1>0, <2>2
<1>2. ASSUME NEW n \in 0 .. (N + 1) - 1, n \in T PROVE n + 1 \in T
  <2>1. PICK f \in [Asked -> V] : Done(f, n)
    BY <1>2
  <2>2. PICK g : g = F[f]
    OBVIOUS
  <2>3. g \in [Asked -> V]
    BY <2>2
  <2>4. ASSUME NEW x \in Asked, Unseen[x] < n + 1 PROVE g[x] = F[g][x]
    <3>1. ASSUME NEW y \in Asked, Unseen[y] < Unseen[x] PROVE f[y] = g[y]
      <4>1. Unseen[y] < n
        BY <1>0, <2>4, <3>1
      <4>2. QED BY <2>1, <2>2, <4>1
    <3>2. F[f][x] = F[g][x]
      BY <2>3, <3>1
    <3>3. QED BY <2>2, <3>2
  <2>5. Done(g, n + 1)
    BY <2>4
  <2> HIDE DEF Done
  <2>6. QED BY <1>0, <2>3, <2>5
<1>3. N + 1 \in T
  <2> HIDE DEF T
  <2>1. 0 .. N + 1 \subseteq T
    BY <1>0, <1>1, <1>2, UpTo
  <2>2. QED BY <1>0, <2>1
<1>4. PICK f \in [Asked -> V] : Done(f, N + 1)
  BY <1>3
<1>5. F[f] \in [Asked -> V] /\ \A x \in Asked : f[x] = F[f][x]
  BY <1>0, <1>4
<1>6. QED BY <1>5

\* What fails, and the members, as the code computes them.
FailsAt(inv, r, x) ==
  \/ x[1] \in x[2]
  \/ x[1] \notin DOMAIN inv.computed /\ Assigned(inv, x[1]) = {}
  \/ /\ x[1] \in DOMAIN inv.computed
     /\ \E t \in Terms(inv.computed[x[1]]) :
          \/ t.kind = "group" /\ r[<<t.arg, x[2] \cup {x[1]}>>]
          \/ t.kind = "host" /\ t.arg \notin inv.hosts

MembersAt(inv, m, x) ==
  Assigned(inv, x[1]) \cup
    IF x[1] \in x[2] \/ x[1] \notin DOMAIN inv.computed \/ inv.computed[x[1]] = << >> THEN {}
    ELSE Fold(inv, inv.computed[x[1]], [h \in Group |-> m[<<h, x[2] \cup {x[1]}>>]])

LEMMA FailsIs ==
  ASSUME NEW inv, IsInventory(inv)
  PROVE  \A x \in Asked : Fails(inv)[x] <=> FailsAt(inv, Fails(inv), x)
<1> DEFINE F == [r \in [Asked -> BOOLEAN] |-> [x \in Asked |-> FailsAt(inv, r, x)]]
<1>1. F \in [[Asked -> BOOLEAN] -> [Asked -> BOOLEAN]]
  BY DEF FailsAt
<1>2. ASSUME NEW r \in [Asked -> BOOLEAN], NEW q \in [Asked -> BOOLEAN], NEW x \in Asked,
             \A y \in Asked : Unseen[y] < Unseen[x] => r[y] = q[y]
      PROVE  F[r][x] = F[q][x]
  <2>1. x[1] \notin x[2] =>
          \A g \in Group : r[<<g, x[2] \cup {x[1]}>>] = q[<<g, x[2] \cup {x[1]}>>]
    BY <1>2, UnseenFalls
  <2>2. x[1] \in DOMAIN inv.computed => \A t \in Terms(inv.computed[x[1]]) : t.kind = "group" => t.arg \in Group
    BY DEF IsInventory, IsSelector, IsTerm
  <2>3. FailsAt(inv, r, x) <=> FailsAt(inv, q, x)
    BY <2>1, <2>2 DEF FailsAt
  <2>4. F[r][x] = FailsAt(inv, r, x) /\ F[q][x] = FailsAt(inv, q, x)
    OBVIOUS
  <2>5. FailsAt(inv, r, x) \in BOOLEAN /\ FailsAt(inv, q, x) \in BOOLEAN
    BY DEF FailsAt
  <2>6. QED BY <2>3, <2>4, <2>5
<1>3. PICK r \in [Asked -> BOOLEAN] : r = F[r]
  <2> HIDE DEF F
  <2>2. TRUE \in BOOLEAN
    OBVIOUS
  <2>3. \A f, g \in [Asked -> BOOLEAN] : \A x \in Asked :
          (\A y \in Asked : Unseen[y] < Unseen[x] => f[y] = g[y]) => F[f][x] = F[g][x]
    BY <1>2
  <2>4. \E f \in [Asked -> BOOLEAN] : f = F[f]
    BY <1>1, <2>2, <2>3, Recursive, Zenon
  <2>5. QED BY <2>4
<1>4. r = [x \in Asked |-> FailsAt(inv, r, x)]
  BY <1>3
<1>5. Fails(inv) = CHOOSE q : q = [x \in Asked |-> FailsAt(inv, q, x)]
  BY Zenon DEF Fails, FailsAt, Asked
<1>6. Fails(inv) = [x \in Asked |-> FailsAt(inv, Fails(inv), x)]
  BY <1>4, <1>5
<1>7. QED BY <1>6

LEMMA MembersIs ==
  ASSUME NEW inv, IsInventory(inv)
  PROVE  \E m : /\ m = [x \in Asked |-> MembersAt(inv, m, x)]
                /\ Members(inv) = [g \in Group |-> m[<<g, {}>>]]
<1> DEFINE V == SUBSET inv.hosts
           F == [m \in [Asked -> V] |-> [x \in Asked |-> MembersAt(inv, m, x)]]
<1>1. ASSUME NEW m \in [Asked -> V], NEW x \in Asked PROVE MembersAt(inv, m, x) \in V
  <2>1. Assigned(inv, x[1]) \subseteq inv.hosts
    BY DEF Assigned
  <2>2. CASE x[1] \in x[2] \/ x[1] \notin DOMAIN inv.computed \/ inv.computed[x[1]] = << >>
    BY <2>1, <2>2 DEF MembersAt
  <2>3. CASE ~(x[1] \in x[2] \/ x[1] \notin DOMAIN inv.computed \/ inv.computed[x[1]] = << >>)
    <3>1. PICK e, member : e = inv.computed[x[1]] /\ member = [h \in Group |-> m[<<h, x[2] \cup {x[1]}>>]]
      OBVIOUS
    <3>2. MembersAt(inv, m, x) = Assigned(inv, x[1]) \cup Fold(inv, e, member)
      BY <2>3, <3>1 DEF MembersAt
    <3>3. IsSelector(e) /\ \A t \in Terms(e) : IsTerm(t)
      BY <2>3, <3>1 DEF IsInventory, IsSelector
    <3>4. \A g \in Group : member[g] \subseteq inv.hosts
      <4>1. \A g \in Group : <<g, x[2] \cup {x[1]}>> \in Asked
        BY <2>3, UnseenFalls
      <4>2. QED BY <3>1, <4>1
    <3>5. \A t \in Terms(e) : AtomSet(inv, t, member) \subseteq inv.hosts
      BY <3>3, <3>4 DEF AtomSet, IsTerm
    <3>6. \A h \in Fold(inv, e, member) : h \in inv.hosts
      <4>1. Plain(e) \subseteq Terms(e)
        BY DEF Plain
      <4>2. QED BY <3>3, <3>5, <4>1, FoldIs
    <3>7. QED BY <2>1, <3>2, <3>6
  <2>4. QED BY <2>2, <2>3
<1>2. F \in [[Asked -> V] -> [Asked -> V]]
  BY <1>1
<1>3. ASSUME NEW a \in [Asked -> V], NEW b \in [Asked -> V], NEW x \in Asked,
             \A y \in Asked : Unseen[y] < Unseen[x] => a[y] = b[y]
      PROVE  F[a][x] = F[b][x]
  <2>1. x[1] \notin x[2] =>
          [h \in Group |-> a[<<h, x[2] \cup {x[1]}>>]] = [h \in Group |-> b[<<h, x[2] \cup {x[1]}>>]]
    BY <1>3, UnseenFalls
  <2>2. MembersAt(inv, a, x) = MembersAt(inv, b, x)
    BY <2>1 DEF MembersAt
  <2>3. QED BY <2>2
<1>4. PICK m \in [Asked -> V] : m = F[m]
  <2> HIDE DEF F
  <2>2. {} \in V
    OBVIOUS
  <2>3. \A f, g \in [Asked -> V] : \A x \in Asked :
          (\A y \in Asked : Unseen[y] < Unseen[x] => f[y] = g[y]) => F[f][x] = F[g][x]
    BY <1>3
  <2> HIDE DEF V
  <2>4. \E f \in [Asked -> V] : f = F[f]
    BY <1>2, <2>2, <2>3, Recursive, Zenon
  <2>5. QED BY <2>4
<1>5. m = [x \in Asked |-> MembersAt(inv, m, x)]
  BY <1>4
<1> DEFINE M == CHOOSE q : q = [x \in Asked |-> MembersAt(inv, q, x)]
<1>6. Members(inv) = [g \in Group |-> M[<<g, {}>>]]
  BY Zenon DEF Members, MembersAt, Asked
<1>7. M = [x \in Asked |-> MembersAt(inv, M, x)]
  BY <1>5
<1>8. QED BY <1>6, <1>7

\* Where a group's members are found without an error, they are the same whatever
\* of the groups asked for on the way has been asked for.
LEMMA SameMembers ==
  ASSUME NEW inv, IsInventory(inv), NEW m, m = [x \in Asked |-> MembersAt(inv, m, x)],
         NEW g \in Group, NEW seen \in SUBSET Group, NEW less \in SUBSET seen, ~Fails(inv)[<<g, seen>>]
  PROVE  m[<<g, less>>] = m[<<g, seen>>]
<1> DEFINE Same(n) == \A x \in Asked : Unseen[x] < n /\ ~Fails(inv)[x] =>
                        \A s \in SUBSET x[2] : m[<<x[1], s>>] = m[x]
           N == Cardinality(Group)
           T == {n \in 0 .. N + 1 : Same(n)}
<1>1. N \in Nat /\ Unseen \in [Asked -> 0 .. N]
  BY UnseenFalls
<1>2. 0 \in T
  BY <1>1
<1>3. ASSUME NEW n \in 0 .. (N + 1) - 1, n \in T PROVE n + 1 \in T
  <2>1. ASSUME NEW x \in Asked, Unseen[x] < n + 1, ~Fails(inv)[x], NEW s \in SUBSET x[2] PROVE m[<<x[1], s>>] = m[x]
    <3>1. x[1] \notin x[2] /\ x[1] \notin s
      BY <2>1, FailsIs DEF FailsAt
    <3>2. <<x[1], s>> \in Asked /\ <<x[1], s>>[1] = x[1] /\ <<x[1], s>>[2] = s
      BY <2>1 DEF Asked
    <3>3. m[x] = MembersAt(inv, m, x) /\ m[<<x[1], s>>] = MembersAt(inv, m, <<x[1], s>>)
      BY <3>2
    <3>4. CASE x[1] \notin DOMAIN inv.computed \/ inv.computed[x[1]] = << >>
      BY <3>2, <3>3, <3>4 DEF MembersAt
    <3>5. CASE x[1] \in DOMAIN inv.computed /\ inv.computed[x[1]] # << >>
      <4>1. PICK e : e = inv.computed[x[1]]
        OBVIOUS
      <4>2. PICK a, b : a = [h \in Group |-> m[<<h, x[2] \cup {x[1]}>>]] /\ b = [h \in Group |-> m[<<h, s \cup {x[1]}>>]]
        OBVIOUS
      <4>3. m[x] = Assigned(inv, x[1]) \cup Fold(inv, e, a) /\ m[<<x[1], s>>] = Assigned(inv, x[1]) \cup Fold(inv, e, b)
        BY <3>1, <3>2, <3>3, <3>5, <4>1, <4>2 DEF MembersAt
      <4>4. IsSelector(e)
        BY <3>5, <4>1 DEF IsInventory
      <4>5. ASSUME NEW t \in Terms(e), t.kind = "group" PROVE a[t.arg] = b[t.arg]
        <5>1. t.arg \in Group
          BY <4>4, <4>5 DEF IsSelector, IsTerm
        <5>2. PICK y : y = <<t.arg, x[2] \cup {x[1]}>>
          OBVIOUS
        <5>3. y \in Asked /\ Unseen[y] < Unseen[x] /\ y[1] = t.arg /\ y[2] = x[2] \cup {x[1]}
          BY <3>1, <5>1, <5>2, UnseenFalls
        <5>4. ~Fails(inv)[y]
          BY <2>1, <3>5, <4>1, <4>5, <5>2, FailsIs DEF FailsAt
        <5>5. Unseen[y] < n
          BY <1>1, <2>1, <5>3
        <5>6. m[<<y[1], s \cup {x[1]}>>] = m[y]
          BY <1>3, <5>3, <5>4, <5>5
        <5>7. QED BY <4>2, <5>1, <5>2, <5>3, <5>6
      <4>6. Fold(inv, e, a) = Fold(inv, e, b)
        BY <4>4, <4>5, FoldAsks
      <4>7. QED BY <4>3, <4>6
    <3>6. QED BY <3>4, <3>5
  <2>2. Same(n + 1)
    BY <2>1
  <2> HIDE DEF Same
  <2>3. QED BY <1>1, <2>2
<1>4. Same(N + 1)
  <2> HIDE DEF T, Same
  <2>1. 0 .. N + 1 \subseteq T
    BY <1>1, <1>2, <1>3, UpTo
  <2>2. N + 1 \in T
    BY <1>1, <2>1
  <2>3. QED BY <2>2 DEF T
<1>5. <<g, seen>> \in Asked /\ Unseen[<<g, seen>>] < N + 1
  BY <1>1 DEF Asked
<1>6. QED BY <1>4, <1>5

----------------------------------------------------------------------------
(* The file.                                                               *)

\* A file that loads, and copies of such.
InventoryInv ==
  /\ IsInventory(fleet) /\ Valid(fleet)
  /\ doing \in [Process -> {"idle", "load", "edit", "save"}]
  /\ cmd = [p \in Process |-> cmd[p]] /\ copy = [p \in Process |-> copy[p]]
  /\ \A p \in Process : /\ doing[p] # "idle" => cmd[p] \in Orders
                        /\ doing[p] \in {"edit", "save"} => IsInventory(copy[p])

LEMMA InitInventoryInv == InventoryInit => InventoryInv
BY InventoryAssumption DEF InventoryInit, InventoryInv

\* An inventory of given parts.
Parts(hosts, in, computed) == [hosts : {hosts}, in : {in}, computed : {computed}]

LEMMA IsParts ==
  ASSUME NEW hosts, NEW in, NEW computed, NEW inv \in Parts(hosts, in, computed)
  PROVE  inv = [hosts |-> hosts, in |-> in, computed |-> computed]
BY DEF Parts

LEMMA WithHosts ==
  ASSUME NEW inv, IsInventory(inv), NEW hosts, NEW in
  PROVE  [inv EXCEPT !.hosts = hosts, !.in = in] = [hosts |-> hosts, in |-> in, computed |-> inv.computed]
<1>1. PICK h, i, c : h = inv.hosts /\ i = inv.in /\ c = inv.computed
  OBVIOUS
<1>2. inv \in Parts(h, i, c)
  BY <1>1 DEF IsInventory, Parts
<1>3. [inv EXCEPT !.hosts = hosts, !.in = in] \in Parts(hosts, in, c)
  BY <1>2 DEF Parts
<1>4. QED BY <1>1, <1>3, IsParts

\* No command touches the computed groups.
LEMMA ChangedIsInventory ==
  ASSUME NEW inv, IsInventory(inv), NEW c \in Orders
  PROVE  IsInventory(Changed(inv, c))
<1>1. PICK hosts, in, computed : inv = [hosts |-> hosts, in |-> in, computed |-> computed]
  BY DEF IsInventory
<1>2. ASSUME NEW hs, NEW of PROVE [inv EXCEPT !.hosts = hs, !.in = of] = [hosts |-> hs, in |-> of, computed |-> computed]
  <2>1. computed = inv.computed
    BY <1>1
  <2>2. QED BY <2>1, WithHosts
<1>3. ASSUME NEW of PROVE [inv EXCEPT !.in = of] = [hosts |-> hosts, in |-> of, computed |-> computed]
  BY <1>1
<1>4. \E hs, of : Changed(inv, c) = [hosts |-> hs, in |-> of, computed |-> computed]
  <2>1. CASE c.kind = "add"
    <3>1. PICK of : of = [x \in inv.hosts \cup c.hosts |->
                           IF x \in c.hosts THEN Upsert(inv, x, c.groups, c.replace).in[x] ELSE inv.in[x]]
      OBVIOUS
    <3>2. Changed(inv, c) = [inv EXCEPT !.hosts = inv.hosts \cup c.hosts, !.in = of]
      BY <2>1, <3>1 DEF Changed, UpsertAll
    <3>3. QED BY <1>2, <3>2
  <2>2. CASE c.kind = "remove"
    <3>1. PICK h : h = CHOOSE x \in c.hosts : TRUE
      OBVIOUS
    <3>2. PICK of : of = [x \in inv.hosts \ {h} |-> inv.in[x]]
      OBVIOUS
    <3>3. Changed(inv, c) = [inv EXCEPT !.hosts = inv.hosts \ {h}, !.in = of]
      BY <2>2, <3>1, <3>2 DEF Changed, Without
    <3>4. QED BY <1>2, <3>3
  <2>3. CASE c.kind = "group"
    <3>1. PICK g : g = CHOOSE x \in c.groups : TRUE
      OBVIOUS
    <3>2. PICK add, remove : add = Chosen(inv, c.to) /\ remove = Chosen(inv, c.from)
      OBVIOUS
    <3>3. Changed(inv, c) = Regroup(inv, g, add, remove)
      BY <2>3, <3>1, <3>2 DEF Changed
    <3>4. PICK of : of = [x \in inv.hosts |->
                           (inv.in[x] \cup (IF x \in add THEN {g} ELSE {})) \ (IF x \in remove THEN {g} ELSE {})]
      OBVIOUS
    <3>5. Changed(inv, c) = [inv EXCEPT !.in = of]
      BY <3>3, <3>4 DEF Regroup
    <3>6. QED BY <1>3, <3>5
  <2>4. QED BY <2>1, <2>2, <2>3, InventoryAssumption
<1>5. QED BY <1>1, <1>4 DEF IsInventory

LEMMA NextInventoryInv == InventoryInv /\ [InventoryNext]_inventoryVars => InventoryInv'
<1> SUFFICES ASSUME InventoryInv, [InventoryNext]_inventoryVars PROVE InventoryInv'
  OBVIOUS
<1>1. CASE UNCHANGED inventoryVars
  BY <1>1 DEF inventoryVars, InventoryInv
<1>2. ASSUME NEW p \in Process, Finish(p)
      PROVE  /\ doing' \in [Process -> {"idle", "load", "edit", "save"}]
             /\ cmd' = [q \in Process |-> cmd'[q]] /\ copy' = [q \in Process |-> copy'[q]]
             /\ \A q \in Process : /\ doing'[q] # "idle" => cmd'[q] \in Orders
                                   /\ doing'[q] \in {"edit", "save"} => IsInventory(copy'[q])
  <2>1. /\ doing' = [doing EXCEPT ![p] = "idle"] /\ cmd' = [cmd EXCEPT ![p] = Nothing]
        /\ copy' = [copy EXCEPT ![p] = Nothing]
    BY <1>2 DEF Finish
  <2>2. \A q \in Process : doing'[q] # "idle" => doing'[q] = doing[q] /\ cmd'[q] = cmd[q] /\ copy'[q] = copy[q]
    BY <2>1 DEF InventoryInv
  <2>3. QED BY <2>1, <2>2 DEF InventoryInv
<1>3. ASSUME NEW p \in Process, Quit(p) PROVE InventoryInv'
  BY <1>2, <1>3 DEF Quit, InventoryInv
<1>4. ASSUME NEW p \in Process, Give(p) PROVE InventoryInv'
  <2>1. PICK c \in Orders : cmd' = [cmd EXCEPT ![p] = c]
    BY <1>4 DEF Give
  <2>2. doing[p] = "idle" /\ doing' = [doing EXCEPT ![p] = "load"] /\ UNCHANGED <<fleet, copy>>
    BY <1>4 DEF Give
  <2>3. QED BY <2>1, <2>2 DEF InventoryInv
<1>5. ASSUME NEW p \in Process, LoadFile(p) PROVE InventoryInv'
  <2>1. CASE Valid(fleet)
    <3>1. /\ doing[p] = "load" /\ doing' = [doing EXCEPT ![p] = "edit"] /\ copy' = [copy EXCEPT ![p] = fleet]
          /\ UNCHANGED <<fleet, cmd>>
      BY <1>5, <2>1 DEF LoadFile
    <3>2. QED BY <3>1 DEF InventoryInv
  <2>2. CASE ~Valid(fleet)
    BY <2>2 DEF InventoryInv
  <2>3. QED BY <2>1, <2>2
<1>6. ASSUME NEW p \in Process, Edit(p) PROVE InventoryInv'
  <2>1. doing[p] = "edit" /\ cmd[p] \in Orders /\ IsInventory(copy[p])
    <3>1. doing[p] = "edit"
      BY <1>6 DEF Edit
    <3>2. doing[p] # "idle" /\ doing[p] \in {"edit", "save"}
      BY <3>1
    <3>3. QED BY <3>1, <3>2 DEF InventoryInv
  <2>2. CASE Refuses(copy[p], cmd[p])
    BY <1>3, <1>6, <2>2 DEF Edit
  <2>3. CASE ~Refuses(copy[p], cmd[p])
    <3>1. PICK new : new = Changed(copy[p], cmd[p])
      OBVIOUS
    <3>2. IsInventory(new)
      BY <2>1, <3>1, ChangedIsInventory
    <3>3. /\ doing' = [doing EXCEPT ![p] = "save"] /\ copy' = [copy EXCEPT ![p] = new]
          /\ UNCHANGED <<fleet, cmd>>
      BY <1>6, <2>3, <3>1 DEF Edit
    <3>4. QED BY <2>1, <3>2, <3>3 DEF InventoryInv
  <2>4. QED BY <2>2, <2>3
<1>7. ASSUME NEW p \in Process, Save(p) PROVE InventoryInv'
  <2>1. CASE cmd[p].dry \/ ~Valid(copy[p])
    BY <1>3, <1>7, <2>1 DEF Save
  <2>2. CASE ~(cmd[p].dry \/ ~Valid(copy[p]))
    <3>1. Finish(p) /\ fleet' = copy[p] /\ doing[p] = "save" /\ Valid(copy[p])
      BY <1>7, <2>2 DEF Save
    <3>2. IsInventory(fleet)' /\ Valid(fleet)'
      <4>1. doing[p] \in {"edit", "save"}
        BY <3>1
      <4>2. IsInventory(copy[p])
        BY <4>1, Zenon DEF InventoryInv
      <4>3. QED BY <3>1, <4>2 DEF IsInventory, Valid
    <3>3. QED BY <1>2, <3>1, <3>2 DEF InventoryInv
  <2>3. QED BY <2>1, <2>2
<1>8. QED BY <1>1, <1>4, <1>5, <1>6, <1>7 DEF InventoryNext

\* For any names, groups and commands of any number of processes: a selector
\* selects the hosts that its terms mean, in whatever order they stand, and a
\* computed group has the members its selector means.
THEOREM SelectorsMean == InventorySpec => []SelectorMeaning
<1>1. InventoryInv => SelectorMeaning
  <2> SUFFICES ASSUME InventoryInv PROVE SelectorMeaning
    OBVIOUS
  <2>1. IsInventory(fleet) /\ Valid(fleet)
    BY DEF InventoryInv
  <2> DEFINE member == Members(fleet)
             Means(h, e) == /\ Plain(e) = {} \/ \E t \in Plain(e) : Picks(fleet, t, member, h)
                            /\ \A t \in Terms(e) : (t.op = "&" => Picks(fleet, t, member, h))
                                                   /\ (t.op = "!" => ~Picks(fleet, t, member, h))
  <2>2. ASSUME NEW h \in fleet.hosts, NEW e, IsSelector(e) PROVE h \in Fold(fleet, e, member) <=> Means(h, e)
    <3> HIDE DEF member
    <3>1. h \in Fold(fleet, e, member)
            <=> /\ IF Plain(e) = {} THEN h \in fleet.hosts ELSE \E t \in Plain(e) : h \in AtomSet(fleet, t, member)
                /\ \A t \in Terms(e) : /\ t.op = "&" => h \in AtomSet(fleet, t, member)
                                       /\ t.op = "!" => h \notin AtomSet(fleet, t, member)
      BY <2>2, FoldIs
    <3>2. QED BY <2>2, <3>1 DEF Picks
  <2>3. ASSUME NEW h \in fleet.hosts, NEW e \in Selectors, Resolves(fleet, e)
        PROVE  h \in Select(fleet, e) <=> Means(h, e)
    <3>1. IsSelector(e) /\ Select(fleet, e) = Fold(fleet, e, member)
      BY <2>3, InventoryAssumption DEF Select
    <3> HIDE DEF member, Means
    <3>2. QED BY <2>2, <3>1
  <2>4. ASSUME NEW h \in fleet.hosts, NEW g \in DOMAIN fleet.computed, fleet.computed[g] # << >>
        PROVE  h \in member[g] <=> Means(h, fleet.computed[g])
    <3>1. PICK m : /\ m = [x \in Asked |-> MembersAt(fleet, m, x)]
                   /\ member = [x \in Group |-> m[<<x, {}>>]]
      BY <2>1, MembersIs
    <3>2. PICK e : e = fleet.computed[g]
      OBVIOUS
    <3>3. g \in Group /\ IsSelector(e) /\ ~Fails(fleet)[<<g, {}>>] /\ <<g, {}>> \in Asked
      BY <2>1, <3>2 DEF IsInventory, Valid, Asked
    <3>4. Assigned(fleet, g) = {}
      BY <2>1 DEF Valid, Assigned
    <3>5. PICK on : on = [x \in Group |-> m[<<x, {g}>>]]
      OBVIOUS
    <3>6. member[g] = Fold(fleet, e, on)
      <4>1. member[g] = MembersAt(fleet, m, <<g, {}>>)
        BY <3>1, <3>3
      <4>2. <<g, {}>>[1] = g /\ <<g, {}>>[2] = {} /\ {} \cup {g} = {g}
        OBVIOUS
      <4>3. MembersAt(fleet, m, <<g, {}>>) = Assigned(fleet, g) \cup Fold(fleet, e, on)
        BY <2>4, <3>2, <3>5, <4>2 DEF MembersAt
      <4>4. QED BY <3>4, <4>1, <4>3
    <3>7. ASSUME NEW t \in Terms(e), t.kind = "group" PROVE on[t.arg] = member[t.arg]
      <4>1. t.arg \in Group /\ {g} \in SUBSET Group /\ {} \in SUBSET {g}
        BY <3>3, <3>7 DEF IsSelector, IsTerm
      <4>2. ~Fails(fleet)[<<t.arg, {g}>>]
        <5>1. ~FailsAt(fleet, Fails(fleet), <<g, {}>>)
          BY <2>1, <3>3, FailsIs
        <5>2. {} \cup {g} = {g}
          OBVIOUS
        <5>3. QED BY <3>2, <3>7, <5>1, <5>2 DEF FailsAt
      <4>3. m[<<t.arg, {}>>] = m[<<t.arg, {g}>>]
        BY <2>1, <3>1, <4>1, <4>2, SameMembers
      <4>4. QED BY <3>1, <3>5, <4>1, <4>3
    <3> HIDE DEF member, Means
    <3>8. Fold(fleet, e, on) = Fold(fleet, e, member)
      BY <3>3, <3>7, FoldAsks
    <3>9. QED BY <2>2, <3>2, <3>3, <3>6, <3>8
  <2>5. QED BY <2>3, <2>4, Zenon DEF SelectorMeaning
<1>2. QED BY <1>1, InitInventoryInv, NextInventoryInv, PTL DEF InventorySpec

=============================================================================
