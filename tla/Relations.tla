------------------------------ MODULE Relations ------------------------------
(***************************************************************************)
(* Tables and foreign keys (Relations of src/aisb/services/sql.py), as the *)
(* catalog queries of the three engines give them.  A schema is            *)
(*     [pk: for each table the sequence of its key columns, maybe none,    *)
(*      cols: for each table the set of its columns,                       *)
(*      unique: for each table its other UNIQUE constraints, as sequences, *)
(*      fks: a set of [child, cols, parent, ref],                          *)
(*      free: the pairs <<table, column>> that may be NULL,                *)
(*      strict: the tables with constraints of another kind (CHECK...),    *)
(*      kind: for each pair <<table, column>> where the values of `db seed`*)
(*            come from, see Dataset].                                     *)
(* A database is a set of rows for each table, a row a function from its   *)
(* columns to numbers, 0 for NULL.  Only the columns of keys, UNIQUE       *)
(* constraints and foreign keys are modelled.                              *)
(***************************************************************************)
EXTENDS Naturals, Sequences, FiniteSets

Tables(s) == DOMAIN s.pk
Elems(q) == {q[i] : i \in DOMAIN q}

\* The values of a row in some columns, and whether none is NULL.
Pick(row, cols) == [i \in DOMAIN cols |-> row[cols[i]]]
Whole(v) == \A i \in DOMAIN v : v[i] # 0

\* Foreign keys from one table to another; those to itself order nothing.
Between(s) == {f \in s.fks : f.child # f.parent}

\* roots(): the tables that no other refers to.
Roots(s) == {t \in Tables(s) : \A f \in Between(s) : f.parent # t}

\* Whether every table of todo refers to some other of todo: a cycle.
Cyclic(s, todo) == todo # {} /\ \A t \in todo : \E f \in Between(s) : f.child = t /\ f.parent \in todo

\* parents_first(): those that may come first of the tables still to do; any
\* if the references go round in a circle.
Firsts(s, all, todo) ==
  IF \E r \in SUBSET all : Cyclic(s, r) THEN todo
  ELSE {t \in todo : \A f \in Between(s) : f.child = t => f.parent \notin todo}

\* Columns in which no two rows of t agree: its key and its other UNIQUE
\* constraints.  With a NULL among them they do not count.
Keys(s, t) == ({s.pk[t]} \cup s.unique[t]) \ {<< >>}
Unique(s, t, rows) ==
  \A k \in Keys(s, t) : \A q, r \in rows : Pick(q, k) = Pick(r, k) /\ Whole(Pick(r, k)) => q = r
Taken(s, t, r, rows) == \E k \in Keys(s, t) : \E q \in rows : Pick(q, k) = Pick(r, k) /\ Whole(Pick(r, k))

\* The engine: a batch of rows is inserted if no key is taken, no column is NULL
\* that may not be, and every reference is met, by the batch too.  Equal rows
\* without a key are one.
NoneMissing(s, t, rows) == \A r \in rows : \A c \in s.cols[t] : r[c] = 0 => <<t, c>> \in s.free
Accepts(s, db, t, rows) ==
  /\ NoneMissing(s, t, rows) /\ Unique(s, t, rows) /\ \A r \in rows : ~Taken(s, t, r, db[t])
  /\ \A f \in s.fks : f.child = t =>
       \A r \in rows : ~Whole(Pick(r, f.cols))
          \/ \E q \in IF f.parent = t THEN db[t] \cup rows ELSE db[f.parent] : Pick(q, f.ref) = Pick(r, f.cols)

\* Every row refers to rows among these only.
Refers(s, rows) ==
  \A f \in s.fks : \A r \in rows[f.child] :
    Whole(Pick(r, f.cols)) => \E q \in rows[f.parent] : Pick(q, f.ref) = Pick(r, f.cols)

\* What the engine keeps true of a database.
Consistent(s, db) ==
  /\ db = [t \in Tables(s) |-> db[t]] /\ Refers(s, db)
  /\ \A t \in Tables(s) : /\ IsFiniteSet(db[t]) /\ Unique(s, t, db[t]) /\ NoneMissing(s, t, db[t])
                          /\ db[t] \subseteq [s.cols[t] -> Nat]

\* A schema the catalog can hold: references are between columns of its tables,
\* to a key of the parent, and name a column once.
SoundSchema(s) ==
  /\ \A t \in Tables(s) : IsFiniteSet(s.cols[t]) /\ Elems(s.pk[t]) \subseteq s.cols[t]
  /\ \A f \in s.fks :
       /\ f.child \in Tables(s) /\ Elems(f.cols) \subseteq s.cols[f.child]
       /\ f.parent \in Tables(s) /\ Elems(f.ref) \subseteq s.cols[f.parent] /\ f.ref \in Keys(s, f.parent)
       /\ f.ref \in Seq(Elems(f.ref)) \ {<< >>} /\ DOMAIN f.cols = DOMAIN f.ref
       /\ \A i, j \in DOMAIN f.cols : f.cols[i] = f.cols[j] => i = j
=============================================================================
