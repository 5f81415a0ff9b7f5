--------------------------- MODULE AuditLogProofs ---------------------------
(***************************************************************************)
(* Proofs about AuditLog, for every number of writers, keys and records    *)
(* and every sequence of torn writes and outside changes.                  *)
(***************************************************************************)
EXTENDS AuditLog, SequenceTheorems, WellFoundedInduction, TLAPS

\* Nobody but record() has changed the file.
Ours == tampers = 0

\* The holder of the lock is the one writer in the critical section, and what
\* it has read is still the last hash.
Exclusive ==
  \A w \in Writer :
    /\ pc[w] = "locked" => lock = w
    /\ (pc[w] = "locked" /\ Ours) => seen[w] = LastHash

\* Every signature in the file is one that record() made: the key is needed
\* to make another, and the changes from outside only move or drop them.
MacsMade ==
  \A n \in 1..Len(log) :
    (log[n] # Scrap /\ log[n].mac # None) => \E i \in 1..Len(made) : made[i].mac = log[n].mac

Spoiled == \E n \in 1..Len(log) : log[n] = Scrap

\* Whatever was torn, the file holds every record or a line that is not JSON.
Kept == Ours => log = made \/ Spoiled

Links(n) == log[n].prev = HashBefore(log, n) /\ log[n].hash = Digest(log[n].prev, log[n].body)

Chained ==
  (Ours /\ tears = 0) =>
    /\ tail = "clean"
    /\ log = made
    /\ \A n \in 1..Len(log) : Links(n)

\* A checkpoint's head commits to the records it stands for.
Committed == \A a \in anchors : a.head = a.bodies /\ Len(a.bodies) = a.records

IInv == TypeOK /\ Exclusive /\ MacsMade /\ Kept /\ Chained /\ Committed

----------------------------------------------------------------------------
(* The least counterexample, where a pencil proof would use induction.       *)

\* A nonempty set of natural numbers has a least element.
LEMMA HasLeast ==
  ASSUME NEW T, T \subseteq Nat, T # {}
  PROVE  \E x \in T : \A y \in T : x <= y
<1> DEFINE R == OpToRel(<, Nat)
<1>1. IsWellFoundedOn(R, Nat)
  BY NatLessThanWellFounded, Zenon
<1>2. R = {ss \in Nat \X Nat : ss[1] < ss[2]}
  BY Zenon DEF OpToRel
<1> HIDE DEF R
<1>3. PICK x \in T : \A y \in T : ~ (<<y, x>> \in R)
  BY <1>1, WFMin
<1>4. \A y \in T : ~ (y < x)
  BY <1>2, <1>3
<1>5. QED BY <1>4

----------------------------------------------------------------------------
(* Lines and hashes.                                                       *)

\* What Append does to a sequence.
LEMMA Appending ==
  ASSUME NEW S, NEW s \in Seq(S), NEW e \in S
  PROVE  /\ Append(s, e) \in Seq(S)
         /\ Len(Append(s, e)) = Len(s) + 1
         /\ \A i \in 1..Len(s) : Append(s, e)[i] = s[i]
         /\ Append(s, e)[Len(s) + 1] = e
  BY AppendProperties

\* The hash before a line is a hash.
LEMMA HashBeforeType ==
  ASSUME NEW lg \in Seq(Line), NEW n \in 1..(Len(lg) + 1)
  PROVE  HashBefore(lg, n) \in Hash
<1>1. CASE n = 1 \/ lg[n - 1] = Scrap
  BY <1>1 DEF HashBefore, GENESIS, Hash
<1>2. CASE ~(n = 1 \/ lg[n - 1] = Scrap)
  <2>1. lg[n - 1] \in Rec
    BY <1>2 DEF Line
  <2>2. QED BY <1>2, <2>1 DEF HashBefore, Rec
<1>3. QED BY <1>1, <1>2

\* A record made with a key state is a record, and carries what it was made of.
LEMMA SignedFacts ==
  ASSUME NEW h \in Hash, NEW e \in Event, NEW k \in KeyState
  PROVE  LET r == Signed(h, BodyOf(e, k), k) IN
         /\ r \in Rec
         /\ r.prev = h
         /\ r.hash = Digest(r.prev, r.body)
<1> DEFINE b == BodyOf(e, k)
<1>1. b \in Body
  BY DEF BodyOf, Body, KeyState
<1> HIDE DEF b
<1>2. Digest(h, b) \in Hash
  BY <1>1, Appending DEF Digest, Hash
<1>3. MacOf(k, Digest(h, b)) \in Mac
  BY <1>2 DEF MacOf, Mac
<1>4. QED BY <1>1, <1>2, <1>3 DEF Signed, Rec, b

\* What a write leaves: one line more, or a spoiled last line.
LEMMA WrittenFacts ==
  ASSUME TypeOK, NEW line \in Line
  PROVE  /\ Written(line) \in Seq(Line)
         /\ Written(line) # << >>
         /\ tail = "clean" => Written(line) = Append(log, line)
         /\ tail # "clean" => /\ Len(Written(line)) = Len(log)
                              /\ Len(log) \in Nat \ {0}
                              /\ Written(line)[Len(log)] = Scrap
                              /\ \A n \in 1..(Len(log) - 1) : Written(line)[n] = log[n]
<1>1. log \in Seq(Line) /\ (tail # "clean" => log # << >>)
  BY DEF TypeOK
<1>2. CASE tail = "clean"
  BY <1>1, <1>2, Appending DEF Written
<1>3. CASE tail # "clean"
  <2>1. Len(log) \in Nat \ {0}
    BY <1>1, <1>3
  <2>2. Scrap \in Line
    BY DEF Line
  <2>3. Written(line) = [log EXCEPT ![Len(log)] = Scrap]
    BY <1>3 DEF Written
  <2>4. QED BY <1>1, <1>3, <2>1, <2>2, <2>3, ExceptSeq
<1>4. QED BY <1>2, <1>3

\* When no line is broken, the hash before line n + 1 stands for exactly the
\* first n records: by the least n for which it would not.
LEMMA HashIsPrefix ==
  ASSUME NEW lg \in Seq(Line), NEW k, BrokenLines(lg, k) = {}
  PROVE  /\ Bodies(lg) \in Hash
         /\ Len(Bodies(lg)) = Len(lg)
         /\ \A n \in 0..Len(lg) : HashBefore(lg, n + 1) = SubSeq(Bodies(lg), 1, n)
<1> DEFINE B == Bodies(lg)
<1>1. \A n \in 1..Len(lg) : lg[n] \in Rec /\ lg[n] # Scrap /\ lg[n].hash = Append(HashBefore(lg, n), lg[n].body)
  BY DEF BrokenLines, Broken, Modified, Digest, Line
<1>2. B \in Seq(Body) /\ Len(B) = Len(lg)
  <2>1. \A n \in 1..Len(lg) : lg[n].body \in Body
    BY <1>1 DEF Rec
  <2>2. QED BY <2>1, IsASeq DEF Bodies
<1>3. \A n \in 1..Len(lg) : B[n] = lg[n].body
  BY DEF Bodies
<1> HIDE DEF B
<1> DEFINE Bad == {n \in 0..Len(lg) : HashBefore(lg, n + 1) # SubSeq(B, 1, n)}
<1>4. Bad = {}
  <2> SUFFICES ASSUME Bad # {} PROVE FALSE
    OBVIOUS
  <2>0. Len(lg) \in Nat /\ Bad \subseteq Nat
    OBVIOUS
  <2>1. PICK n \in Bad : \A m \in Bad : n <= m
    <3> HIDE DEF Bad
    <3>1. QED BY <2>0, HasLeast
  <2>2. n # 0
    <3>1. SubSeq(B, 1, 0) = << >>
      BY SubSeqEmpty
    <3>2. QED BY <3>1 DEF HashBefore, GENESIS
  <2>3. n \in 1..Len(lg) /\ n - 1 \notin Bad
    <3>1. n \in 1..Len(lg)
      BY <2>0, <2>2
    <3> HIDE DEF Bad
    <3>2. QED BY <2>0, <2>1, <3>1
  <2>4. HashBefore(lg, n) = SubSeq(B, 1, n - 1)
    BY <2>3
  <2>5. HashBefore(lg, n + 1) = Append(SubSeq(B, 1, n - 1), B[n])
    <3>1. n + 1 # 1 /\ (n + 1) - 1 = n /\ lg[n] # Scrap
      BY <1>1, <2>3
    <3>2. HashBefore(lg, n + 1) = lg[n].hash
      BY <3>1 DEF HashBefore
    <3>3. QED BY <1>1, <1>3, <2>3, <2>4, <3>2
  <2>6. SubSeq(B, 1, n) = SubSeq(B, 1, n - 1) \o <<B[n]>>
    BY <1>2, <2>3, SubSeqRecursiveSecond
  <2>7. SubSeq(B, 1, n - 1) \in Seq(Body)
    BY <1>2, <2>3, SubSeqProperties
  <2>8. Append(SubSeq(B, 1, n - 1), B[n]) = SubSeq(B, 1, n - 1) \o <<B[n]>>
    BY <1>2, <2>3, <2>7, AppendIsConcat
  <2>9. QED BY <2>1, <2>5, <2>6, <2>8
<1>5. QED BY <1>2, <1>4 DEF B, Hash
----------------------------------------------------------------------------
(* The steps of the writers.                                               *)

\* A writer in the critical section holds a record to write: it is well
\* formed, and in a file of our own it continues the chain.
LEMMA RecordFacts ==
  ASSUME IInv, NEW w \in Writer, NEW e \in Event, pc[w] = "locked"
  PROVE  /\ Record(w, e) \in Rec
         /\ Record(w, e).hash = Digest(Record(w, e).prev, Record(w, e).body)
         /\ Ours => Record(w, e).prev = LastHash
<1>1. seen[w] \in Hash /\ key[w] \in KeyState
  BY DEF IInv, TypeOK
<1>2. Ours => seen[w] = LastHash
  BY DEF IInv, Exclusive
<1>3. QED BY <1>1, <1>2, SignedFacts DEF Record

\* Writing a record, or a piece of it, keeps what the invariant says of the
\* file: its type, its signatures, and that nothing is lost unnoticed.
LEMMA WriteKeeps ==
  ASSUME IInv, NEW r \in Rec, NEW line \in {r, Scrap},
         log' = Written(line), made' = Append(made, r), UNCHANGED tampers
  PROVE  /\ log' \in Seq(Line) /\ log' # << >>
         /\ made' \in Seq(Rec)
         /\ MacsMade'
         /\ line = r \/ tail # "clean" => Kept'
<1>1. log \in Seq(Line) /\ made \in Seq(Rec) /\ r \in Line /\ line \in Line /\ TypeOK
  BY DEF IInv, TypeOK, Line
<1>2. /\ made' \in Seq(Rec)
      /\ Len(made') = Len(made) + 1
      /\ \A i \in 1..Len(made) : made'[i] = made[i]
      /\ made'[Len(made) + 1] = r
  BY <1>1, Appending
<1>3. Len(log) \in Nat /\ Len(made) \in Nat
  BY <1>1
<1>4. CASE tail = "clean"
  <2>1. /\ log' \in Seq(Line) /\ log' # << >>
        /\ log' = Append(log, line)
        /\ Len(log') = Len(log) + 1
        /\ \A n \in 1..Len(log) : log'[n] = log[n]
        /\ log'[Len(log) + 1] = line
    <3>1. log' = Append(log, line)
      BY <1>1, <1>4, WrittenFacts
    <3>2. QED BY <1>1, <3>1, Appending
  <2>2. MacsMade'
    <3> SUFFICES ASSUME NEW n \in 1..Len(log'), log'[n] # Scrap, log'[n].mac # None
                 PROVE  \E i \in 1..Len(made') : made'[i].mac = log'[n].mac
      BY DEF MacsMade
    <3>1. CASE n = Len(log) + 1
      BY <1>2, <1>3, <2>1, <3>1
    <3>2. CASE n \in 1..Len(log)
      <4>1. PICK i \in 1..Len(made) : made[i].mac = log[n].mac
        BY <2>1, <3>2 DEF IInv, MacsMade
      <4>2. QED BY <1>2, <1>3, <2>1, <3>2, <4>1
    <3>3. QED BY <1>3, <2>1, <3>1, <3>2
  <2>3. line = r => Kept'
    <3> SUFFICES ASSUME line = r, Ours PROVE log' = made' \/ Spoiled'
      BY DEF Kept, Ours
    <3>1. CASE log = made
      BY <2>1, <3>1
    <3>2. CASE Spoiled
      <4>1. PICK n \in 1..Len(log) : log[n] = Scrap
        BY <3>2 DEF Spoiled
      <4>2. n \in 1..Len(log') /\ log'[n] = Scrap
        BY <1>3, <2>1, <4>1
      <4>3. QED BY <4>2 DEF Spoiled
    <3>3. QED BY <3>1, <3>2 DEF IInv, Kept
  <2>4. QED BY <1>2, <1>4, <2>1, <2>2, <2>3
<1>5. CASE tail # "clean"
  <2>1. /\ log' \in Seq(Line) /\ log' # << >>
        /\ Len(log') = Len(log)
        /\ Len(log) \in Nat \ {0}
        /\ log'[Len(log)] = Scrap
        /\ \A n \in 1..(Len(log) - 1) : log'[n] = log[n]
    BY <1>1, <1>5, WrittenFacts
  <2>2. MacsMade'
    <3> SUFFICES ASSUME NEW n \in 1..Len(log'), log'[n] # Scrap, log'[n].mac # None
                 PROVE  \E i \in 1..Len(made') : made'[i].mac = log'[n].mac
      BY DEF MacsMade
    <3>1. n \in 1..(Len(log) - 1) /\ log'[n] = log[n] /\ n \in 1..Len(log)
      BY <2>1
    <3>2. PICK i \in 1..Len(made) : made[i].mac = log[n].mac
      BY <3>1 DEF IInv, MacsMade
    <3>3. QED BY <1>2, <1>3, <3>1, <3>2
  <2>3. Kept'
    <3>1. Len(log) \in 1..Len(log')
      BY <2>1
    <3>2. Spoiled'
      BY <2>1, <3>1 DEF Spoiled
    <3>3. QED BY <3>2 DEF Kept
  <2>4. QED BY <1>2, <2>1, <2>2, <2>3
<1>6. QED BY <1>4, <1>5

\* A step that leaves the file, the checkpoints and the counters alone keeps
\* what the invariant says of them.
LEMMA FileAlone ==
  ASSUME IInv, UNCHANGED <<log, tail, anchors, made, tampers, tears>>
  PROVE  MacsMade' /\ Kept' /\ Chained' /\ Committed'
<1>1. MacsMade'
  BY DEF IInv, MacsMade
<1>2. Kept'
  BY DEF IInv, Kept, Spoiled, Ours
<1>3. Chained'
  BY DEF IInv, Chained, Links, HashBefore, Ours
<1>4. Committed'
  BY DEF IInv, Committed
<1>5. QED BY <1>1, <1>2, <1>3, <1>4

\* Loading the key, taking the lock and dying keep the invariant.
LEMMA LoadKeyKeeps ==
  ASSUME IInv, NEW w \in Writer, LoadKey(w)
  PROVE  IInv'
<1>1. TypeOK'
  <2>1. key' \in [Writer -> KeyState] /\ pc' \in [Writer -> {"idle", "keyed", "locked"}]
    BY DEF LoadKey, IInv, TypeOK
  <2>2. QED BY <2>1 DEF LoadKey, IInv, TypeOK, counters
<1>2. Exclusive'
  BY DEF LoadKey, IInv, TypeOK, Exclusive, Ours, LastHash, HashBefore, counters
<1>3. QED BY <1>1, <1>2, FileAlone DEF LoadKey, IInv, counters

LEMMA LockKeeps ==
  ASSUME IInv, NEW w \in Writer, Lock(w)
  PROVE  IInv'
<1>1. LastHash \in Hash
  <2>1. log \in Seq(Line)
    BY DEF IInv, TypeOK
  <2>2. QED BY <2>1, HashBeforeType DEF LastHash
<1>2. TypeOK'
  <2>1. seen' \in [Writer -> Hash]
    BY <1>1 DEF Lock, IInv, TypeOK
  <2>2. pc' \in [Writer -> {"idle", "keyed", "locked"}] /\ lock' \in Writer \cup {None}
    BY DEF Lock, IInv, TypeOK
  <2>3. QED BY <2>1, <2>2 DEF Lock, IInv, TypeOK, counters
<1>3. LastHash' = LastHash
  BY DEF Lock, LastHash, HashBefore
<1>4. Exclusive'
  <2> SUFFICES ASSUME NEW v \in Writer, pc'[v] = "locked"
               PROVE  lock' = v /\ seen'[v] = LastHash
    BY <1>3 DEF Exclusive
  <2>1. v = w
    <3>1. v # w => pc[v] = "locked"
      BY DEF Lock, IInv, TypeOK
    <3>2. v # w => lock = v
      BY <3>1 DEF IInv, Exclusive
    <3>3. lock = None /\ None \notin Writer
      BY AuditAssumption DEF Lock
    <3>4. QED BY <3>2, <3>3
  <2>2. QED BY <2>1 DEF Lock, IInv, TypeOK
<1>5. QED BY <1>2, <1>4, FileAlone DEF Lock, IInv, counters

LEMMA DieKeeps ==
  ASSUME IInv, NEW w \in Writer, Die(w)
  PROVE  IInv'
<1>1. TypeOK'
  <2>1. /\ seen' \in [Writer -> Hash]
        /\ key' \in [Writer -> KeyState]
        /\ pc' \in [Writer -> {"idle", "keyed", "locked"}]
        /\ lock' \in Writer \cup {None}
    BY DEF Die, IInv, TypeOK, Hash, GENESIS, KeyState
  <2>2. QED BY <2>1 DEF Die, IInv, TypeOK, counters
<1>2. LastHash' = LastHash
  BY DEF Die, LastHash, HashBefore
<1>3. Exclusive'
  <2> SUFFICES ASSUME NEW v \in Writer, pc'[v] = "locked"
               PROVE  lock' = v /\ (Ours' => seen'[v] = LastHash)
    BY <1>2 DEF Exclusive
  <2>1. v # w /\ pc[v] = "locked" /\ seen'[v] = seen[v]
    BY DEF Die, IInv, TypeOK
  <2>2. QED BY <2>1 DEF Die, IInv, Exclusive, Ours, counters
<1>4. QED BY <1>1, <1>3, FileAlone DEF Die, IInv, counters

\* After a write or a torn one nobody is in the critical section.
LEMMA ReleaseKeeps ==
  ASSUME IInv, NEW w \in Writer, pc[w] = "locked", Release(w)
  PROVE  /\ Exclusive'
         /\ lock' \in Writer \cup {None}
         /\ pc' \in [Writer -> {"idle", "keyed", "locked"}]
         /\ key' \in [Writer -> KeyState]
         /\ seen' \in [Writer -> Hash]
<1>1. \A v \in Writer : pc'[v] # "locked"
  <2> SUFFICES ASSUME NEW v \in Writer, pc'[v] = "locked" PROVE FALSE
    OBVIOUS
  <2>1. v # w /\ pc[v] = "locked"
    BY DEF Release, IInv, TypeOK
  <2>2. QED BY <2>1 DEF IInv, Exclusive
<1>2. QED BY <1>1 DEF Release, Exclusive, IInv, TypeOK, Hash, GENESIS, KeyState

LEMMA WriteKeepsAll ==
  ASSUME IInv, NEW w \in Writer, NEW e \in Event, Write(w, e)
  PROVE  IInv'
<1> DEFINE r == Record(w, e)
<1>1. pc[w] = "locked" /\ Release(w) /\ log' = Written(r) /\ made' = Append(made, r)
      /\ UNCHANGED <<config, anchors, tampers, changes, tears>> /\ tail' = "clean"
  BY DEF Write, counters
<1>2. r \in Rec /\ r.hash = Digest(r.prev, r.body) /\ (Ours => r.prev = LastHash)
  BY <1>1, RecordFacts
<1> HIDE DEF r
<1>3. log' \in Seq(Line) /\ log' # << >> /\ made' \in Seq(Rec) /\ MacsMade' /\ Kept'
  BY <1>1, <1>2, WriteKeeps
<1>4. TypeOK'
  BY <1>1, <1>3, ReleaseKeeps DEF TypeOK, IInv
<1>5. Chained'
  <2> SUFFICES ASSUME Ours, tears = 0
               PROVE  log' = made' /\ \A n \in 1..Len(log') : Links(n)'
    BY <1>1 DEF Chained, Ours
  <2>1. tail = "clean" /\ log = made /\ \A n \in 1..Len(log) : Links(n)
    BY DEF IInv, Chained
  <2>2. log \in Seq(Line) /\ r \in Line /\ log' = Append(log, r)
    BY <1>1, <1>2, <2>1 DEF IInv, TypeOK, Written, Line
  <2>3. /\ Len(log) \in Nat /\ Len(log') = Len(log) + 1
        /\ \A i \in 1..Len(log) : log'[i] = log[i]
        /\ log'[Len(log) + 1] = r
    BY <2>2, Appending
  <2>4. \A n \in 1..(Len(log) + 1) : HashBefore(log', n) = HashBefore(log, n)
    BY <2>3 DEF HashBefore
  <2>5. \A n \in 1..Len(log) : Links(n)'
    BY <2>1, <2>3, <2>4 DEF Links
  <2>6. \A n \in {Len(log) + 1} : Links(n)'
    <3>1. log'[Len(log) + 1].prev = HashBefore(log', Len(log) + 1)
      BY <1>2, <2>3, <2>4 DEF LastHash
    <3>2. QED BY <1>2, <2>3, <3>1 DEF Links
  <2>7. \A n \in 1..Len(log') : n \in 1..Len(log) \/ n = Len(log) + 1
    BY <2>3
  <2>8. QED BY <1>1, <2>1, <2>2, <2>5, <2>6, <2>7
<1>6. Exclusive' /\ Committed'
  BY <1>1, ReleaseKeeps DEF IInv, Committed
<1>7. QED BY <1>3, <1>4, <1>5, <1>6 DEF IInv

LEMMA TearKeeps ==
  ASSUME IInv, NEW w \in Writer, NEW e \in Event, Tear(w, e)
  PROVE  IInv'
<1> DEFINE r == Record(w, e)
<1>1. /\ pc[w] = "locked" /\ Release(w) /\ made' = Append(made, r)
      /\ UNCHANGED <<config, anchors, tampers, changes>>
      /\ tears' = tears + 1 /\ tears \in Nat
  BY DEF Tear, IInv, TypeOK
<1>2. r \in Rec
  BY <1>1, RecordFacts
<1>3. PICK line \in {r, Scrap} : /\ log' = Written(line)
                                 /\ line = Scrap => tail' = "cut"
                                 /\ line = r => tail' = "bare"
  BY <1>2, AuditAssumption DEF Tear
<1> HIDE DEF r
<1>4. /\ log' \in Seq(Line) /\ log' # << >> /\ made' \in Seq(Rec) /\ MacsMade'
      /\ line = r \/ tail # "clean" => Kept'
  BY <1>1, <1>2, <1>3, WriteKeeps
<1>5. TypeOK'
  <2>1. tail' \in {"clean", "cut", "bare"}
    BY <1>3
  <2>2. tears' \in Nat
    BY <1>1
  <2>3. QED BY <1>1, <1>4, <2>1, <2>2, ReleaseKeeps DEF TypeOK, IInv
<1>6. Kept'
  <2>1. CASE line = r \/ tail # "clean"
    BY <1>4, <2>1
  <2>2. CASE line = Scrap /\ tail = "clean"
    <3>1. log' = Append(log, Scrap) /\ log \in Seq(Line) /\ Scrap \in Line
      BY <1>3, <2>2 DEF Written, IInv, TypeOK, Line
    <3>2. Len(log) + 1 \in 1..Len(log') /\ log'[Len(log) + 1] = Scrap
      <4>1. Len(log) \in Nat
        BY <3>1
      <4>2. QED BY <3>1, <4>1, Appending
    <3>3. Spoiled'
      BY <3>2 DEF Spoiled
    <3>4. QED BY <3>3 DEF Kept
  <2>3. QED BY <1>3, <2>1, <2>2
<1>7. Chained'
  BY <1>1 DEF Chained
<1>8. Exclusive' /\ Committed'
  BY <1>1, ReleaseKeeps DEF IInv, Committed
<1>9. QED BY <1>4, <1>5, <1>6, <1>7, <1>8 DEF IInv

----------------------------------------------------------------------------
(* The steps around them.                                                  *)

LEMMA ConfigureKeeps ==
  ASSUME IInv, NEW k \in KeyState, Configure(k)
  PROVE  IInv'
<1>1. TypeOK'
  BY DEF Configure, IInv, TypeOK, writers
<1>2. Exclusive'
  BY DEF Configure, IInv, Exclusive, Ours, LastHash, HashBefore, writers
<1>3. QED BY <1>1, <1>2, FileAlone DEF Configure, IInv

\* A checkpoint is taken of a log that verifies, so its head commits to what
\* the log holds then.
LEMMA AnchorKeeps ==
  ASSUME IInv, Anchor
  PROVE  IInv'
<1> DEFINE a == [records |-> Len(log), head |-> HashBefore(log, Len(log) + 1),
                 kid |-> config, bodies |-> Bodies(log)]
<1>1. log \in Seq(Line) /\ BrokenLines(log, config) = {} /\ config \in Key \cup {None}
  BY DEF Anchor, Passes, IInv, TypeOK, KeyState
<1>2. Len(log) \in 0..Len(log)
  BY <1>1
<1>3. /\ Bodies(log) \in Hash /\ Len(Bodies(log)) = Len(log)
      /\ HashBefore(log, Len(log) + 1) = SubSeq(Bodies(log), 1, Len(log))
  BY <1>1, <1>2, HashIsPrefix
<1>4. SubSeq(Bodies(log), 1, Len(log)) = Bodies(log)
  BY <1>3, SubSeqFull DEF Hash
<1>5. /\ a \in [records: Nat, head: Hash, kid: Key \cup {None}, bodies: Hash]
      /\ a.head = a.bodies /\ Len(a.bodies) = a.records
  BY <1>1, <1>2, <1>3, <1>4
<1>6. anchors' = anchors \cup {a} /\ UNCHANGED <<log, tail, writers, config, made, counters>>
  BY DEF Anchor
<1> HIDE DEF a
<1>7. TypeOK'
  BY <1>5, <1>6 DEF IInv, TypeOK, writers, counters
<1>8. Committed'
  BY <1>5, <1>6 DEF IInv, Committed
<1>9. Exclusive'
  BY <1>6 DEF IInv, Exclusive, Ours, LastHash, HashBefore, writers, counters
<1>10. MacsMade' /\ Kept' /\ Chained'
  BY <1>6 DEF IInv, MacsMade, Kept, Chained, Spoiled, Links, HashBefore, Ours, counters
<1>11. QED BY <1>7, <1>8, <1>9, <1>10 DEF IInv

\* What the lines of a changed file are: well formed, with signatures that
\* were in the file before.
Moved(lg) ==
  /\ lg \in Seq(Line)
  /\ \A n \in 1..Len(lg) : lg[n].mac = None \/ \E m \in 1..Len(log) : lg[n].mac = log[m].mac

\* Re-chaining makes well-formed lines.
LEMMA RechainedMoves ==
  ASSUME log \in Seq(Line), \A n \in 1..Len(log) : log[n] # Scrap,
         NEW i \in 1..Len(log), NEW strip \in BOOLEAN
  PROVE  Moved(Rechained(log, i, strip))
<1> DEFINE text(n) == IF n >= i /\ strip THEN [log[n].body EXCEPT !.kid = None] ELSE log[n].body
           upto(n) == [j \in 1..n |-> text(j)]
           lg == Rechained(log, i, strip)
<1>1. \A n \in 1..Len(log) : log[n] \in Rec
  BY DEF Line
<1>2. \A n \in 1..Len(log) : text(n) \in Body
  BY <1>1 DEF Rec, Body
<1>3. \A n \in 0..Len(log) : upto(n) \in Hash
  <2> SUFFICES ASSUME NEW n \in 0..Len(log) PROVE upto(n) \in Seq(Body)
    BY DEF Hash
  <2>1. n \in Nat /\ \A j \in 1..n : j \in 1..Len(log)
    OBVIOUS
  <2> HIDE DEF text
  <2>2. \A j \in 1..n : text(j) \in Body
    BY <1>2, <2>1
  <2>3. QED BY <2>1, <2>2, IsASeq
<1>4. lg = [n \in 1..Len(log) |->
              IF n < i THEN log[n]
              ELSE [prev |-> upto(n - 1), body |-> text(n), hash |-> upto(n),
                    mac |-> IF strip THEN None ELSE log[n].mac]]
  BY DEF Rechained
<1> HIDE DEF text, upto, lg
<1>5. \A n \in 1..Len(log) : log[n].mac \in Mac /\ n - 1 \in 0..Len(log) /\ n \in 0..Len(log)
  BY <1>1 DEF Rec
<1>6. \A n \in 1..Len(log) : lg[n] \in Line /\ lg[n].mac \in {None, log[n].mac}
  <2> SUFFICES ASSUME NEW n \in 1..Len(log)
               PROVE  lg[n] \in Line /\ lg[n].mac \in {None, log[n].mac}
    OBVIOUS
  <2>1. CASE n < i
    BY <1>4, <1>1, <2>1 DEF Line
  <2>2. CASE ~(n < i)
    <3>1. upto(n - 1) \in Hash /\ upto(n) \in Hash /\ text(n) \in Body /\ None \in Mac
      BY <1>2, <1>3, <1>5 DEF Mac
    <3>2. lg[n] = [prev |-> upto(n - 1), body |-> text(n), hash |-> upto(n),
                   mac |-> IF strip THEN None ELSE log[n].mac]
      BY <1>4, <2>2
    <3>3. QED BY <1>5, <3>1, <3>2 DEF Line, Rec
  <2>3. QED BY <2>1, <2>2
<1>7. lg \in Seq(Line) /\ Len(lg) = Len(log)
  <2>1. Len(log) \in Nat /\ DOMAIN lg = 1..Len(log) /\ lg = [n \in 1..Len(log) |-> lg[n]]
    BY <1>4
  <2>2. QED BY <1>6, <2>1, IsASeq
<1>8. Moved(lg)
  BY <1>6, <1>7 DEF Moved
<1>9. QED BY <1>8 DEF lg

\* Every change from outside moves, edits or drops lines of the file.
LEMMA TamperMoves ==
  ASSUME IInv, Tamper
  PROVE  Moved(log')
<1>1. log \in Seq(Line) /\ \A n \in 1..Len(log) : log[n] # Scrap
  BY DEF IInv, TypeOK, Tamper
<1>2. \A n \in 1..Len(log) : log[n] \in Rec
  BY <1>1 DEF Line
<1>3. PICK i \in 1..Len(log) :
        \/ \E e \in Event : log' = [log EXCEPT ![i] = Edited(log[i], e)]
        \/ log' = SubSeq(log, 1, i - 1) \o SubSeq(log, i + 1, Len(log))
        \/ i < Len(log) /\ log' = [log EXCEPT ![i] = log[i + 1], ![i + 1] = log[i]]
        \/ log' = SubSeq(log, 1, i - 1)
        \/ \E strip \in BOOLEAN : log' = Rechained(log, i, strip)
  BY DEF Tamper
<1>4. ASSUME NEW e \in Event, log' = [log EXCEPT ![i] = Edited(log[i], e)]
      PROVE  Moved(log')
  <2>1. Edited(log[i], e) \in Line /\ Edited(log[i], e).mac = log[i].mac
    <3>1. [log[i].body EXCEPT !.event = e] \in Body
      BY <1>2 DEF Rec, Body
    <3>2. QED BY <1>2, <3>1 DEF Edited, Line, Rec
  <2>2. log' \in Seq(Line) /\ Len(log') = Len(log)
    BY <1>1, <1>4, <2>1, ExceptSeq
  <2>3. \A n \in 1..Len(log) : log'[n].mac = log[n].mac
    BY <1>1, <1>4, <2>1
  <2>4. QED BY <2>2, <2>3 DEF Moved
<1>6. CASE log' = SubSeq(log, 1, i - 1)
  <2>1. log' \in Seq(Line) /\ \A n \in 1..Len(log') : n \in 1..Len(log) /\ log'[n] = log[n]
    BY <1>1, <1>6
  <2>2. QED BY <2>1 DEF Moved
<1>7. CASE log' = SubSeq(log, 1, i - 1) \o SubSeq(log, i + 1, Len(log))
  <2>1. /\ log' \in Seq(Line)
        /\ \A n \in 1..Len(log') : \E m \in 1..Len(log) : log'[n] = log[m]
    <3> DEFINE s == SubSeq(log, 1, i - 1)
               t == SubSeq(log, i + 1, Len(log))
    <3>1. /\ s \in Seq(Line) /\ t \in Seq(Line)
          /\ \A j \in 1..Len(s) : j \in 1..Len(log) /\ s[j] = log[j]
          /\ \A j \in 1..Len(t) : i + j \in 1..Len(log) /\ t[j] = log[i + j]
      BY <1>1
    <3> HIDE DEF s, t
    <3>2. /\ s \o t \in Seq(Line) /\ Len(s \o t) = Len(s) + Len(t)
          /\ \A j \in 1..Len(s \o t) : (s \o t)[j] = IF j <= Len(s) THEN s[j] ELSE t[j - Len(s)]
      BY <3>1, ConcatProperties
    <3>3. log' = s \o t
      BY <1>7 DEF s, t
    <3>4. ASSUME NEW n \in 1..Len(log')
          PROVE  \E m \in 1..Len(log) : log'[n] = log[m]
      <4>0. n \in 1..(Len(s) + Len(t)) /\ Len(s) \in Nat /\ Len(t) \in Nat
        BY <3>1, <3>2, <3>3
      <4>1. CASE n <= Len(s)
        <5>1. n \in 1..Len(s)
          BY <4>0, <4>1
        <5>2. log'[n] = s[n]
          BY <3>2, <3>3, <4>1
        <5>3. QED BY <3>1, <5>1, <5>2
      <4>2. CASE ~(n <= Len(s))
        <5>1. n - Len(s) \in 1..Len(t)
          BY <4>0, <4>2
        <5>2. log'[n] = t[n - Len(s)]
          BY <3>2, <3>3, <4>2
        <5>3. QED BY <3>1, <5>1, <5>2
      <4>3. QED BY <4>1, <4>2
    <3>5. QED BY <3>2, <3>3, <3>4
  <2>2. QED BY <2>1 DEF Moved
<1>8. CASE i < Len(log) /\ log' = [log EXCEPT ![i] = log[i + 1], ![i + 1] = log[i]]
  <2>1. i + 1 \in 1..Len(log) /\ i # i + 1
    BY <1>1, <1>8
  <2>2. log' \in Seq(Line) /\ Len(log') = Len(log)
        /\ \A n \in 1..Len(log) : log'[n] = IF n = i THEN log[i + 1] ELSE IF n = i + 1 THEN log[i] ELSE log[n]
    BY <1>1, <1>8, <2>1
  <2>3. QED BY <2>1, <2>2 DEF Moved
<1>9. ASSUME NEW strip \in BOOLEAN, log' = Rechained(log, i, strip)
      PROVE  Moved(log')
  BY <1>1, <1>9, RechainedMoves
<1>10. QED BY <1>3, <1>4, <1>6, <1>7, <1>8, <1>9

LEMMA TamperKeeps ==
  ASSUME IInv, Tamper
  PROVE  IInv'
<1>1. Moved(log')
  BY TamperMoves
<1>2. /\ tampers' = tampers + 1 /\ tampers \in Nat /\ tail = "clean"
      /\ \A n \in 1..Len(log) : log[n] # Scrap
      /\ UNCHANGED <<tail, writers, config, anchors, made, changes, tears>>
  BY DEF Tamper, IInv, TypeOK
<1>3. ~Ours'
  BY <1>2 DEF Ours
<1>4. TypeOK'
  BY <1>1, <1>2 DEF IInv, TypeOK, Moved, writers
<1>5. Exclusive' /\ Kept' /\ Chained' /\ Committed'
  BY <1>2, <1>3 DEF IInv, Exclusive, Kept, Chained, Committed, writers
<1>6. MacsMade'
  BY <1>1, <1>2 DEF IInv, MacsMade, Moved
<1>7. QED BY <1>4, <1>5, <1>6 DEF IInv

----------------------------------------------------------------------------
(* The results.                                                            *)

\* The invariant holds initially and is kept by every step.
THEOREM InductiveInvariant == Spec => []IInv
<1>1. Init => IInv
  <2> SUFFICES ASSUME Init PROVE IInv
    OBVIOUS
  <2>1. TypeOK
    BY EmptySeq DEF Init, TypeOK, GENESIS, Hash, KeyState
  <2>2. Len(log) = 0
    BY EmptySeq DEF Init
  <2>3. Exclusive /\ MacsMade /\ Kept /\ Chained /\ Committed
    BY <2>2 DEF Init, Exclusive, MacsMade, Kept, Chained, Committed
  <2>4. QED BY <2>1, <2>3 DEF IInv
<1>2. IInv /\ [Next]_vars => IInv'
  <2> SUFFICES ASSUME IInv, [Next]_vars PROVE IInv'
    OBVIOUS
  <2>1. ASSUME NEW w \in Writer, LoadKey(w) \/ Lock(w) \/ Die(w) PROVE IInv'
    BY <2>1, LoadKeyKeeps, LockKeeps, DieKeeps
  <2>2. ASSUME NEW w \in Writer, NEW e \in Event, Write(w, e) \/ Tear(w, e) PROVE IInv'
    BY <2>2, WriteKeepsAll, TearKeeps
  <2>3. ASSUME NEW k \in KeyState, Configure(k) PROVE IInv'
    BY <2>3, ConfigureKeeps
  <2>4. CASE Anchor
    BY <2>4, AnchorKeeps
  <2>5. CASE Tamper
    BY <2>5, TamperKeeps
  <2>6. CASE UNCHANGED vars
    <3>1. TypeOK' /\ Exclusive'
      BY <2>6 DEF vars, IInv, TypeOK, Exclusive, Ours, LastHash, HashBefore
    <3>2. QED BY <2>6, <3>1, FileAlone DEF vars, IInv
  <2>7. QED BY <2>1, <2>2, <2>3, <2>4, <2>5, <2>6 DEF Next
<1>3. QED BY <1>1, <1>2, PTL DEF Spec

\* The log is well formed in every state.
THEOREM TypeCorrect == Spec => []TypeOK
<1>1. IInv => TypeOK
  BY DEF IInv
<1>2. QED BY <1>1, InductiveInvariant, PTL

\* record(): however many threads and processes write, the lines are their
\* records in the order they were made, each chained to the one before it.
THEOREM RecordsAreChained == Spec => []ChainHolds
<1>1. IInv => ChainHolds
  BY DEF IInv, Chained, ChainHolds, Links, Ours
<1>2. QED BY <1>1, InductiveInvariant, PTL

\* A log that verifies and that nobody else changed holds every record that
\* was ever written, whatever writes were cut short.
THEOREM NothingIsLost == Spec => []NoSilentLoss
<1>1. IInv => NoSilentLoss
  BY DEF IInv, Kept, NoSilentLoss, Spoiled, Passes, BrokenLines, Broken, Ours
<1>2. QED BY <1>1, InductiveInvariant, PTL

\* verify(): a log that passes with a key and holds a signature is, record by
\* record, one that record() signed, whoever changed the file.
THEOREM SignaturesHold == Spec => []SignedLogIsGenuine
<1>1. IInv => SignedLogIsGenuine
  <2> SUFFICES ASSUME IInv, NEW k \in Key, Passes(log, k, {}), Signatures(log, Len(log)) # {}
               PROVE  \E i \in 1..Len(made) : made[i].mac = <<k, Bodies(log)>>
    BY DEF SignedLogIsGenuine
  <2> DEFINE n == Len(log)
  <2>1. log \in Seq(Line) /\ BrokenLines(log, k) = {} /\ n \in Nat
    BY DEF Passes, IInv, TypeOK
  <2>2. PICK m \in 1..n : log[m] # Scrap /\ log[m].mac # None
    BY DEF Signatures
  <2>3. n \in 1..n /\ ~Broken(log, n, k)
    BY <2>1, <2>2 DEF BrokenLines
  <2>4. log[n].mac # None
    <3>1. CASE m = n
      BY <2>2, <3>1
    <3>2. CASE m \in 1..(n - 1)
      <4>1. m \in Signatures(log, n - 1)
        BY <2>2, <3>2 DEF Signatures
      <4>2. QED BY <2>3, <4>1 DEF Broken, Stripped
    <3>3. QED BY <2>1, <2>2, <3>1, <3>2
  <2>5. k # None /\ log[n] # Scrap
    BY <2>3, AuditAssumption DEF Broken
  <2>6. log[n].mac = <<k, log[n].hash>>
    BY <2>3, <2>4, <2>5 DEF Broken, Forged
  <2>7. log[n].hash = Bodies(log)
    <3>1. /\ Bodies(log) \in Seq(Body) /\ Len(Bodies(log)) = n
          /\ HashBefore(log, n + 1) = SubSeq(Bodies(log), 1, n)
      BY <2>1, <2>3, HashIsPrefix DEF Hash
    <3>2. SubSeq(Bodies(log), 1, n) = Bodies(log)
      BY <3>1, SubSeqFull
    <3>3. HashBefore(log, n + 1) = log[n].hash
      <4>1. n + 1 # 1 /\ (n + 1) - 1 = n
        BY <2>1, <2>3
      <4>2. QED BY <2>5, <4>1 DEF HashBefore
    <3>4. QED BY <3>1, <3>2, <3>3
  <2>8. \E i \in 1..Len(made) : made[i].mac = log[n].mac
    BY <2>3, <2>4, <2>5 DEF IInv, MacsMade
  <2>9. QED BY <2>6, <2>7, <2>8
<1>2. QED BY <1>1, InductiveInvariant, PTL

\* verify(anchors): a log that passes still holds what each checkpoint saw.
THEOREM CheckpointsHold == Spec => []AnchorsHold
<1>1. IInv => AnchorsHold
  <2> SUFFICES ASSUME IInv, Passes(log, config, anchors), NEW a \in anchors
               PROVE  Len(log) >= a.records /\ SubSeq(Bodies(log), 1, a.records) = a.bodies
    BY DEF AnchorsHold
  <2>1. log \in Seq(Line) /\ BrokenLines(log, config) = {} /\ a.records \in Nat
    BY DEF Passes, IInv, TypeOK
  <2>2. a.records <= Len(log) /\ a.head = HashBefore(log, a.records + 1)
    BY <2>1 DEF Passes, Misses
  <2>3. a.records \in 0..Len(log)
    BY <2>1, <2>2
  <2>4. HashBefore(log, a.records + 1) = SubSeq(Bodies(log), 1, a.records)
    BY <2>1, <2>3, HashIsPrefix
  <2>5. a.head = a.bodies
    BY DEF IInv, Committed
  <2>6. QED BY <2>1, <2>2, <2>4, <2>5
<1>2. QED BY <1>1, InductiveInvariant, PTL

\* Nothing but record() has happened to the file, with one key from the first
\* record on: then each line is one that this key makes, and each checkpoint
\* was taken with it of what the file still holds.
Honest == Ours /\ tears = 0 /\ changes = 0

MadeSo(n) ==
  /\ log[n] # Scrap /\ log[n].body.unsigned = (config = "unusable")
  /\ log[n].body.kid = (IF config \in Key THEN config ELSE None)
  /\ log[n].mac = MacOf(config, log[n].hash)

StillHeld(a) ==
  a.records \in 0..Len(log) /\ a.head = HashBefore(log, a.records + 1) /\ a.kid \in {None, config}

HonestInv ==
  Honest =>
    /\ \A w \in Writer : pc[w] # "idle" => key[w] = config
    /\ \A n \in 1..Len(log) : MadeSo(n)
    /\ \A a \in anchors : StillHeld(a)

\* The record of an honest writer.
LEMMA HonestRecord ==
  ASSUME IInv, HonestInv, Honest, NEW w \in Writer, NEW e \in Event, pc[w] = "locked"
  PROVE  LET r == Record(w, e) IN
         /\ r # Scrap /\ r.body.unsigned = (config = "unusable")
         /\ r.body.kid = (IF config \in Key THEN config ELSE None)
         /\ r.mac = MacOf(config, r.hash)
<1>1. key[w] = config
  BY DEF HonestInv
<1>2. PICK h, k : h = seen[w] /\ k = config
  OBVIOUS
<1>3. PICK b : b = BodyOf(e, k)
  OBVIOUS
<1>4. b.unsigned = (k = "unusable") /\ b.kid = IF k \in Key THEN k ELSE None
  BY <1>3 DEF BodyOf
<1>5. PICK r : r = Record(w, e)
  OBVIOUS
<1>6. r = Signed(h, b, k)
  BY <1>1, <1>2, <1>3, <1>5 DEF Record
<1>7. r.body = b /\ r.mac = MacOf(k, r.hash)
  BY <1>6 DEF Signed
<1>8. r # Scrap
  BY <1>5, RecordFacts, AuditAssumption
<1>9. QED BY <1>2, <1>4, <1>5, <1>7, <1>8

LEMMA HonestWrite ==
  ASSUME IInv, HonestInv, NEW w \in Writer, NEW e \in Event, Write(w, e)
  PROVE  HonestInv'
<1> SUFFICES ASSUME Honest'
             PROVE  /\ \A v \in Writer : pc'[v] # "idle" => key'[v] = config'
                    /\ \A n \in 1..Len(log') : MadeSo(n)'
                    /\ \A a \in anchors' : StillHeld(a)'
  BY DEF HonestInv
<1>1. PICK r : r = Record(w, e)
  OBVIOUS
<1>2. /\ pc[w] = "locked" /\ Release(w) /\ log' = Written(r) /\ config' = config /\ anchors' = anchors
      /\ Honest
  BY <1>1 DEF Write, counters, Honest, Ours
<1>3. r \in Rec /\ r # Scrap
  BY <1>1, <1>2, RecordFacts, AuditAssumption
<1>4. tail = "clean" /\ log \in Seq(Line) /\ r \in Line
  BY <1>2, <1>3 DEF IInv, Chained, TypeOK, Honest, Line
<1>5. log' = Append(log, r)
  BY <1>2, <1>4 DEF Written
<1>6. /\ Len(log) \in Nat /\ Len(log') = Len(log) + 1 /\ log'[Len(log) + 1] = r
      /\ \A n \in 1..Len(log) : log'[n] = log[n]
  BY <1>4, <1>5, Appending
<1>7. ASSUME NEW n \in 1..Len(log')
      PROVE  MadeSo(n)'
  <2>1. CASE n = Len(log) + 1
    <3>1. log'[n] = r
      BY <1>6, <2>1
    <3>2. /\ r.body.unsigned = (config = "unusable")
          /\ r.body.kid = (IF config \in Key THEN config ELSE None)
          /\ r.mac = MacOf(config, r.hash)
      BY <1>1, <1>2, HonestRecord
    <3>3. QED BY <1>2, <1>3, <3>1, <3>2 DEF MadeSo, MacOf
  <2>2. CASE n # Len(log) + 1
    <3>1. n \in 1..Len(log)
      BY <1>6, <2>2
    <3>2. MadeSo(n) /\ log'[n] = log[n]
      BY <1>2, <1>6, <3>1 DEF HonestInv
    <3>3. QED BY <1>2, <3>2 DEF MadeSo, MacOf
  <2>3. QED BY <2>1, <2>2
<1>8. ASSUME NEW a \in anchors
      PROVE  StillHeld(a)'
  <2>1. StillHeld(a)
    BY <1>2 DEF HonestInv
  <2>2. \A n \in 1..(Len(log) + 1) : HashBefore(log', n) = HashBefore(log, n)
    BY <1>6 DEF HashBefore
  <2>3. a.records + 1 \in 1..(Len(log) + 1) /\ a.records \in 0..Len(log')
    BY <1>6, <2>1 DEF StillHeld
  <2>4. QED BY <1>2, <2>1, <2>2, <2>3 DEF StillHeld
<1>9. \A v \in Writer : pc'[v] # "idle" => key'[v] = config'
  BY <1>2 DEF Release, HonestInv, IInv, TypeOK
<1>10. QED BY <1>2, <1>7, <1>8, <1>9

LEMMA HonestAnchor ==
  ASSUME IInv, HonestInv, Anchor
  PROVE  HonestInv'
<1>1. PICK a : a = [records |-> Len(log), head |-> HashBefore(log, Len(log) + 1),
                    kid |-> config, bodies |-> Bodies(log)]
  OBVIOUS
<1>2. anchors' = anchors \cup {a} /\ UNCHANGED <<log, tail, writers, config, made, counters>>
  BY <1>1 DEF Anchor
<1>3. Len(log) \in 0..Len(log)
  BY DEF IInv, TypeOK
<1>4. StillHeld(a)
  BY <1>1, <1>3 DEF StillHeld
<1>5. \A x : StillHeld(x)' <=> StillHeld(x)
  BY <1>2 DEF StillHeld, HashBefore
<1>6. \A n \in 1..Len(log) : MadeSo(n)' <=> MadeSo(n)
  BY <1>2 DEF MadeSo, MacOf
<1>7. Honest' <=> Honest
  BY <1>2 DEF Honest, Ours, counters
<1>8. QED BY <1>2, <1>4, <1>5, <1>6, <1>7 DEF HonestInv, writers

\* LoadKey takes the key that is configured; nothing else touches what the
\* honest invariant speaks of, or the file is no longer an honest one.
LEMMA HonestNext == IInv /\ HonestInv /\ [Next]_vars => HonestInv'
<1> SUFFICES ASSUME IInv, HonestInv, [Next]_vars PROVE HonestInv'
  OBVIOUS
<1>1. ASSUME UNCHANGED <<log, config, anchors, counters>>,
             \A w \in Writer : pc'[w] # "idle" => key'[w] = config \/ (pc[w] # "idle" /\ key'[w] = key[w])
      PROVE  HonestInv'
  <2>1. \A x : StillHeld(x)' <=> StillHeld(x)
    BY <1>1 DEF StillHeld, HashBefore
  <2>2. \A n \in 1..Len(log) : MadeSo(n)' <=> MadeSo(n)
    BY <1>1 DEF MadeSo, MacOf
  <2>3. Honest' <=> Honest
    BY <1>1 DEF Honest, Ours, counters
  <2>4. QED BY <1>1, <2>1, <2>2, <2>3 DEF HonestInv
<1>2. ASSUME NEW w \in Writer, LoadKey(w) \/ Lock(w) \/ Die(w) PROVE HonestInv'
  <2>1. UNCHANGED <<log, config, anchors, counters>>
    BY <1>2 DEF LoadKey, Lock, Die
  <2>2. \A v \in Writer : pc'[v] # "idle" => key'[v] = config \/ (pc[v] # "idle" /\ key'[v] = key[v])
    BY <1>2 DEF LoadKey, Lock, Die, IInv, TypeOK
  <2>3. QED BY <1>1, <2>1, <2>2
<1>3. ASSUME NEW w \in Writer, NEW e \in Event, Tear(w, e) PROVE HonestInv'
  <2>1. tears' # 0
    BY <1>3 DEF Tear, IInv, TypeOK
  <2>2. QED BY <2>1 DEF HonestInv, Honest
<1>4. ASSUME NEW k \in KeyState, Configure(k) PROVE HonestInv'
  <2>1. changes' # 0
    BY <1>4 DEF Configure, IInv, TypeOK
  <2>2. QED BY <2>1 DEF HonestInv, Honest
<1>5. CASE Tamper
  <2>1. tampers' # 0
    BY <1>5 DEF Tamper, IInv, TypeOK
  <2>2. QED BY <2>1 DEF HonestInv, Honest, Ours
<1>6. CASE UNCHANGED vars
  BY <1>1, <1>6 DEF vars, counters
<1>7. QED BY <1>2, <1>3, <1>4, <1>5, <1>6, HonestWrite, HonestAnchor DEF Next

\* verify() raises no false alarm: with one key, usable from the first record
\* on, a log that nobody touched passes with all its checkpoints, however many
\* writers and records.
THEOREM HonestLogPasses == Spec => []HonestLogVerifies
<1>1. IInv /\ HonestInv => HonestLogVerifies
  <2> SUFFICES ASSUME IInv, HonestInv, Honest, config # "unusable"
               PROVE  Verify(log, config, anchors) = "ok"
    BY DEF HonestLogVerifies, Honest, Ours
  <2>1. ASSUME NEW n \in 1..Len(log) PROVE ~Broken(log, n, config)
    <3>1. MadeSo(n) /\ Links(n)
      BY DEF HonestInv, IInv, Chained, Honest
    <3>2. log[n].body.unsigned = FALSE
      BY <3>1 DEF MadeSo
    <3>3. ~Unchained(log, n) /\ ~Modified(log, n) /\ log[n] # Scrap
      BY <3>1 DEF Unchained, Modified, Links, MadeSo
    <3>4. ~Stripped(log, n)
      <4> SUFFICES ASSUME log[n].mac = None, NEW i \in Signatures(log, n - 1)
                   PROVE  FALSE
        BY DEF Stripped
      <4>1. i \in 1..Len(log) /\ log[i].mac # None
        BY DEF Signatures, IInv, TypeOK
      <4>2. log[i].mac = MacOf(config, log[i].hash) /\ log[n].mac = MacOf(config, log[n].hash)
        BY <3>1, <4>1 DEF HonestInv, MadeSo
      <4>3. config \in Key
        BY <4>1, <4>2 DEF MacOf
      <4>4. log[n] \in Rec
        BY <3>1 DEF IInv, TypeOK, MadeSo, Line
      <4>5. log[n].mac \in Key \X Hash
        BY <4>2, <4>3, <4>4 DEF MacOf, Rec
      <4>6. QED BY <4>5, AuditAssumption
    <3>5. ~Forged(log, n, config)
      <4> SUFFICES ASSUME log[n].mac # None
                   PROVE  log[n].body.kid = config /\ log[n].mac = <<config, log[n].hash>>
        BY DEF Forged
      <4>1. config \in Key
        BY <3>1 DEF MadeSo, MacOf
      <4>2. QED BY <3>1, <4>1 DEF MadeSo, MacOf
    <3>6. QED BY <3>2, <3>3, <3>4, <3>5 DEF Broken
  <2>2. ASSUME NEW a \in anchors PROVE ~Misses(log, a, config)
    <3>1. StillHeld(a)
      BY DEF HonestInv
    <3>2. QED BY <3>1 DEF StillHeld, Misses
  <2>3. Passes(log, config, anchors)
    BY <2>1, <2>2 DEF Passes, BrokenLines
  <2>4. QED BY <2>3 DEF Verify
<1>2. Init => HonestInv
  <2> SUFFICES ASSUME Init PROVE HonestInv
    OBVIOUS
  <2>1. Len(log) = 0
    BY EmptySeq DEF Init
  <2>2. QED BY <2>1 DEF Init, HonestInv
<1>3. QED BY <1>1, <1>2, HonestNext, InductiveInvariant, PTL DEF Spec
=============================================================================
