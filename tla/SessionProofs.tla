---------------------------- MODULE SessionProofs ----------------------------
(***************************************************************************)
(* Proofs about what MCUndo runs side by side: Session and Recording.      *)
(*                                                                         *)
(* A rollback can always bring the baseline back, its report can be        *)
(* believed, and it brings nothing back that the baseline did not have;    *)
(* for every baseline, every set of containers, volumes and networks that  *)
(* SessionAssumption admits, and any number of changes, crashes and        *)
(* rollbacks.                                                              *)
(*                                                                         *)
(* The argument: the inverses in the journal always restore the baseline   *)
(* (Restores, Running), what a change has still to do is covered by them   *)
(* (Ahead), and what a rollback has still to do completes it (Completes,   *)
(* OnCourse).  Three things are shown of that: the entry of a new change   *)
(* widens the journal by what it is about to destroy; a call that is       *)
(* covered breaks nothing; and a step of a rollback, done, settled or cut, *)
(* leaves what completes it.                                               *)
(*                                                                         *)
(* A passive recording joins every request with its own response, and a    *)
(* replay judges each row rightly; for every connection and segments of    *)
(* any size that RecordingAssumption admits, in any order and number.      *)
(*                                                                         *)
(* The argument: what is kept of a direction are parts of its stream       *)
(* (Captured); placed by number they make the start of it (Placing), and   *)
(* of that the reader takes one whole message after the other (Reading).   *)
(***************************************************************************)
EXTENDS Session, Recording, FiniteSetTheorems, SequenceTheorems, WellFoundedInduction, TLAPS

----------------------------------------------------------------------------
(* Sequences joined, reversed and enumerated.                              *)

\* A set of numbers that is not empty has a least one.
LEMMA HasLeast ==
  ASSUME NEW T, T \subseteq Nat, T # {}
  PROVE  \E x \in T : \A y \in T : x <= y
<1> DEFINE R == OpToRel(<, Nat)
<1>1. IsWellFoundedOn(R, Nat)
  BY NatLessThanWellFounded, Zenon
<1>2. R = {ss \in Nat \X Nat : ss[1] < ss[2]}
  BY Zenon DEF OpToRel
<1> HIDE DEF R
<1>3. PICK x \in T : \A y \in T : ~ (<<y, x>> \in R)
  BY <1>1, WFMin
<1>4. \A y \in T : ~ (y < x)
  BY <1>2, <1>3
<1>5. QED BY <1>4

\* The first n members of ss joined, and those of each shorter prefix.
Joins(ss, n, g) == g = [i \in 1..n |-> IF i = 1 THEN ss[i] ELSE g[i - 1] \o ss[i]]

\* There is such a function.
LEMMA JoinsExist ==
  ASSUME NEW ss, NEW L \in Nat
  PROVE  \E g : Joins(ss, L, g)
<1> DEFINE Bad == {n \in 0..L : ~\E g : Joins(ss, n, g)}
<1> SUFFICES ASSUME Bad # {} PROVE FALSE
  OBVIOUS
<1>1. PICK n \in Bad : \A m \in Bad : n <= m
  <2>1. Bad \subseteq Nat
    OBVIOUS
  <2> HIDE DEF Bad
  <2>2. QED
    BY <2>1, HasLeast
<1>2. n \in 0..L /\ ~\E g : Joins(ss, n, g)
  OBVIOUS
<1>3. n # 0
  <2>1. Joins(ss, 0, << >>)
    BY DEF Joins
  <2>2. QED
    BY <1>2, <2>1
<1>4. PICK g : Joins(ss, n - 1, g)
  <2>1. n - 1 \in 0..L /\ n - 1 \notin Bad
    BY <1>1, <1>2, <1>3
  <2>2. QED
    BY <2>1
<1> DEFINE h == [i \in 1..n |-> IF i < n THEN g[i] ELSE IF n = 1 THEN ss[n] ELSE g[n - 1] \o ss[n]]
<1>5. Joins(ss, n, h)
  <2>1. ASSUME NEW i \in 1..n PROVE h[i] = IF i = 1 THEN ss[i] ELSE h[i - 1] \o ss[i]
    <3>1. CASE i < n
      <4>1. i \in 1..(n - 1) /\ h[i] = g[i]
        BY <1>2, <3>1
      <4>2. g[i] = IF i = 1 THEN ss[i] ELSE g[i - 1] \o ss[i]
        BY <1>4, <4>1 DEF Joins
      <4>3. i # 1 => h[i - 1] = g[i - 1]
        BY <1>2, <3>1
      <4>4. QED
        BY <4>1, <4>2, <4>3
    <3>2. CASE i = n
      BY <1>2, <1>3, <1>4, <3>2 DEF Joins
    <3>3. QED
      BY <1>2, <3>1, <3>2
  <2>2. h = [i \in 1..n |-> IF i = 1 THEN ss[i] ELSE h[i - 1] \o ss[i]]
    BY <2>1
  <2>3. QED
    BY <2>2 DEF Joins
<1>6. QED
  BY <1>2, <1>5

\* What holds of two sequences joined.
LEMMA Joined ==
  ASSUME NEW S, NEW s \in Seq(S), NEW t \in Seq(S)
  PROVE  /\ s \o t \in Seq(S) /\ {Len(s), Len(t)} \subseteq Nat /\ Len(s \o t) = Len(s) + Len(t)
         /\ DOMAIN s = 1..Len(s) /\ DOMAIN t = 1..Len(t) /\ DOMAIN (s \o t) = 1..(Len(s) + Len(t))
         /\ \A i \in DOMAIN s : i \in DOMAIN (s \o t) /\ (s \o t)[i] = s[i]
         /\ \A j \in DOMAIN t : Len(s) + j \in DOMAIN (s \o t) /\ (s \o t)[Len(s) + j] = t[j]
         /\ \A k \in DOMAIN (s \o t) : k \in DOMAIN s \/ (k - Len(s) \in DOMAIN t /\ (s \o t)[k] = t[k - Len(s)])
<1>1. {Len(s), Len(t)} \subseteq Nat /\ DOMAIN s = 1..Len(s) /\ DOMAIN t = 1..Len(t)
  BY LenProperties
<1>2. s \o t \in Seq(S) /\ Len(s \o t) = Len(s) + Len(t)
  BY ConcatProperties
<1>3. DOMAIN (s \o t) = 1..(Len(s) + Len(t))
  BY <1>2, LenProperties
<1>4. \A i \in 1..(Len(s) + Len(t)) : (s \o t)[i] = IF i <= Len(s) THEN s[i] ELSE t[i - Len(s)]
  BY ConcatProperties
<1>5. \A i \in DOMAIN s : i \in DOMAIN (s \o t) /\ (s \o t)[i] = s[i]
  BY <1>1, <1>3, <1>4
<1>6. \A j \in DOMAIN t : Len(s) + j \in DOMAIN (s \o t) /\ (s \o t)[Len(s) + j] = t[j]
  <2> SUFFICES ASSUME NEW j \in DOMAIN t PROVE Len(s) + j \in DOMAIN (s \o t) /\ (s \o t)[Len(s) + j] = t[j]
    OBVIOUS
  <2>1. j \in 1..Len(t) /\ Len(s) + j \in 1..(Len(s) + Len(t)) /\ ~(Len(s) + j <= Len(s)) /\ (Len(s) + j) - Len(s) = j
    BY <1>1
  <2>2. QED
    BY <1>3, <1>4, <2>1
<1>7. \A k \in DOMAIN (s \o t) : k \in DOMAIN s \/ (k - Len(s) \in DOMAIN t /\ (s \o t)[k] = t[k - Len(s)])
  BY <1>1, <1>3, <1>4
<1>8. QED
  BY <1>1, <1>2, <1>3, <1>5, <1>6, <1>7

Agree(ss, tt, n) == \A i \in 1..n : ss[i] = tt[i]

\* It depends on the members it has joined, and on no other.
LEMMA JoinsAgree ==
  ASSUME NEW ss, NEW tt, NEW m \in Nat, NEW n \in Nat, NEW g, NEW h, Joins(ss, m, g), Joins(tt, n, h),
         n <= m, Agree(ss, tt, n)
  PROVE  Agree(g, h, n)
<1> USE DEF Agree
<1> DEFINE Bad == {i \in 1..n : g[i] # h[i]}
<1> SUFFICES ASSUME Bad # {} PROVE FALSE
  OBVIOUS
<1>1. PICK i \in Bad : \A j \in Bad : i <= j
  <2>1. Bad \subseteq Nat
    OBVIOUS
  <2> HIDE DEF Bad
  <2>2. QED
    BY <2>1, HasLeast
<1>2. i \in 1..n /\ g[i] # h[i]
  OBVIOUS
<1>3. /\ g[i] = IF i = 1 THEN ss[i] ELSE g[i - 1] \o ss[i]
      /\ h[i] = IF i = 1 THEN tt[i] ELSE h[i - 1] \o tt[i]
  <2>1. i \in 1..m /\ i \in 1..n
    BY <1>2
  <2>2. QED
    BY <2>1 DEF Joins
<1>4. i # 1
  BY <1>2, <1>3
<1>5. g[i - 1] = h[i - 1]
  <2>1. i - 1 \in 1..n /\ i - 1 \notin Bad
    BY <1>1, <1>2, <1>4
  <2>2. QED
    BY <2>1
<1>6. QED
  BY <1>2, <1>3, <1>4, <1>5

\* The parts of a nonempty ss joined one after the other.
LEMMA FlattenRec ==
  ASSUME NEW S, NEW ss \in Seq(Seq(S)), ss # << >>
  PROVE  \E g : /\ Joins(ss, Len(ss), g) /\ FlattenSeq(ss) = g[Len(ss)]
                /\ \A i \in 1..Len(ss) : g[i] \in Seq(S)
<1>1. Len(ss) \in Nat \ {0}
  BY EmptySeq, LenProperties
<1> DEFINE G == CHOOSE g : g = [i \in 1..Len(ss) |-> IF i = 1 THEN ss[i] ELSE g[i - 1] \o ss[i]]
<1>2. Joins(ss, Len(ss), G)
  BY <1>1, JoinsExist DEF Joins
<1>3. FlattenSeq(ss) = G[Len(ss)]
  BY <1>1 DEF FlattenSeq
<1> HIDE DEF G
<1> DEFINE Bad == {n \in 1..Len(ss) : G[n] \notin Seq(S)}
<1>4. Bad = {}
  <2> SUFFICES ASSUME Bad # {} PROVE FALSE
    OBVIOUS
  <2>1. PICK n \in Bad : \A m \in Bad : n <= m
    <3>1. Bad \subseteq Nat
      BY <1>1
    <3> HIDE DEF Bad
    <3>2. QED
      BY <3>1, HasLeast
  <2>2. n \in 1..Len(ss) /\ G[n] \notin Seq(S) /\ ss[n] \in Seq(S)
    BY ElementOfSeq
  <2>3. G[n] = IF n = 1 THEN ss[n] ELSE G[n - 1] \o ss[n]
    BY <1>2, <2>2 DEF Joins
  <2>4. n # 1
    BY <2>2, <2>3
  <2>5. n - 1 \in 1..Len(ss) /\ G[n - 1] \in Seq(S)
    <3>1. n - 1 \in 1..Len(ss) /\ n - 1 \notin Bad
      BY <1>1, <2>1, <2>2, <2>4
    <3>2. QED
      BY <3>1
  <2>6. QED
    BY <2>2, <2>3, <2>4, <2>5, ConcatProperties
<1>5. QED
  BY <1>1, <1>2, <1>3, <1>4

\* What FlattenSeq joins is a sequence of what the parts are sequences of.
LEMMA FlattenType ==
  ASSUME NEW S, NEW ss \in Seq(Seq(S))
  PROVE  FlattenSeq(ss) \in Seq(S)
<1>1. CASE ss = << >>
  BY <1>1 DEF FlattenSeq
<1>2. CASE ss # << >>
  <2>1. Len(ss) \in Nat \ {0}
    BY <1>2, EmptySeq, LenProperties
  <2>2. QED
    BY <1>2, <2>1, FlattenRec
<1>3. QED
  BY <1>1, <1>2

\* A single part is what FlattenSeq makes of it.
LEMMA FlattenOne ==
  ASSUME NEW S, NEW s \in Seq(S)
  PROVE  FlattenSeq(<<s>>) = s
<1>1. <<s>> \in Seq(Seq(S)) /\ <<s>> # << >> /\ Len(<<s>>) = 1
  OBVIOUS
<1>2. PICK g : Joins(<<s>>, 1, g) /\ FlattenSeq(<<s>>) = g[1]
  BY <1>1, FlattenRec
<1>3. QED
  BY <1>2 DEF Joins

\* FlattenSeq of two sequences joined.
LEMMA FlattenConcat ==
  ASSUME NEW S, NEW X, NEW Y, X \in Seq(Seq(S)), Y \in Seq(Seq(S))
  PROVE  FlattenSeq(X \o Y) = FlattenSeq(X) \o FlattenSeq(Y)
<1>1. FlattenSeq(X) \in Seq(S) /\ FlattenSeq(Y) \in Seq(S)
  BY FlattenType
<1>2. CASE X = << >>
  <2>1. X \o Y = Y /\ FlattenSeq(X) = << >>
    BY <1>2, ConcatEmptySeq DEF FlattenSeq
  <2>2. QED
    BY <1>1, <2>1, ConcatEmptySeq
<1>3. CASE Y = << >>
  <2>1. X \o Y = X /\ FlattenSeq(Y) = << >>
    BY <1>3, ConcatEmptySeq DEF FlattenSeq
  <2>2. QED
    BY <1>1, <2>1, ConcatEmptySeq
<1>4. CASE X # << >> /\ Y # << >>
  <2>1. PICK m \in Nat, n \in Nat : m # 0 /\ n # 0 /\ m = Len(X) /\ n = Len(Y)
    BY <1>4, EmptySeq
  <2>2. PICK Z : Z \in Seq(Seq(S)) /\ Z = X \o Y /\ Len(Z) = m + n
    BY <2>1, ConcatProperties
  <2>3. (\A i \in 1..m : Z[i] = X[i]) /\ \A j \in 1..n : Z[m + j] = Y[j]
    <3>1. \A i \in 1..(m + n) : Z[i] = IF i <= m THEN X[i] ELSE Y[i - m]
      BY <2>1, <2>2, ConcatProperties
    <3>2. ASSUME NEW j \in 1..n PROVE Z[m + j] = Y[j]
      <4>1. m + j \in 1..(m + n) /\ ~(m + j <= m) /\ (m + j) - m = j
        BY <2>2
      <4>2. QED
        BY <3>1, <4>1
    <3>3. QED
      BY <2>1, <2>2, <3>1, <3>2
  <2>4. Z # << >>
    BY <2>1, <2>2, EmptySeq
  <2>5. PICK g : Joins(Z, m + n, g) /\ FlattenSeq(Z) = g[m + n]
    BY <2>1, <2>2, <2>4, FlattenRec
  <2>6. PICK h : Joins(X, m, h) /\ FlattenSeq(X) = h[m]
    BY <1>4, <2>1, FlattenRec
  <2>7. PICK k : Joins(Y, n, k) /\ FlattenSeq(Y) = k[n] /\ \A j \in 1..n : k[j] \in Seq(S)
    BY <1>4, <2>1, FlattenRec
  <2>8. \A j \in 1..n : Y[j] \in Seq(S)
    BY <2>1, ElementOfSeq
  <2>9. g[m] = h[m] /\ h[m] \in Seq(S)
    <3>1. m \in Nat /\ m + n \in Nat /\ m <= m /\ m <= m + n /\ m \in 1..m
      BY <2>1, <2>2
    <3>2. \A i \in 1..m : g[i] = h[i]
      <4>1. PICK l \in Nat : l = m + n
        BY <3>1
      <4>2. Joins(Z, l, g) /\ Joins(X, m, h) /\ Agree(Z, X, m) /\ m \in Nat /\ m <= l
        BY <2>3, <2>5, <2>6, <3>1, <4>1 DEF Agree
      <4>3. Agree(g, h, m)
        BY <4>2, JoinsAgree
      <4>4. QED
        BY <4>3 DEF Agree
    <3>3. QED
      BY <1>1, <2>1, <2>6, <3>1, <3>2
  <2> DEFINE Bad == {j \in 1..n : g[m + j] # h[m] \o k[j]}
  <2>10. Bad = {}
    <3> SUFFICES ASSUME Bad # {} PROVE FALSE
      OBVIOUS
    <3>1. PICK j \in Bad : \A i \in Bad : j <= i
      <4>1. \A j \in Bad : j \in 1..n
        BY Zenon
      <4> HIDE DEF Bad
      <4>2. Bad \subseteq Nat
        BY <4>1
      <4>3. QED
        BY <4>2, HasLeast
    <3>2. j \in 1..n /\ g[m + j] # h[m] \o k[j]
      BY <3>1
    <3>3. m + j \in 1..(m + n) /\ m + j # 1
      BY <2>1, <2>2, <3>2
    <3>4. g[m + j] = g[(m + j) - 1] \o Y[j]
      BY <2>3, <2>5, <3>2, <3>3 DEF Joins
    <3>5. k[j] = IF j = 1 THEN Y[j] ELSE k[j - 1] \o Y[j]
      BY <2>7, <3>2 DEF Joins
    <3>6. j # 1
      <4>1. j = 1 => (m + j) - 1 = m
        BY <2>1, <2>2
      <4>2. QED
        BY <2>9, <3>2, <3>4, <3>5, <4>1
    <3>7. j - 1 \in 1..n /\ j - 1 \notin Bad /\ m + (j - 1) = (m + j) - 1
      <4>1. j - 1 \in 1..n /\ ~(j <= j - 1) /\ m + (j - 1) = (m + j) - 1
        BY <2>1, <2>2, <3>2, <3>6
      <4> HIDE DEF Bad
      <4>2. QED
        BY <3>1, <4>1
    <3>8. g[(m + j) - 1] = h[m] \o k[j - 1]
      BY <3>7
    <3>9. k[j - 1] \in Seq(S) /\ Y[j] \in Seq(S)
      BY <2>7, <2>8, <3>2, <3>7
    <3>10. (h[m] \o k[j - 1]) \o Y[j] = h[m] \o (k[j - 1] \o Y[j])
      <4>1. \A a, b, c \in Seq(S) : (a \o b) \o c = a \o (b \o c)
        BY ConcatAssociative
      <4>2. QED
        BY <2>9, <3>9, <4>1
    <3>11. QED
      BY <3>2, <3>4, <3>5, <3>6, <3>8, <3>10
  <2>11. g[m + n] = h[m] \o k[n]
    <3>1. n \in 1..n
      BY <2>1, <2>2
    <3>2. QED
      BY <2>10, <3>1
  <2>12. QED
    BY <2>5, <2>6, <2>7, <2>2, <2>11
<1>5. QED
  BY <1>2, <1>3, <1>4

Each(s, T) == \A j \in 1..Len(s) : s[j] \in T

\* A sequence whose members are all in T is a sequence over T.
LEMMA SeqRefine ==
  ASSUME NEW S, NEW T, NEW s, s \in Seq(S), Each(s, T)
  PROVE  s \in Seq(T)
<1>1. s = [j \in 1..Len(s) |-> s[j]] /\ Len(s) \in Nat
  BY LenProperties
<1>2. QED
  BY <1>1 DEF Each

\* FlattenSeq holds what its parts hold, and nothing else.
LEMMA FlattenHolds ==
  ASSUME NEW S, NEW X, X \in Seq(Seq(S))
  PROVE  \A k \in DOMAIN FlattenSeq(X) : \E i \in DOMAIN X : \E j \in DOMAIN X[i] : X[i][j] = FlattenSeq(X)[k]
<1> DEFINE T == {e \in S : \E i \in DOMAIN X : \E j \in DOMAIN X[i] : X[i][j] = e}
<1>1. X \in Seq(Seq(T))
  <2>1. ASSUME NEW i \in 1..Len(X) PROVE X[i] \in Seq(T)
    <3>1. X[i] \in Seq(S) /\ i \in DOMAIN X
      BY ElementOfSeq, LenProperties
    <3>2. DOMAIN X[i] = 1..Len(X[i]) /\ \A j \in 1..Len(X[i]) : X[i][j] \in S
      BY <3>1, LenProperties, ElementOfSeq
    <3>3. Each(X[i], T)
      BY <3>1, <3>2 DEF Each
    <3> HIDE DEF T
    <3>4. QED
      BY <3>1, <3>3, SeqRefine
  <2> HIDE DEF T
  <2>2. Each(X, Seq(T))
    BY <2>1 DEF Each
  <2>3. QED
    BY <2>2, SeqRefine
<1>2. FlattenSeq(X) \in Seq(T)
  <2> HIDE DEF T
  <2>1. QED
    BY <1>1, FlattenType
<1>3. \A k \in DOMAIN FlattenSeq(X) : FlattenSeq(X)[k] \in T
  <2> HIDE DEF T
  <2>1. QED
    BY <1>2, LenProperties, ElementOfSeq
<1>4. QED
  BY <1>3

\* Empty parts are joined to nothing.
LEMMA FlattenNothing ==
  ASSUME NEW S, NEW X, X \in Seq(Seq(S)), \A i \in DOMAIN X : X[i] = << >>
  PROVE  FlattenSeq(X) = << >>
<1>1. FlattenSeq(X) \in Seq(S)
  BY FlattenType
<1>2. ASSUME NEW k \in DOMAIN FlattenSeq(X) PROVE FALSE
  <2>1. PICK i \in DOMAIN X : \E j \in DOMAIN X[i] : X[i][j] = FlattenSeq(X)[k]
    BY <1>2, FlattenHolds
  <2>2. DOMAIN X[i] = {}
    BY <2>1
  <2>3. QED
    BY <2>1, <2>2
<1>3. Len(FlattenSeq(X)) \in Nat /\ DOMAIN FlattenSeq(X) = 1..Len(FlattenSeq(X))
  BY <1>1, LenProperties
<1>4. Len(FlattenSeq(X)) = 0
  <2>1. PICK n \in Nat : n = Len(FlattenSeq(X))
    BY <1>3
  <2>2. n # 0 => 1 \in 1..n
    OBVIOUS
  <2>3. QED
    BY <1>2, <1>3, <2>1, <2>2
<1>5. QED
  BY <1>1, <1>4, EmptySeq

\* A sequence is what comes before an index, the member there and what comes after.
IsSplit(S, X, i, A, B) == A \in Seq(S) /\ B \in Seq(S) /\ X = (A \o <<X[i]>>) \o B

\* Every member splits a sequence.
LEMMA Split ==
  ASSUME NEW S, NEW X, X \in Seq(S), NEW i \in DOMAIN X
  PROVE  \E A, B : IsSplit(S, X, i, A, B)
<1> DEFINE A == SubSeq(X, 1, i - 1)
           B == SubSeq(X, i + 1, Len(X))
<1>1. Len(X) \in Nat /\ i \in 1..Len(X) /\ \A j \in 1..Len(X) : X[j] \in S
  BY LenProperties, ElementOfSeq
<1>2. A \in Seq(S) /\ Len(A) = i - 1 /\ \A j \in 1..(i - 1) : A[j] = X[j]
  <2>1. (1 \in Int /\ i - 1 \in Int) /\ \A j \in 1..(i - 1) : X[j] \in S
    BY <1>1
  <2>2. QED
    BY <1>1, <2>1, SubSeqProperties
<1>3. B \in Seq(S) /\ Len(B) = Len(X) - i /\ \A j \in 1..(Len(X) - i) : B[j] = X[i + j]
  <2>1. (i + 1 \in Int /\ Len(X) \in Int) /\ \A j \in (i + 1)..Len(X) : X[j] \in S
    BY <1>1
  <2>2. QED
    BY <1>1, <2>1, SubSeqProperties
<1> HIDE DEF A, B
<1>4. <<X[i]>> \in Seq(S) /\ Len(<<X[i]>>) = 1
  BY <1>1
<1>5. /\ A \o <<X[i]>> \in Seq(S) /\ Len(A \o <<X[i]>>) = i
      /\ \A j \in 1..i : (A \o <<X[i]>>)[j] = X[j]
  BY <1>1, <1>2, <1>4, ConcatProperties
<1>6. /\ (A \o <<X[i]>>) \o B \in Seq(S) /\ Len((A \o <<X[i]>>) \o B) = Len(X)
      /\ \A j \in 1..Len(X) : ((A \o <<X[i]>>) \o B)[j] = IF j <= i THEN (A \o <<X[i]>>)[j] ELSE B[j - i]
  <2> DEFINE C == A \o <<X[i]>>
  <2>1. C \in Seq(S) /\ Len(C) = i
    BY <1>5
  <2> HIDE DEF C
  <2>2. C \o B \in Seq(S) /\ Len(C \o B) = Len(X)
    <3>1. C \o B \in Seq(S) /\ Len(C \o B) = Len(C) + Len(B)
      BY <1>3, <2>1, ConcatProperties
    <3>2. PICK n \in Nat : n = Len(X) /\ i \in 1..n
      BY <1>1
    <3>3. Len(C) + Len(B) = i + (n - i)
      BY <1>3, <2>1, <3>2
    <3>4. i + (n - i) = n
      BY <3>2
    <3>5. QED
      BY <3>1, <3>2, <3>3, <3>4
  <2>3. \A j \in 1..Len(X) : (C \o B)[j] = IF j <= i THEN C[j] ELSE B[j - i]
    BY <1>1, <1>3, <2>1, <2>2, ConcatProperties
  <2>4. QED
    BY <2>2, <2>3 DEF C
<1>7. \A j \in 1..Len(X) : ((A \o <<X[i]>>) \o B)[j] = X[j]
  <2> SUFFICES ASSUME NEW j \in 1..Len(X) PROVE ((A \o <<X[i]>>) \o B)[j] = X[j]
    OBVIOUS
  <2>1. CASE j <= i
    BY <1>1, <1>5, <1>6, <2>1
  <2>2. CASE ~(j <= i)
    <3>1. j - i \in 1..(Len(X) - i) /\ i + (j - i) = j
      BY <1>1, <2>2
    <3>2. QED
      BY <1>3, <1>6, <2>2, <3>1
  <2>3. QED
    BY <2>1, <2>2
<1>8. X = (A \o <<X[i]>>) \o B
  BY <1>6, <1>7, SeqEqual
<1>9. QED
  BY <1>2, <1>3, <1>8 DEF IsSplit

HasPart(S, s, x) == \E a, b \in Seq(S) : s = (a \o x) \o b

\* The parts of X are together in FlattenSeq, each at a place of its own.
LEMMA FlattenKeeps ==
  ASSUME NEW S, NEW X, X \in Seq(Seq(S)), NEW i \in DOMAIN X
  PROVE  HasPart(S, FlattenSeq(X), X[i])
<1>1. X[i] \in Seq(S)
  BY LenProperties, ElementOfSeq
<1>2. PICK A \in Seq(Seq(S)), B \in Seq(Seq(S)) : X = (A \o <<X[i]>>) \o B
  <2>1. PICK A, B : IsSplit(Seq(S), X, i, A, B)
    BY Split
  <2>2. QED
    BY <2>1 DEF IsSplit
<1>3. PICK C, D : C = A \o D /\ D = <<X[i]>>
  OBVIOUS
<1>4. D \in Seq(Seq(S)) /\ C \in Seq(Seq(S))
  BY <1>1, <1>2, <1>3, ConcatProperties
<1>5. FlattenSeq(C \o B) = FlattenSeq(C) \o FlattenSeq(B)
  BY <1>2, <1>4, FlattenConcat
<1>6. FlattenSeq(A \o D) = FlattenSeq(A) \o FlattenSeq(D)
  BY <1>2, <1>4, FlattenConcat
<1>7. FlattenSeq(D) = X[i]
  BY <1>1, <1>3, FlattenOne
<1>8. FlattenSeq(A) \in Seq(S) /\ FlattenSeq(B) \in Seq(S)
  BY <1>2, FlattenType
<1>9. QED
  BY <1>2, <1>3, <1>5, <1>6, <1>7, <1>8 DEF HasPart

\* The length is told by the domain.
LEMMA LenOfDomain ==
  ASSUME NEW S, NEW s, s \in Seq(S), NEW n \in Nat, DOMAIN s = 1..n
  PROVE  Len(s) = n
<1>1. PICK m \in Nat : m = Len(s) /\ 1..m = 1..n
  BY LenProperties
<1>2. m < n => n \in 1..n /\ n \notin 1..m
  OBVIOUS
<1>3. n < m => m \in 1..m /\ m \notin 1..n
  OBVIOUS
<1>4. QED
  BY <1>1, <1>2, <1>3

\* The first part comes first.
LEMMA FlattenFirst ==
  ASSUME NEW S, NEW u, u \in Seq(S), NEW X, X \in Seq(Seq(S)), NEW D, D \in Seq(Seq(S)), Len(D) = 1, D[1] = u
  PROVE  FlattenSeq(D \o X) = u \o FlattenSeq(X)
<1>1. FlattenSeq(D \o X) = FlattenSeq(D) \o FlattenSeq(X)
  BY FlattenConcat
<1>2. D = <<u>>
  OBVIOUS
<1>3. FlattenSeq(D) = u
  BY <1>2, FlattenOne
<1>4. QED
  BY <1>1, <1>3

\* Where the members of a sequence are in its reverse.
LEMMA ReverseType ==
  ASSUME NEW S, NEW X, X \in Seq(S)
  PROVE  /\ Reverse(X) \in Seq(S) /\ Len(Reverse(X)) = Len(X)
         /\ \A i \in 1..Len(X) : Reverse(X)[i] = X[(Len(X) - i) + 1]
<1>1. Len(X) \in Nat /\ \A i \in 1..Len(X) : X[i] \in S
  BY LenProperties, ElementOfSeq
<1>2. PICK n \in Nat : n = Len(X)
  BY <1>1
<1>3. \A i \in 1..n : (n - i) + 1 \in 1..n
  BY <1>2
<1>4. Reverse(X) = [i \in 1..n |-> X[(n - i) + 1]]
  BY <1>2 DEF Reverse
<1>5. \A i \in 1..n : X[(n - i) + 1] \in S
  BY <1>1, <1>2, <1>3
<1>6. Reverse(X) \in Seq(S) /\ Len(Reverse(X)) = n
  BY <1>4, <1>5
<1>7. QED
  BY <1>2, <1>4, <1>6

\* What was added last comes first in the reverse.
LEMMA ReverseAppend ==
  ASSUME NEW S, NEW X, X \in Seq(S), NEW x \in S
  PROVE  Reverse(Append(X, x)) = <<x>> \o Reverse(X)
<1>1. PICK n \in Nat : n = Len(X)
  BY LenProperties
<1>2. PICK Y : Y = Append(X, x)
  OBVIOUS
<1>3. Y \in Seq(S) /\ Len(Y) = n + 1 /\ Y[n + 1] = x /\ \A i \in 1..n : Y[i] = X[i]
  BY <1>1, <1>2, AppendProperties
<1>4. PICK R : R = Reverse(Y)
  OBVIOUS
<1>5. R \in Seq(S) /\ Len(R) = n + 1 /\ \A i \in 1..(n + 1) : R[i] = Y[((n + 1) - i) + 1]
  BY <1>3, <1>4, ReverseType
<1>6. PICK Q : Q = Reverse(X)
  OBVIOUS
<1>7. Q \in Seq(S) /\ Len(Q) = n /\ \A i \in 1..n : Q[i] = X[(n - i) + 1]
  BY <1>1, <1>6, ReverseType
<1>8. PICK D : D = <<x>>
  OBVIOUS
<1>9. D \in Seq(S) /\ Len(D) = 1 /\ D[1] = x
  BY <1>8
<1>10. /\ D \o Q \in Seq(S) /\ Len(D \o Q) = Len(D) + Len(Q)
       /\ \A i \in 1..Len(D) + Len(Q) : (D \o Q)[i] = IF i <= Len(D) THEN D[i] ELSE Q[i - Len(D)]
  <2>1. D \in Seq(S) /\ Q \in Seq(S)
    BY <1>7, <1>9
  <2>2. QED
    BY <2>1, ConcatProperties
<1>11. PICK P : P = D \o Q
  OBVIOUS
<1>12. \A i \in 1..(n + 1) : P[i] = IF i <= 1 THEN D[i] ELSE Q[i - 1]
  <2>1. Len(D) = 1 /\ Len(Q) = n /\ Len(D) + Len(Q) = n + 1
    BY <1>7, <1>9
  <2>2. QED
    BY <1>11, <1>10, <2>1
<1>13. ASSUME NEW i \in 1..(n + 1) PROVE R[i] = P[i]
  <2>1. CASE i = 1
    <3>1. ((n + 1) - 1) + 1 = n + 1 /\ 1 \in 1..(n + 1)
      OBVIOUS
    <3>2. QED
      BY <1>3, <1>5, <1>9, <1>12, <2>1, <3>1
  <2>2. CASE i # 1
    <3>1. i - 1 \in 1..n /\ ~(i <= 1) /\ ((n + 1) - i) + 1 = (n - (i - 1)) + 1 /\ (n - (i - 1)) + 1 \in 1..n
      BY <2>2
    <3>2. P[i] = Q[i - 1] /\ Q[i - 1] = X[(n - (i - 1)) + 1]
      BY <1>7, <1>12, <3>1
    <3>3. R[i] = Y[(n - (i - 1)) + 1]
      BY <1>5, <3>1
    <3>4. QED
      BY <1>3, <3>1, <3>2, <3>3
  <2>3. QED
    BY <2>1, <2>2
<1>14. R = P
  <2>1. Len(R) = Len(P) /\ \A i \in 1..Len(R) : R[i] = P[i]
    BY <1>11, <1>5, <1>7, <1>9, <1>10, <1>13
  <2>2. QED
    BY <1>11, <1>5, <1>10, <2>1, SeqEqual
<1>15. QED
  BY <1>11, <1>2, <1>4, <1>6, <1>8, <1>14

\* The members of a finite set in some order.
LEMMA SetToSeqCovers ==
  ASSUME NEW S, IsFiniteSet(S)
  PROVE  SetToSeq(S) \in Seq(S) /\ \A x \in S : \E i \in DOMAIN SetToSeq(S) : SetToSeq(S)[i] = x
<1>1. Cardinality(S) \in Nat
  BY FS_CardinalityType
<1> DEFINE D == 1..Cardinality(S)
<1>2. IsFiniteSet(D) /\ Cardinality(D) = Cardinality(S)
  <2>1. PICK n \in Nat : n = Cardinality(S)
    BY <1>1
  <2>2. 1 \in Int /\ n \in Int /\ (1 > n => n = 0) /\ (n - 1) + 1 = n
    BY <2>1
  <2>3. IsFiniteSet(1..n) /\ Cardinality(1..n) = IF 1 > n THEN 0 ELSE n - 1 + 1
    BY <2>2, FS_Interval
  <2>4. QED
    BY <2>1, <2>2, <2>3
<1>3. PICK f : f \in Bijection(D, S)
  <2>1. ExistsBijection(D, S)
    BY <1>2, FS_SameCardinalityBij
  <2>2. QED
    BY <2>1 DEF ExistsBijection
<1>4. f \in [D -> S] /\ IsInjective(f)
  BY <1>3 DEF Bijection, Injection, IsInjective
<1> DEFINE g == SetToSeq(S)
<1>5. g \in [D -> S] /\ IsInjective(g)
  BY <1>4 DEF SetToSeq
<1> HIDE DEF g
<1>6. g \in Injection(D, S)
  BY <1>5 DEF Injection, IsInjective
<1>7. g \in Surjection(D, S)
  BY <1>2, <1>6, FS_Injection
<1>8. g \in Seq(S)
  BY <1>1, <1>5
<1>9. \A x \in S : \E i \in DOMAIN g : g[i] = x
  BY <1>5, <1>7 DEF Surjection
<1>10. QED
  BY <1>8, <1>9 DEF g

\* p has the steps do on the members of S.
Enumerates(p, do, S) ==
  /\ \A j \in DOMAIN p : \E x \in S : p[j] = Step(do, x)
  /\ \A x \in S : \E j \in DOMAIN p : p[j] = Step(do, x)

\* Steps has them all.
LEMMA StepsCover ==
  ASSUME NEW do, NEW S, IsFiniteSet(S), NEW T, \A x \in S : Step(do, x) \in T
  PROVE  Steps(do, S) \in Seq(T) /\ Enumerates(Steps(do, S), do, S)
<1>1. PICK s : s = SetToSeq(S)
  OBVIOUS
<1>2. s \in Seq(S) /\ \A x \in S : \E i \in DOMAIN s : s[i] = x
  BY <1>1, SetToSeqCovers
<1>3. PICK n \in Nat : n = Len(s) /\ DOMAIN s = 1..n /\ \A i \in 1..n : s[i] \in S
  BY <1>2, LenProperties, ElementOfSeq
<1>4. PICK q : q = [i \in 1..n |-> Step(do, s[i])]
  OBVIOUS
<1>5. q = Steps(do, S)
  BY <1>1, <1>3, <1>4 DEF Steps
<1>6. \A i \in 1..n : q[i] = Step(do, s[i]) /\ Step(do, s[i]) \in T
  BY <1>3, <1>4
<1>7. q \in Seq(T) /\ DOMAIN q = 1..n
  BY <1>4, <1>6
<1>8. Enumerates(q, do, S)
  BY <1>2, <1>3, <1>6, <1>7 DEF Enumerates
<1>9. QED
  BY <1>5, <1>7, <1>8

----------------------------------------------------------------------------
(* What is left to undo, of a baseline b and a journal.                    *)

Contents == Partial(Volume, SUBSET File)

\* A call with what it is about.
Plainly(dos, S) == [do : dos, on : S, run : {FALSE}, files : {<< >>}]
Call ==
  Plainly({"create", "start", "stop", "boot", "remove", "remove-v"}, Container)
    \cup [do : {"recreate"}, on : Container, run : BOOLEAN, files : Contents]
    \cup Plainly({"fill", "rm-volume", "drop-volume"}, Volume)
    \cup {s \in [do : {"fill", "restore"}, on : Volume, run : {FALSE}, files : Contents] : DOMAIN s.files = {s.on}}
    \cup Plainly({"add-network", "rm-network"}, Network)

\* The calls of a change, and the inverses.
Doing == {s \in Call : s.do \in {"create", "start", "stop", "remove", "remove-v", "fill", "rm-volume",
                                   "add-network", "rm-network"}}
Backs == {s \in Call : s.do \in {"recreate", "start", "stop", "restore", "rm-volume", "add-network"}}

Entry == [undo : Seq(Backs), lost : BOOLEAN, done : BOOLEAN]

\* InBaseline and what follows from it, with the baseline as a parameter.
About(b, s) ==
  /\ s.do \in {"recreate", "start", "stop"} => s.on \in DOMAIN b.ctr
  /\ s.do = "restore" => s.on \in DOMAIN b.vol
  /\ s.do = "add-network" => s.on \in b.net
Undoes(b) == {s \in Backs : About(b, s)}
Parts(b, u) == [j \in DOMAIN u |-> IF About(b, u[j]) THEN <<u[j]>> ELSE << >>]
KeptOf(b, u) == FlattenSeq(Parts(b, u))
UndoingOf(b, e) == IF e.done THEN << >> ELSE KeptOf(b, e.undo)
Undone(b, jl) == [i \in DOMAIN jl |-> UndoingOf(b, jl[i])]
InversesOf(b, jl) == FlattenSeq(Reverse(Undone(b, jl)))

\* Inverses of the specification, with the state as parameters.
LEMMA InversesAre == Inverses = InversesOf(base, journal)
BY DEF Inverses, InversesOf, Undone, UndoingOf, Undoing, KeptOf, Kept, Parts, InBaseline, About

\* The parts that are joined are sequences of steps about the baseline.
LEMMA PartsType ==
  ASSUME NEW b, NEW u, u \in Seq(Backs)
  PROVE  Parts(b, u) \in Seq(Seq(Undoes(b))) /\ Len(Parts(b, u)) = Len(u) /\ DOMAIN Parts(b, u) = DOMAIN u
<1>1. PICK n \in Nat : n = Len(u) /\ DOMAIN u = 1..n /\ \A i \in 1..n : u[i] \in Backs
  BY LenProperties, ElementOfSeq
<1>2. PICK q : q = [i \in 1..n |-> IF About(b, u[i]) THEN <<u[i]>> ELSE << >>]
  OBVIOUS
<1>3. ASSUME NEW i \in 1..n PROVE (IF About(b, u[i]) THEN <<u[i]>> ELSE << >>) \in Seq(Undoes(b))
  <2>1. About(b, u[i]) => u[i] \in Undoes(b)
    BY <1>1 DEF Undoes
  <2>2. QED
    BY <2>1
<1>4. q \in Seq(Seq(Undoes(b))) /\ Len(q) = n /\ DOMAIN q = 1..n
  BY <1>2, <1>3
<1>5. q = Parts(b, u)
  BY <1>1, <1>2 DEF Parts
<1>6. QED
  BY <1>1, <1>4, <1>5

\* What is kept of an entry: its steps about the baseline, and no other.
LEMMA KeptFacts ==
  ASSUME NEW b, NEW u, u \in Seq(Backs)
  PROVE  /\ KeptOf(b, u) \in Seq(Undoes(b))
         /\ \A k \in DOMAIN KeptOf(b, u) : \E i \in DOMAIN u : u[i] = KeptOf(b, u)[k]
         /\ \A i \in DOMAIN u : About(b, u[i]) => \E k \in DOMAIN KeptOf(b, u) : KeptOf(b, u)[k] = u[i]
<1>1. PICK X : X = Parts(b, u)
  OBVIOUS
<1>2. X \in Seq(Seq(Undoes(b))) /\ DOMAIN X = DOMAIN u
  BY <1>1, PartsType
<1>3. \A i \in DOMAIN u : X[i] = IF About(b, u[i]) THEN <<u[i]>> ELSE << >>
  BY <1>1 DEF Parts
<1>4. FlattenSeq(X) \in Seq(Undoes(b))
  BY <1>2, FlattenType
<1>5. ASSUME NEW k \in DOMAIN FlattenSeq(X) PROVE \E i \in DOMAIN u : u[i] = FlattenSeq(X)[k]
  <2>1. PICK i \in DOMAIN X : \E j \in DOMAIN X[i] : X[i][j] = FlattenSeq(X)[k]
    BY <1>2, <1>5, FlattenHolds
  <2>2. \A j \in DOMAIN X[i] : X[i][j] = u[i]
    BY <1>2, <1>3
  <2>3. QED
    BY <1>2, <2>1, <2>2
<1>6. ASSUME NEW i \in DOMAIN u, About(b, u[i]) PROVE \E k \in DOMAIN FlattenSeq(X) : FlattenSeq(X)[k] = u[i]
  <2>1. PICK x, y \in Seq(Undoes(b)) : FlattenSeq(X) = (x \o X[i]) \o y
    <3>1. i \in DOMAIN X
      BY <1>2
    <3>2. HasPart(Undoes(b), FlattenSeq(X), X[i])
      BY <1>2, <3>1, FlattenKeeps
    <3>3. QED
      BY <3>2 DEF HasPart
  <2>2. PICK z : z = <<u[i]>>
    OBVIOUS
  <2>3. z \in Seq(Undoes(b)) /\ Len(z) = 1 /\ z[1] = u[i]
    <3>1. u[i] \in Backs
      BY LenProperties, ElementOfSeq
    <3>2. u[i] \in Undoes(b)
      BY <1>6, <3>1 DEF Undoes
    <3>3. QED
      BY <2>2, <3>2
  <2>4. X[i] = z
    BY <1>3, <1>6, <2>2
  <2>5. x \o z \in Seq(Undoes(b)) /\ Len(x) + 1 \in DOMAIN (x \o z) /\ (x \o z)[Len(x) + 1] = u[i]
    <3>1. 1 \in DOMAIN z
      BY <2>2
    <3>2. QED
      BY <2>1, <2>3, <3>1, Joined
  <2>6. Len(x) + 1 \in DOMAIN ((x \o z) \o y) /\ ((x \o z) \o y)[Len(x) + 1] = u[i]
    BY <2>1, <2>5, Joined
  <2>7. QED
    BY <2>1, <2>4, <2>6
<1>7. QED
  BY <1>1, <1>4, <1>5, <1>6 DEF KeptOf

\* Keeping goes part by part.
LEMMA KeptConcat ==
  ASSUME NEW b, NEW u, NEW v, u \in Seq(Backs), v \in Seq(Backs)
  PROVE  KeptOf(b, u \o v) = KeptOf(b, u) \o KeptOf(b, v)
<1>1. PICK m \in Nat, n \in Nat : m = Len(u) /\ n = Len(v)
  BY LenProperties
<1>2. PICK w : w = u \o v
  OBVIOUS
<1>3. w \in Seq(Backs) /\ Len(w) = m + n /\ \A i \in 1..(m + n) : w[i] = IF i <= m THEN u[i] ELSE v[i - m]
  BY <1>1, <1>2, ConcatProperties
<1>4. PICK X, Y, Z : X = Parts(b, u) /\ Y = Parts(b, v) /\ Z = Parts(b, w)
  OBVIOUS
<1>5. /\ X \in Seq(Seq(Undoes(b))) /\ Len(X) = m
      /\ Y \in Seq(Seq(Undoes(b))) /\ Len(Y) = n
      /\ Z \in Seq(Seq(Undoes(b))) /\ Len(Z) = m + n
  BY <1>1, <1>3, <1>4, PartsType
<1>6. /\ \A i \in 1..m : X[i] = IF About(b, u[i]) THEN <<u[i]>> ELSE << >>
      /\ \A i \in 1..n : Y[i] = IF About(b, v[i]) THEN <<v[i]>> ELSE << >>
      /\ \A i \in 1..(m + n) : Z[i] = IF About(b, w[i]) THEN <<w[i]>> ELSE << >>
  <2>1. DOMAIN u = 1..m /\ DOMAIN v = 1..n /\ DOMAIN w = 1..(m + n)
    BY <1>1, <1>3, LenProperties
  <2>2. QED
    BY <1>4, <2>1 DEF Parts
<1>7. /\ X \o Y \in Seq(Seq(Undoes(b))) /\ Len(X \o Y) = Len(X) + Len(Y)
      /\ \A i \in 1..Len(X) + Len(Y) : (X \o Y)[i] = IF i <= Len(X) THEN X[i] ELSE Y[i - Len(X)]
  <2>1. X \in Seq(Seq(Undoes(b))) /\ Y \in Seq(Seq(Undoes(b)))
    BY <1>5
  <2>2. QED
    BY <2>1, ConcatProperties
<1>8. ASSUME NEW i \in 1..(m + n) PROVE Z[i] = (X \o Y)[i]
  <2>1. (X \o Y)[i] = IF i <= m THEN X[i] ELSE Y[i - m]
    BY <1>5, <1>7
  <2>2. i <= m => i \in 1..m
    OBVIOUS
  <2>3. ~(i <= m) => i - m \in 1..n
    OBVIOUS
  <2>4. QED
    BY <1>3, <1>6, <2>1, <2>2, <2>3
<1>9. Z = X \o Y
  <2>1. PICK P : P = X \o Y
    OBVIOUS
  <2>2. Len(Z) = Len(P) /\ \A i \in 1..Len(Z) : Z[i] = P[i]
    BY <1>5, <1>7, <1>8, <2>1
  <2>3. QED
    BY <1>5, <1>7, <2>1, <2>2, SeqEqual
<1>10. FlattenSeq(X \o Y) = FlattenSeq(X) \o FlattenSeq(Y)
  BY <1>5, FlattenConcat
<1>11. QED
  BY <1>2, <1>4, <1>9, <1>10 DEF KeptOf

\* What is left to undo of each entry.
LEMMA UndoneType ==
  ASSUME NEW b, NEW jl, jl \in Seq(Entry)
  PROVE  /\ Undone(b, jl) \in Seq(Seq(Undoes(b))) /\ DOMAIN Undone(b, jl) = DOMAIN jl
         /\ \A e \in Entry : UndoingOf(b, e) \in Seq(Undoes(b))
<1>1. ASSUME NEW e \in Entry PROVE UndoingOf(b, e) \in Seq(Undoes(b))
  <2>1. e.undo \in Seq(Backs)
    BY DEF Entry
  <2>2. KeptOf(b, e.undo) \in Seq(Undoes(b))
    BY <2>1, KeptFacts
  <2>3. QED
    BY <2>2 DEF UndoingOf
<1>2. PICK n \in Nat : DOMAIN jl = 1..n /\ \A i \in 1..n : jl[i] \in Entry
  BY LenProperties, ElementOfSeq
<1>3. Undone(b, jl) = [i \in 1..n |-> UndoingOf(b, jl[i])]
  BY <1>2 DEF Undone
<1>4. \A i \in 1..n : UndoingOf(b, jl[i]) \in Seq(Undoes(b))
  BY <1>1, <1>2
<1>5. QED
  BY <1>1, <1>2, <1>3, <1>4

\* The inverses are about the baseline.
LEMMA InversesType ==
  ASSUME NEW b, NEW jl, jl \in Seq(Entry)
  PROVE  InversesOf(b, jl) \in Seq(Undoes(b))
<1>1. PICK X : X = Undone(b, jl)
  OBVIOUS
<1>2. Reverse(X) \in Seq(Seq(Undoes(b)))
  BY <1>1, UndoneType, ReverseType
<1>3. FlattenSeq(Reverse(X)) \in Seq(Undoes(b))
  BY <1>2, FlattenType
<1>4. QED
  BY <1>1, <1>3 DEF InversesOf

\* The inverses of a new entry come before the older ones.
LEMMA InversesAppend ==
  ASSUME NEW b, NEW jl, jl \in Seq(Entry), NEW e \in Entry
  PROVE  InversesOf(b, Append(jl, e)) = UndoingOf(b, e) \o InversesOf(b, jl)
<1>1. PICK X, u : X = Undone(b, jl) /\ u = UndoingOf(b, e)
  OBVIOUS
<1>2. X \in Seq(Seq(Undoes(b))) /\ u \in Seq(Undoes(b)) /\ DOMAIN X = DOMAIN jl
  BY <1>1, UndoneType
<1>3. PICK kl : kl = Append(jl, e)
  OBVIOUS
<1>4. PICK n \in Nat : n = Len(jl) /\ DOMAIN jl = 1..n
  BY LenProperties
<1>5. kl \in Seq(Entry) /\ DOMAIN kl = 1..(n + 1) /\ kl[n + 1] = e /\ \A i \in 1..n : kl[i] = jl[i]
  <2>1. kl \in Seq(Entry) /\ Len(kl) = n + 1 /\ kl[n + 1] = e /\ \A i \in 1..n : kl[i] = jl[i]
    BY <1>3, <1>4, AppendProperties
  <2>2. QED
    BY <2>1, LenProperties
<1>6. PICK Y : Y = Undone(b, kl)
  OBVIOUS
<1>7. Y \in Seq(Seq(Undoes(b))) /\ DOMAIN Y = 1..(n + 1)
  BY <1>5, <1>6, UndoneType
<1>8. Y[n + 1] = u /\ \A i \in 1..n : Y[i] = X[i]
  BY <1>1, <1>4, <1>5, <1>6 DEF Undone
<1>9. Y = Append(X, u)
  <2>1. PICK Z : Z = Append(X, u)
    OBVIOUS
  <2>2. Len(X) = n
    <3>1. DOMAIN X = 1..n
      BY <1>2, <1>4
    <3>2. QED
      BY <1>2, <3>1, LenOfDomain
  <2>3. Z \in Seq(Seq(Undoes(b))) /\ Len(Z) = n + 1 /\ Z[n + 1] = u /\ \A i \in 1..n : Z[i] = X[i]
    BY <1>2, <2>1, <2>2, AppendProperties
  <2>4. Len(Y) = n + 1
    <3>1. PICK m \in Nat : m = n + 1
      OBVIOUS
    <3>2. QED
      BY <1>7, <3>1, LenOfDomain
  <2>5. \A i \in 1..(n + 1) : i \in 1..n \/ i = n + 1
    OBVIOUS
  <2>6. \A i \in 1..Len(Y) : Y[i] = Z[i]
    BY <1>8, <2>3, <2>4, <2>5
  <2>7. Len(Y) = Len(Z)
    BY <2>3, <2>4
  <2>8. QED
    BY <1>7, <2>1, <2>3, <2>6, <2>7, SeqEqual
<1>10. Reverse(Append(X, u)) = <<u>> \o Reverse(X)
  BY <1>2, ReverseAppend
<1>11. PICK R, D : R = Reverse(X) /\ D = <<u>>
  OBVIOUS
<1>12. R \in Seq(Seq(Undoes(b)))
  BY <1>2, <1>11, ReverseType
<1>13. D \in Seq(Seq(Undoes(b))) /\ Len(D) = 1 /\ D[1] = u
  BY <1>2, <1>11
<1>14. FlattenSeq(D \o R) = u \o FlattenSeq(R)
  BY <1>2, <1>12, <1>13, FlattenFirst
<1>15. QED
  BY <1>1, <1>3, <1>6, <1>9, <1>10, <1>11, <1>14 DEF InversesOf

\* When every entry is done or has nothing to undo, nothing is left.
LEMMA InversesNone ==
  ASSUME NEW b, NEW jl, jl \in Seq(Entry), \A i \in DOMAIN jl : jl[i].done \/ jl[i].undo = << >>
  PROVE  InversesOf(b, jl) = << >>
<1>1. PICK X : X = Undone(b, jl)
  OBVIOUS
<1>2. X \in Seq(Seq(Undoes(b))) /\ DOMAIN X = DOMAIN jl
  BY <1>1, UndoneType
<1>3. KeptOf(b, << >>) = << >>
  <2>1. Parts(b, << >>) = << >>
    BY DEF Parts
  <2>2. QED
    BY <2>1 DEF KeptOf, FlattenSeq
<1>4. \A i \in DOMAIN X : X[i] = << >>
  BY <1>1, <1>2, <1>3 DEF Undone, UndoingOf
<1>5. PICK R : R = Reverse(X)
  OBVIOUS
<1>6. PICK n \in Nat : n = Len(X) /\ DOMAIN X = 1..n
  BY <1>2, LenProperties
<1>7. /\ R \in Seq(Seq(Undoes(b))) /\ Len(R) = n
      /\ \A i \in 1..n : R[i] = X[(n - i) + 1]
  BY <1>2, <1>5, <1>6, ReverseType
<1>8. \A i \in 1..n : (n - i) + 1 \in 1..n
  OBVIOUS
<1>9. \A i \in DOMAIN R : R[i] = << >>
  <2>1. DOMAIN R = 1..n
    BY <1>7, LenProperties
  <2>2. QED
    BY <1>4, <1>6, <1>7, <1>8, <2>1
<1>10. FlattenSeq(R) = << >>
  BY <1>7, <1>9, FlattenNothing
<1>11. QED
  BY <1>1, <1>5, <1>10 DEF InversesOf

\* An inverse of an entry that is not done is among the inverses.
LEMMA InversesHold ==
  ASSUME NEW b, NEW jl, jl \in Seq(Entry), NEW i \in DOMAIN jl, ~jl[i].done,
         NEW j \in DOMAIN jl[i].undo, About(b, jl[i].undo[j])
  PROVE  \E k \in DOMAIN InversesOf(b, jl) : InversesOf(b, jl)[k] = jl[i].undo[j]
<1>1. PICK X : X = Undone(b, jl)
  OBVIOUS
<1>2. X \in Seq(Seq(Undoes(b))) /\ DOMAIN X = DOMAIN jl
  BY <1>1, UndoneType
<1>3. PICK s : s = jl[i].undo[j]
  OBVIOUS
<1>4. jl[i].undo \in Seq(Backs)
  <2>1. jl[i] \in Entry
    BY LenProperties, ElementOfSeq
  <2>2. QED
    BY <2>1 DEF Entry
<1>5. PICK k \in DOMAIN KeptOf(b, jl[i].undo) : KeptOf(b, jl[i].undo)[k] = s
  BY <1>3, <1>4, KeptFacts
<1>6. X[i] = KeptOf(b, jl[i].undo)
  BY <1>1 DEF Undone, UndoingOf
<1>7. PICK n \in Nat : n = Len(X) /\ DOMAIN X = 1..n
  BY <1>2, LenProperties
<1>8. PICK R : R = Reverse(X)
  OBVIOUS
<1>9. R \in Seq(Seq(Undoes(b))) /\ Len(R) = n /\ DOMAIN R = 1..n /\ \A r \in 1..n : R[r] = X[(n - r) + 1]
  <2>1. R \in Seq(Seq(Undoes(b))) /\ Len(R) = n /\ \A r \in 1..n : R[r] = X[(n - r) + 1]
    BY <1>2, <1>7, <1>8, ReverseType
  <2>2. QED
    BY <2>1, LenProperties
<1>10. PICK r \in DOMAIN R : R[r] = X[i]
  <2>1. i \in 1..n
    BY <1>2, <1>7
  <2>2. (n - i) + 1 \in 1..n /\ (n - ((n - i) + 1)) + 1 = i
    BY <2>1
  <2>3. QED
    BY <1>9, <2>2
<1>11. HasPart(Undoes(b), FlattenSeq(R), X[i])
  BY <1>9, <1>10, FlattenKeeps
<1>12. PICK x, y \in Seq(Undoes(b)) : FlattenSeq(R) = (x \o X[i]) \o y
  BY <1>11 DEF HasPart
<1>13. PICK z : z = X[i] /\ z \in Seq(Undoes(b)) /\ k \in DOMAIN z /\ z[k] = s
  BY <1>4, <1>5, <1>6, KeptFacts
<1>14. x \o z \in Seq(Undoes(b)) /\ Len(x) + k \in DOMAIN (x \o z) /\ (x \o z)[Len(x) + k] = s
  BY <1>12, <1>13, Joined
<1>15. Len(x) + k \in DOMAIN ((x \o z) \o y) /\ ((x \o z) \o y)[Len(x) + k] = s
  BY <1>12, <1>14, Joined
<1>16. QED
  BY <1>1, <1>3, <1>8, <1>12, <1>13, <1>15 DEF InversesOf

----------------------------------------------------------------------------
(* What the daemon's calls do.                                             *)

Machine == [ctr : Partial(Container, BOOLEAN), vol : Contents, net : SUBSET Network]
Housed(w) == \A c \in DOMAIN w.ctr : NetOf[c] \in w.net /\ VolOf[c] \in DOMAIN w.vol

\* The worlds, with their invariant named.
LEMMA WorldIs == World = {w \in Machine : Housed(w)}
BY DEF World, Machine, Housed, Contents

\* What a partial function is.
LEMMA PartialIs ==
  ASSUME NEW S, NEW T, NEW f
  PROVE  f \in Partial(S, T) <=> f \in [DOMAIN f -> T] /\ DOMAIN f \subseteq S
<1>1. ASSUME f \in Partial(S, T) PROVE f \in [DOMAIN f -> T] /\ DOMAIN f \subseteq S
  <2>1. PICK D \in SUBSET S : f \in [D -> T]
    BY <1>1 DEF Partial
  <2>2. QED
    BY <2>1
<1>2. ASSUME f \in [DOMAIN f -> T], DOMAIN f \subseteq S PROVE f \in Partial(S, T)
  <2>1. DOMAIN f \in SUBSET S
    BY <1>2
  <2>2. QED
    BY <1>2, <2>1 DEF Partial
<1>3. QED
  BY <1>1, <1>2

\* In g, x has the value y, or is not there, and all else is as in f.
IsPut(f, g, x, y) == DOMAIN g = DOMAIN f \cup {x} /\ g[x] = y /\ \A z \in DOMAIN f \ {x} : g[z] = f[z]
IsCut(f, g, x) == DOMAIN g = DOMAIN f \ {x} /\ \A z \in DOMAIN g : g[z] = f[z]

\* Put gives x the value y.
LEMMA PutIs ==
  ASSUME NEW S, NEW T, NEW f, f \in Partial(S, T), NEW x \in S, NEW y \in T
  PROVE  Put(f, x, y) \in Partial(S, T) /\ IsPut(f, Put(f, x, y), x, y)
<1>1. f \in [DOMAIN f -> T] /\ DOMAIN f \subseteq S
  BY PartialIs
<1>2. PICK D : D = DOMAIN f \cup {x}
  OBVIOUS
<1>3. PICK g : g = [z \in D |-> IF z = x THEN y ELSE f[z]]
  OBVIOUS
<1>4. Put(f, x, y) = g
  BY <1>2, <1>3 DEF Put
<1>5. g \in [D -> T]
  BY <1>1, <1>2, <1>3
<1>6. DOMAIN g = D /\ D \subseteq S
  BY <1>1, <1>2, <1>3
<1>7. g \in Partial(S, T)
  BY <1>5, <1>6, PartialIs
<1>8. IsPut(f, g, x, y)
  BY <1>2, <1>3 DEF IsPut
<1>9. QED
  BY <1>4, <1>7, <1>8

\* Restrict takes x out of it.
LEMMA CutIs ==
  ASSUME NEW S, NEW T, NEW f, f \in Partial(S, T), NEW x
  PROVE  Restrict(f, DOMAIN f \ {x}) \in Partial(S, T) /\ IsCut(f, Restrict(f, DOMAIN f \ {x}), x)
<1>1. f \in [DOMAIN f -> T] /\ DOMAIN f \subseteq S
  BY PartialIs
<1>2. PICK D : D = DOMAIN f \ {x}
  OBVIOUS
<1>3. PICK g : g = [z \in D |-> f[z]]
  OBVIOUS
<1>4. Restrict(f, D) = g
  BY <1>3 DEF Restrict
<1>5. g \in [D -> T] /\ DOMAIN g = D /\ D \subseteq S
  BY <1>1, <1>2, <1>3
<1>6. g \in Partial(S, T)
  BY <1>5, PartialIs
<1>7. IsCut(f, g, x)
  BY <1>2, <1>3 DEF IsCut
<1>8. QED
  BY <1>2, <1>4, <1>6, <1>7

\* Setting the run state of a container.
LEMMA SetRunIs ==
  ASSUME NEW w \in Machine, NEW c \in Container, NEW r \in BOOLEAN
  PROVE  /\ SetRun(w, c, r) \in Machine
         /\ IsPut(w.ctr, SetRun(w, c, r).ctr, c, r)
         /\ SetRun(w, c, r).vol = w.vol /\ SetRun(w, c, r).net = w.net
<1>1. PICK f : f = Put(w.ctr, c, r)
  OBVIOUS
<1>2. w.ctr \in Partial(Container, BOOLEAN)
  BY DEF Machine
<1>3. f \in Partial(Container, BOOLEAN) /\ IsPut(w.ctr, f, c, r)
  BY <1>1, <1>2, PutIs
<1>4. SetRun(w, c, r) = [w EXCEPT !.ctr = f]
  BY <1>1 DEF SetRun
<1>5. QED
  BY <1>3, <1>4 DEF Machine

\* Adding files to a volume.
LEMMA FillIs ==
  ASSUME NEW w \in Machine, NEW v \in Volume, NEW fs \in SUBSET File
  PROVE  /\ Fill(w, v, fs) \in Machine
         /\ IsPut(w.vol, Fill(w, v, fs).vol, v, Files(w, v) \cup fs)
         /\ Fill(w, v, fs).ctr = w.ctr /\ Fill(w, v, fs).net = w.net
<1>1. w.vol \in Partial(Volume, SUBSET File)
  BY DEF Machine, Contents
<1>2. Files(w, v) \in SUBSET File
  <2>1. w.vol \in [DOMAIN w.vol -> SUBSET File]
    BY <1>1, PartialIs
  <2>2. QED
    BY <2>1 DEF Files
<1>3. PICK gs \in SUBSET File : gs = Files(w, v) \cup fs
  BY <1>2
<1>4. PICK f : f = Put(w.vol, v, gs)
  OBVIOUS
<1>5. f \in Partial(Volume, SUBSET File) /\ IsPut(w.vol, f, v, gs)
  BY <1>1, <1>4, PutIs
<1>6. Fill(w, v, fs) = [w EXCEPT !.vol = f]
  BY <1>3, <1>4 DEF Fill
<1>7. QED
  BY <1>3, <1>5, <1>6 DEF Machine, Contents

\* Removing a volume, and a container.
LEMMA RemoveIs ==
  ASSUME NEW w \in Machine, NEW x
  PROVE  /\ RemoveVolume(w, x) \in Machine
         /\ IsCut(w.vol, RemoveVolume(w, x).vol, x)
         /\ RemoveVolume(w, x).ctr = w.ctr /\ RemoveVolume(w, x).net = w.net
         /\ RemoveContainer(w, x) \in Machine
         /\ IsCut(w.ctr, RemoveContainer(w, x).ctr, x)
         /\ RemoveContainer(w, x).vol = w.vol /\ RemoveContainer(w, x).net = w.net
<1>1. w.vol \in Partial(Volume, SUBSET File) /\ w.ctr \in Partial(Container, BOOLEAN)
  BY DEF Machine, Contents
<1>2. PICK f, g : f = Restrict(w.vol, DOMAIN w.vol \ {x}) /\ g = Restrict(w.ctr, DOMAIN w.ctr \ {x})
  OBVIOUS
<1>3. f \in Partial(Volume, SUBSET File) /\ IsCut(w.vol, f, x)
  BY <1>1, <1>2, CutIs
<1>4. g \in Partial(Container, BOOLEAN) /\ IsCut(w.ctr, g, x)
  BY <1>1, <1>2, CutIs
<1>5. RemoveVolume(w, x) = [w EXCEPT !.vol = f] /\ RemoveContainer(w, x) = [w EXCEPT !.ctr = g]
  BY <1>2 DEF RemoveVolume, RemoveContainer
<1>6. QED
  BY <1>3, <1>4, <1>5 DEF Machine, Contents

\* What a call makes of the machine.
Does(w, s, v) ==
  /\ s.do = "create" =>
       /\ IsPut(w.ctr, v.ctr, s.on, FALSE) /\ v.net = w.net
       /\ IsPut(w.vol, v.vol, VolOf[s.on], Files(w, VolOf[s.on]))
  /\ s.do = "recreate" =>
       /\ IsPut(w.ctr, v.ctr, s.on, FALSE) /\ v.net = w.net
       /\ IsPut(w.vol, v.vol, VolOf[s.on], Files(w, VolOf[s.on]) \cup UNION Range(s.files))
  /\ s.do \in {"start", "boot"} => IsPut(w.ctr, v.ctr, s.on, TRUE) /\ v.vol = w.vol /\ v.net = w.net
  /\ s.do = "stop" => IsPut(w.ctr, v.ctr, s.on, FALSE) /\ v.vol = w.vol /\ v.net = w.net
  /\ s.do = "remove" => IsCut(w.ctr, v.ctr, s.on) /\ v.vol = w.vol /\ v.net = w.net
  /\ s.do = "remove-v" =>
       /\ IsCut(w.ctr, v.ctr, s.on) /\ v.net = w.net
       /\ s.on \in Anon => IsCut(w.vol, v.vol, VolOf[s.on])
       /\ s.on \notin Anon => v.vol = w.vol
  /\ s.do \in {"rm-volume", "drop-volume"} => IsCut(w.vol, v.vol, s.on) /\ v.ctr = w.ctr /\ v.net = w.net
  /\ s.do = "fill" =>
       /\ IsPut(w.vol, v.vol, s.on, Files(w, s.on) \cup UNION Range(s.files))
       /\ v.ctr = w.ctr /\ v.net = w.net
  /\ s.do = "restore" => IsPut(w.vol, v.vol, s.on, s.files[s.on]) /\ v.ctr = w.ctr /\ v.net = w.net
  /\ s.do = "add-network" => v.net = w.net \cup {s.on} /\ v.ctr = w.ctr /\ v.vol = w.vol
  /\ s.do = "rm-network" => v.net = w.net \ {s.on} /\ v.ctr = w.ctr /\ v.vol = w.vol

OnContainer == {"create", "recreate", "start", "stop", "boot", "remove", "remove-v"}
OnVolume == {"fill", "restore", "rm-volume", "drop-volume"}
OnNetwork == {"add-network", "rm-network"}

\* Saved contents are files.
LEMMA ContentsAre ==
  ASSUME NEW f \in Contents
  PROVE  UNION Range(f) \subseteq File /\ \A v \in DOMAIN f : f[v] \subseteq File
<1>1. f \in [DOMAIN f -> SUBSET File]
  BY PartialIs DEF Contents
<1>2. \A v \in DOMAIN f : f[v] \subseteq File
  BY <1>1
<1>3. QED
  BY <1>2 DEF Range

\* None are none.
LEMMA NoContents == << >> \in Contents /\ UNION Range(<< >>) = {}
<1>1. PICK f : f = << >>
  OBVIOUS
<1>2. DOMAIN f = {} /\ f \in [DOMAIN f -> SUBSET File]
  BY <1>1
<1>3. f \in Contents
  BY <1>2, PartialIs DEF Contents
<1>4. UNION Range(f) = {}
  BY <1>2 DEF Range
<1>5. QED
  BY <1>1, <1>3, <1>4

\* The fields of a call.
LEMMA CallIs ==
  ASSUME NEW s \in Call
  PROVE  /\ s.do \in OnContainer \cup OnVolume \cup OnNetwork
         /\ s.do \in OnContainer => s.on \in Container
         /\ s.do \in OnVolume => s.on \in Volume
         /\ s.do \in OnNetwork => s.on \in Network
         /\ s.run \in BOOLEAN /\ s.files \in Contents
         /\ s.do # "recreate" => ~s.run
         /\ s.do = "restore" => DOMAIN s.files = {s.on}
         /\ s.do = "fill" => s.files = << >> \/ DOMAIN s.files = {s.on}
<1>1. << >> \in Contents
  BY NoContents
<1>2. CASE s \in Plainly({"create", "start", "stop", "boot", "remove", "remove-v"}, Container)
  BY <1>1, <1>2 DEF Plainly, OnContainer, OnVolume, OnNetwork
<1>3. CASE s \in [do : {"recreate"}, on : Container, run : BOOLEAN, files : Contents]
  BY <1>3 DEF OnContainer, OnVolume, OnNetwork
<1>4. CASE s \in Plainly({"fill", "rm-volume", "drop-volume"}, Volume)
  BY <1>1, <1>4 DEF Plainly, OnContainer, OnVolume, OnNetwork
<1>5. CASE s \in {t \in [do : {"fill", "restore"}, on : Volume, run : {FALSE}, files : Contents] : DOMAIN t.files = {t.on}}
  BY <1>5 DEF OnContainer, OnVolume, OnNetwork
<1>6. CASE s \in Plainly({"add-network", "rm-network"}, Network)
  BY <1>1, <1>6 DEF Plainly, OnContainer, OnVolume, OnNetwork
<1>7. QED
  BY <1>2, <1>3, <1>4, <1>5, <1>6 DEF Call

\* Effect does that, and keeps the shape of the machine.
LEMMA EffectIs ==
  ASSUME NEW w \in Machine, NEW s \in Call
  PROVE  Effect(w, s) \in Machine /\ Does(w, s, Effect(w, s))
<1>1. /\ s.do \in OnContainer \cup OnVolume \cup OnNetwork
      /\ s.do \in OnContainer => s.on \in Container /\ VolOf[s.on] \in Volume
      /\ s.do \in OnVolume => s.on \in Volume
      /\ s.do \in OnNetwork => s.on \in Network
      /\ UNION Range(s.files) \subseteq File
      /\ s.do = "restore" => s.files[s.on] \in SUBSET File
  BY CallIs, ContentsAre, SessionAssumption
<1>2. CASE s.do = "create"
  <2>1. PICK v : v = Fill(w, VolOf[s.on], {})
    OBVIOUS
  <2>2. s.on \in Container /\ VolOf[s.on] \in Volume /\ {} \in SUBSET File
    BY <1>1, <1>2 DEF OnContainer
  <2>3. /\ v \in Machine /\ v.ctr = w.ctr /\ v.net = w.net
        /\ IsPut(w.vol, v.vol, VolOf[s.on], Files(w, VolOf[s.on]) \cup {})
    BY <2>1, <2>2, FillIs
  <2>4. Effect(w, s) = SetRun(v, s.on, FALSE)
    BY <1>2, <2>1 DEF Effect
  <2>5. Files(w, VolOf[s.on]) \cup {} = Files(w, VolOf[s.on])
    OBVIOUS
  <2>6. SetRun(v, s.on, FALSE) \in Machine /\ IsPut(v.ctr, SetRun(v, s.on, FALSE).ctr, s.on, FALSE)
        /\ SetRun(v, s.on, FALSE).vol = v.vol /\ SetRun(v, s.on, FALSE).net = v.net
    BY <2>2, <2>3, SetRunIs
  <2>7. QED
    BY <1>2, <2>3, <2>4, <2>5, <2>6 DEF Does
<1>3. CASE s.do = "recreate"
  <2>1. PICK v, fs : v = Fill(w, VolOf[s.on], fs) /\ fs = UNION Range(s.files)
    OBVIOUS
  <2>2. s.on \in Container /\ VolOf[s.on] \in Volume /\ fs \in SUBSET File
    BY <1>1, <1>3, <2>1 DEF OnContainer
  <2>3. /\ v \in Machine /\ v.ctr = w.ctr /\ v.net = w.net
        /\ IsPut(w.vol, v.vol, VolOf[s.on], Files(w, VolOf[s.on]) \cup fs)
    BY <2>1, <2>2, FillIs
  <2>4. Effect(w, s) = SetRun(v, s.on, FALSE)
    BY <1>3, <2>1 DEF Effect, RecreateContainer
  <2>5. SetRun(v, s.on, FALSE) \in Machine /\ IsPut(v.ctr, SetRun(v, s.on, FALSE).ctr, s.on, FALSE)
        /\ SetRun(v, s.on, FALSE).vol = v.vol /\ SetRun(v, s.on, FALSE).net = v.net
    BY <2>2, <2>3, SetRunIs
  <2>6. QED
    BY <1>3, <2>1, <2>3, <2>4, <2>5 DEF Does
<1>4. CASE s.do \in {"start", "boot", "stop"}
  <2>1. s.on \in Container
    BY <1>1, <1>4 DEF OnContainer
  <2>2. PICK r \in BOOLEAN : Effect(w, s) = SetRun(w, s.on, r) /\ r = (s.do # "stop")
    BY <1>4 DEF Effect
  <2>3. SetRun(w, s.on, r) \in Machine /\ IsPut(w.ctr, SetRun(w, s.on, r).ctr, s.on, r)
        /\ SetRun(w, s.on, r).vol = w.vol /\ SetRun(w, s.on, r).net = w.net
    BY <2>1, SetRunIs
  <2>4. s.do = "stop" => r = FALSE
    BY <2>2
  <2>5. s.do # "stop" => r = TRUE
    BY <2>2
  <2>6. QED
    BY <1>4, <2>2, <2>3, <2>4, <2>5 DEF Does
<1>5. CASE s.do = "remove" \/ (s.do = "remove-v" /\ s.on \notin Anon)
  <2>1. Effect(w, s) = RemoveContainer(w, s.on)
    BY <1>5 DEF Effect
  <2>2. QED
    BY <1>5, <2>1, RemoveIs DEF Does
<1>6. CASE s.do = "remove-v" /\ s.on \in Anon
  <2>1. PICK v : v = RemoveContainer(w, s.on)
    OBVIOUS
  <2>2. v \in Machine /\ IsCut(w.ctr, v.ctr, s.on) /\ v.vol = w.vol /\ v.net = w.net
    BY <2>1, RemoveIs
  <2>3. Effect(w, s) = RemoveVolume(v, VolOf[s.on])
    BY <1>6, <2>1 DEF Effect
  <2>4. QED
    BY <1>6, <2>2, <2>3, RemoveIs DEF Does
<1>7. CASE s.do \in {"rm-volume", "drop-volume"}
  <2>1. PICK v : v = Effect(w, s) /\ v = RemoveVolume(w, s.on)
    BY <1>7 DEF Effect
  <2>2. v \in Machine /\ IsCut(w.vol, v.vol, s.on) /\ v.ctr = w.ctr /\ v.net = w.net
    BY <2>1, RemoveIs
  <2>3. Does(w, s, v)
    BY <1>7, <2>2 DEF Does
  <2>4. QED
    BY <2>1, <2>2, <2>3
<1>8. CASE s.do = "fill"
  <2>1. PICK fs \in SUBSET File : fs = UNION Range(s.files)
    BY <1>1
  <2>2. PICK v : v = Effect(w, s) /\ v = Fill(w, s.on, fs) /\ s.on \in Volume
    BY <1>1, <1>8, <2>1 DEF Effect, OnVolume
  <2>3. v \in Machine /\ IsPut(w.vol, v.vol, s.on, Files(w, s.on) \cup fs) /\ v.ctr = w.ctr /\ v.net = w.net
    BY <2>2, FillIs
  <2>4. Does(w, s, v)
    BY <1>8, <2>1, <2>3 DEF Does
  <2>5. QED
    BY <2>2, <2>3, <2>4
<1>9. CASE s.do = "restore"
  <2>1. PICK f, fs : f = Put(w.vol, s.on, fs) /\ fs = s.files[s.on]
    OBVIOUS
  <2>2. w.vol \in Partial(Volume, SUBSET File) /\ s.on \in Volume /\ fs \in SUBSET File
    BY <1>1, <1>9, <2>1 DEF Machine, Contents, OnVolume
  <2>3. f \in Partial(Volume, SUBSET File) /\ IsPut(w.vol, f, s.on, fs)
    BY <2>1, <2>2, PutIs
  <2>4. Effect(w, s) = [w EXCEPT !.vol = f]
    BY <1>9, <2>1 DEF Effect, RestoreVolume
  <2>5. Effect(w, s) \in Machine /\ Effect(w, s).vol = f /\ Effect(w, s).ctr = w.ctr /\ Effect(w, s).net = w.net
    BY <2>3, <2>4 DEF Machine, Contents
  <2>6. QED
    BY <1>9, <2>1, <2>3, <2>5 DEF Does
<1>10. CASE s.do \in {"add-network", "rm-network"}
  <2>1. s.on \in Network
    BY <1>1, <1>10 DEF OnNetwork
  <2>2. PICK v : v = Effect(w, s)
    OBVIOUS
  <2>3. s.do = "add-network" => v = [w EXCEPT !.net = w.net \cup {s.on}]
    BY <2>2 DEF Effect
  <2>4. s.do = "rm-network" => v = [w EXCEPT !.net = w.net \ {s.on}]
    BY <2>2 DEF Effect
  <2>5. w.net \cup {s.on} \subseteq Network /\ w.net \ {s.on} \subseteq Network
    BY <2>1 DEF Machine
  <2>6. v \in Machine /\ v.ctr = w.ctr /\ v.vol = w.vol
    BY <1>10, <2>3, <2>4, <2>5 DEF Machine
  <2>7. (s.do = "add-network" => v.net = w.net \cup {s.on}) /\ (s.do = "rm-network" => v.net = w.net \ {s.on})
    BY <2>3, <2>4 DEF Machine
  <2>8. Does(w, s, v)
    BY <1>10, <2>6, <2>7 DEF Does
  <2>9. QED
    BY <2>2, <2>6, <2>8
<1>11. QED
  BY <1>1, <1>2, <1>3, <1>4, <1>5, <1>6, <1>7, <1>8, <1>9, <1>10 DEF OnContainer, OnVolume, OnNetwork

\* A call that the daemon accepts leaves every container with its network and
\* its volume.
LEMMA WorldKept ==
  ASSUME NEW w \in World, NEW s \in Call, Accepts(w, s)
  PROVE  Effect(w, s) \in World /\ Does(w, s, Effect(w, s))
<1>1. w \in Machine /\ Housed(w)
  BY WorldIs
<1>2. PICK v : v = Effect(w, s)
  OBVIOUS
<1>3. v \in Machine /\ Does(w, s, v)
  BY <1>1, <1>2, EffectIs
<1>4. /\ s.do \in OnContainer \cup OnVolume \cup OnNetwork
      /\ s.do \in OnContainer => s.on \in Container
  BY CallIs
<1>5. DOMAIN w.ctr \subseteq Container
  BY <1>1, PartialIs DEF Machine
<1>6. Housed(v)
  <2> SUFFICES ASSUME NEW c \in DOMAIN v.ctr PROVE NetOf[c] \in v.net /\ VolOf[c] \in DOMAIN v.vol
    BY DEF Housed
  <2>1. CASE s.do \in {"create", "recreate"}
    BY <1>1, <1>3, <2>1 DEF Accepts, Does, Housed, IsPut
  <2>2. CASE s.do \in {"start", "boot", "stop"}
    BY <1>1, <1>3, <2>2 DEF Accepts, Does, Housed, IsPut
  <2>3. CASE s.do = "remove" \/ (s.do = "remove-v" /\ s.on \notin Anon)
    BY <1>1, <1>3, <2>3 DEF Does, Housed, IsCut
  <2>4. CASE s.do = "remove-v" /\ s.on \in Anon
    <3>1. c \in DOMAIN w.ctr /\ c # s.on /\ v.net = w.net /\ DOMAIN v.vol = DOMAIN w.vol \ {VolOf[s.on]}
      BY <1>3, <2>4 DEF Does, IsCut
    <3>2. VolOf[c] # VolOf[s.on]
      BY <1>5, <2>4, <3>1, SessionAssumption
    <3>3. QED
      BY <1>1, <3>1, <3>2 DEF Housed
  <2>5. CASE s.do \in {"rm-volume", "drop-volume"}
    BY <1>1, <1>3, <2>5 DEF Accepts, Users, Does, Housed, IsCut
  <2>6. CASE s.do \in {"fill", "restore"}
    BY <1>1, <1>3, <2>6 DEF Does, Housed, IsPut
  <2>7. CASE s.do \in {"add-network", "rm-network"}
    BY <1>1, <1>3, <2>7 DEF Accepts, Does, Housed
  <2>8. QED
    BY <1>4, <2>1, <2>2, <2>3, <2>4, <2>5, <2>6, <2>7 DEF OnContainer, OnVolume, OnNetwork
<1>7. QED
  BY <1>2, <1>3, <1>6, WorldIs

----------------------------------------------------------------------------
(* What a sequence p of steps has to undo in a world w, for a baseline b.  *)

Backward(b) ==
  Undoes(b) \cup {s \in Call : \/ s.do = "boot" /\ s.on \in DOMAIN b.ctr
                               \/ s.do = "remove-v" /\ s.on \notin DOMAIN b.ctr
                               \/ s.do = "drop-volume" /\ s.on \notin DOMAIN b.vol
                               \/ s.do = "rm-network" /\ s.on \notin b.net}

Setter == {"start", "stop", "boot"}

Is(s, do, x) == s.do = do /\ s.on = x
Has(p, do, x) == \E j \in DOMAIN p : Is(p[j], do, x)
Before(p, j, do, x) == \E i \in DOMAIN p : i < j /\ Is(p[i], do, x)
After(p, j, do, x) == \E i \in DOMAIN p : i > j /\ Is(p[i], do, x)
SetsRun(p, c) == \E j \in DOMAIN p : p[j].do \in Setter /\ p[j].on = c
SetsAfter(p, j, c) == \E i \in DOMAIN p : i > j /\ p[i].do \in Setter /\ p[i].on = c

\* The volume is anonymous and its container in the baseline.
Owned(b, v) == \E c \in Anon \cap DOMAIN b.ctr : VolOf[c] = v

\* Each container of the baseline is there or comes back, on its network.
Present(b, w, p) == \A c \in DOMAIN b.ctr : c \in DOMAIN w.ctr \/ Has(p, "recreate", c)
Joinable(w, p) ==
  \A j \in DOMAIN p : p[j].do = "recreate" =>
    NetOf[p[j].on] \in w.net \/ Before(p, j, "add-network", NetOf[p[j].on])
Networked(b, w, p) == \A n \in b.net : n \in w.net \/ Has(p, "add-network", n)

\* The last that p does to the run state of a container is that of the baseline.
RunOf(s) == IF s.do = "recreate" THEN s.run ELSE s.do # "stop"
LastRuns(b, p, E) ==
  \A j \in DOMAIN p :
    p[j].do \in Setter \cup {"recreate"} /\ p[j].on \notin E /\ ~SetsAfter(p, j, p[j].on) =>
      RunOf(p[j]) = b.ctr[p[j].on]
Running(b, w, p, E) ==
  \A c \in DOMAIN b.ctr \ E : c \in DOMAIN w.ctr /\ ~SetsRun(p, c) => w.ctr[c] = b.ctr[c]

\* The last that p does to a volume gives it the files of the baseline.
LastFiles(b, p) ==
  \A j \in DOMAIN p :
    /\ p[j].do = "restore" /\ ~After(p, j, "restore", p[j].on) => p[j].files[p[j].on] = b.vol[p[j].on]
    /\ p[j].do = "recreate" /\ ~After(p, j, "restore", VolOf[p[j].on]) =>
         /\ UNION Range(p[j].files) \subseteq b.vol[VolOf[p[j].on]]
         /\ p[j].on \in Anon => UNION Range(p[j].files) = b.vol[VolOf[p[j].on]]
    /\ p[j].do = "rm-volume" /\ p[j].on \in DOMAIN b.vol /\ ~Owned(b, p[j].on) => After(p, j, "restore", p[j].on)
Filled(b, w, p) ==
  \A v \in DOMAIN b.vol :
    \/ Has(p, "restore", v)
    \/ v \in DOMAIN w.vol /\ w.vol[v] = b.vol[v]
    \/ Owned(b, v) /\ v \notin DOMAIN w.vol

\* An anonymous volume comes and goes with its container.
Belongs(b, w, p) ==
  /\ \A c \in Anon \cap DOMAIN b.ctr :
       /\ VolOf[c] \in DOMAIN w.vol => c \in DOMAIN w.ctr
       /\ \A j \in DOMAIN p : Is(p[j], "restore", VolOf[c]) => c \in DOMAIN w.ctr \/ Before(p, j, "recreate", c)
  /\ \A d \in (Anon \cap DOMAIN w.ctr) \ DOMAIN b.ctr :
       VolOf[d] \in DOMAIN b.vol => Has(p, "restore", VolOf[d])

Restores(b, w, p, E) ==
  /\ Present(b, w, p) /\ Joinable(w, p) /\ Networked(b, w, p)
  /\ LastRuns(b, p, E)
  /\ LastFiles(b, p) /\ Filled(b, w, p) /\ Belongs(b, w, p)

\* What was added goes, containers first; the volumes in S may stay.
Clears(b, S, w, p) ==
  /\ \A d \in DOMAIN w.ctr \ DOMAIN b.ctr :
       /\ Has(p, "remove-v", d)
       /\ \A j \in DOMAIN p : p[j].do # "remove-v" => Before(p, j, "remove-v", d)
  /\ \A v \in DOMAIN w.vol \ DOMAIN b.vol : v \in S \/ Has(p, "rm-volume", v) \/ Has(p, "drop-volume", v)
  /\ \A n \in w.net \ b.net : Has(p, "rm-network", n)

Completes(b, S, w, p, E) == Restores(b, w, p, E) /\ Running(b, w, p, E) /\ Clears(b, S, w, p)

----------------------------------------------------------------------------
(* One step of a rollback.                                                 *)

\* A step s makes of the world w the world v, and adds k steps.
Outcome(w, s, v, k) ==
  \/ Settled(w, s) /\ v = w /\ k = 0
  \/ /\ ~Settled(w, s) /\ Accepts(w, s) /\ v = Effect(w, s)
     /\ k = IF s.do = "recreate" /\ s.run THEN 1 ELSE 0
  \/ ~Settled(w, s) /\ ~Accepts(w, s) /\ v = w /\ k = 0

\* What the step changes.
CtrMoved(b, w, s, v, k) ==
  /\ \A c \in DOMAIN w.ctr : c \in DOMAIN b.ctr => c \in DOMAIN v.ctr
  /\ \A c \in DOMAIN v.ctr : c \in DOMAIN w.ctr \/ Is(s, "recreate", c)
  /\ s.do = "recreate" => s.on \in DOMAIN v.ctr
  /\ s.do = "remove-v" => s.on \notin DOMAIN v.ctr
  /\ \A c \in DOMAIN v.ctr : c \in DOMAIN w.ctr /\ ~(s.do \in Setter /\ s.on = c) => v.ctr[c] = w.ctr[c]
  /\ s.do \in Setter /\ s.on \in DOMAIN v.ctr => v.ctr[s.on] = RunOf(s)
  /\ s.do = "recreate" /\ s.on \notin DOMAIN w.ctr /\ k = 0 => v.ctr[s.on] = RunOf(s)

NetMoved(b, w, s, v) ==
  /\ \A n \in w.net : n \in b.net => n \in v.net
  /\ \A n \in v.net : n \in w.net \/ Is(s, "add-network", n)
  /\ s.do = "add-network" => s.on \in v.net
  /\ s.do = "rm-network" => s.on \notin v.net

VolMoved(b, w, s, v) ==
  /\ \A x \in DOMAIN v.vol \ DOMAIN w.vol :
       Is(s, "restore", x) \/ (s.do = "recreate" /\ VolOf[s.on] = x /\ v.vol[x] = UNION Range(s.files))
  /\ \A x \in DOMAIN w.vol \ DOMAIN v.vol :
       \/ Is(s, "rm-volume", x) \/ Is(s, "drop-volume", x)
       \/ s.do = "remove-v" /\ s.on \in Anon \cap DOMAIN w.ctr /\ VolOf[s.on] = x
  /\ \A x \in DOMAIN w.vol \cap DOMAIN v.vol :
       \/ v.vol[x] = w.vol[x] \/ Is(s, "restore", x)
       \/ s.do = "recreate" /\ VolOf[s.on] = x /\ v.vol[x] = w.vol[x] \cup UNION Range(s.files)
  /\ s.do = "restore" => s.on \in DOMAIN v.vol /\ v.vol[s.on] = s.files[s.on]
  /\ s.do \in {"rm-volume", "drop-volume"} /\ s.on \notin DOMAIN b.vol => s.on \notin DOMAIN v.vol

Moved(b, w, s, v, k) == CtrMoved(b, w, s, v, k) /\ NetMoved(b, w, s, v) /\ VolMoved(b, w, s, v)

\* What the steps of a rollback are about.
LEMMA BackwardIs ==
  ASSUME NEW b, NEW s \in Backward(b)
  PROVE  /\ s \in Call
         /\ s.do \in {"recreate", "start", "stop", "boot"} => s.on \in DOMAIN b.ctr
         /\ s.do = "restore" => s.on \in DOMAIN b.vol
         /\ s.do = "add-network" => s.on \in b.net
         /\ s.do = "remove-v" => s.on \notin DOMAIN b.ctr
         /\ s.do = "drop-volume" => s.on \notin DOMAIN b.vol
         /\ s.do = "rm-network" => s.on \notin b.net
         /\ s.do \in {"recreate", "start", "stop", "boot", "restore", "rm-volume", "add-network", "remove-v",
                      "drop-volume", "rm-network"}
BY DEF Backward, Undoes, Backs, About

\* A step of a rollback moves the machine so, when what was added is gone
\* first.
LEMMA Moves ==
  ASSUME NEW b \in World, NEW w \in World, NEW s \in Backward(b), NEW v, NEW k, Outcome(w, s, v, k),
         s.do # "remove-v" => DOMAIN w.ctr \subseteq DOMAIN b.ctr,
         s.do = "recreate" => NetOf[s.on] \in w.net
  PROVE  v \in World /\ Moved(b, w, s, v, k)
<1>1. s \in Call /\ Housed(b) /\ Housed(w)
  BY BackwardIs, WorldIs
<1>2. v \in World
  BY <1>1, WorldKept DEF Outcome
<1>3. v = w \/ (Accepts(w, s) /\ Does(w, s, v))
  BY <1>1, WorldKept DEF Outcome
<1> HIDE DEF World
<1>4. CASE s.do = "recreate"
  <2>1. \/ s.on \in DOMAIN w.ctr /\ v = w
        \/ s.on \notin DOMAIN w.ctr /\ Does(w, s, v)
    <3>1. s.on \in DOMAIN w.ctr => Settled(w, s)
      BY <1>4 DEF Settled
    <3>2. s.on \notin DOMAIN w.ctr => Accepts(w, s) /\ ~Settled(w, s)
      BY <1>4 DEF Accepts, Settled
    <3>3. Accepts(w, s) => Does(w, s, Effect(w, s))
      BY <1>1, WorldKept
    <3>4. s.on \in DOMAIN w.ctr => v = w
      BY <3>1 DEF Outcome
    <3>5. s.on \notin DOMAIN w.ctr => v = Effect(w, s)
      BY <3>2 DEF Outcome
    <3>6. QED
      BY <3>2, <3>3, <3>4, <3>5
  <2>2. k = 0 /\ s.on \notin DOMAIN w.ctr => s.run = FALSE
    <3>1. s.run \in BOOLEAN
      BY <1>1, CallIs
    <3>2. QED
      BY <1>4, <3>1 DEF Outcome, Settled, Accepts
  <2>3. CASE s.on \in DOMAIN w.ctr /\ v = w
    <3>1. CtrMoved(b, w, s, v, k)
      BY <1>4, <2>3 DEF CtrMoved, Setter, Is
    <3>2. NetMoved(b, w, s, v) /\ VolMoved(b, w, s, v)
      BY <1>4, <2>3 DEF NetMoved, VolMoved, Is
    <3>3. QED
      BY <1>2, <3>1, <3>2 DEF Moved
  <2>4. CASE s.on \notin DOMAIN w.ctr /\ Does(w, s, v)
    <3>1. IsPut(w.ctr, v.ctr, s.on, FALSE) /\ v.net = w.net
          /\ IsPut(w.vol, v.vol, VolOf[s.on], Files(w, VolOf[s.on]) \cup UNION Range(s.files))
      BY <1>4, <2>4 DEF Does
    <3>2. s.do \notin Setter /\ s.do # "remove-v" /\ (k = 0 => RunOf(s) = FALSE)
      BY <1>4, <2>2, <2>4 DEF Setter, RunOf
    <3>3. DOMAIN v.ctr = DOMAIN w.ctr \cup {s.on} /\ \A c \in DOMAIN w.ctr \ {s.on} : v.ctr[c] = w.ctr[c]
      BY <3>1 DEF IsPut
    <3>4. k = 0 => v.ctr[s.on] = RunOf(s)
      <4>1. v.ctr[s.on] = FALSE
        BY <3>1 DEF IsPut
      <4>2. QED
        BY <3>2, <4>1, Zenon
    <3>5. \A c \in DOMAIN w.ctr : c # s.on
      BY <2>4
    <3>6. CtrMoved(b, w, s, v, k)
      BY <1>4, <3>2, <3>3, <3>4, <3>5 DEF CtrMoved, Is
    <3>7. NetMoved(b, w, s, v)
      BY <1>4, <2>2, <3>1 DEF NetMoved, Setter, Is, IsPut, Files, RunOf
    <3>8. VolMoved(b, w, s, v)
      BY <1>4, <2>2, <3>1 DEF VolMoved, Setter, Is, IsPut, Files, RunOf
    <3>9. QED
      BY <1>2, <3>6, <3>7, <3>8 DEF Moved
  <2>5. QED
    BY <2>1, <2>3, <2>4
<1>5. CASE s.do \in Setter
  <2>1. CASE s.on \in DOMAIN w.ctr
    <3>1. Accepts(w, s) /\ ~Settled(w, s)
      BY <1>5, <2>1 DEF Accepts, Settled, Setter
    <3>2. Does(w, s, v)
      BY <1>1, <3>1, WorldKept DEF Outcome
    <3>3. IsPut(w.ctr, v.ctr, s.on, RunOf(s)) /\ v.vol = w.vol /\ v.net = w.net
      BY <1>5, <3>2 DEF Does, Setter, RunOf
    <3>4. CtrMoved(b, w, s, v, k)
      BY <1>5, <2>1, <3>3 DEF CtrMoved, Setter, Is, IsPut
    <3>5. NetMoved(b, w, s, v)
      BY <1>5, <2>1, <3>3 DEF NetMoved, Setter, Is, IsPut
    <3>6. VolMoved(b, w, s, v)
      BY <1>5, <2>1, <3>3 DEF VolMoved, Setter, Is, IsPut
    <3>7. QED
      BY <1>2, <3>4, <3>5, <3>6 DEF Moved
  <2>2. CASE s.on \notin DOMAIN w.ctr
    <3>1. v = w
      BY <1>5, <2>2 DEF Accepts, Settled, Setter, Outcome
    <3>2. CtrMoved(b, w, s, v, k)
      BY <1>5, <2>2, <3>1 DEF CtrMoved, Setter, Is
    <3>3. NetMoved(b, w, s, v)
      BY <1>5, <2>2, <3>1 DEF NetMoved, Setter, Is
    <3>4. VolMoved(b, w, s, v)
      BY <1>5, <2>2, <3>1 DEF VolMoved, Setter, Is
    <3>5. QED
      BY <1>2, <3>2, <3>3, <3>4 DEF Moved
  <2>3. QED
    BY <2>1, <2>2
<1>6. CASE s.do = "restore"
  <2>1. Does(w, s, v)
    BY <1>1, <1>6, WorldKept DEF Outcome, Settled, Accepts
  <2>2. IsPut(w.vol, v.vol, s.on, s.files[s.on]) /\ v.ctr = w.ctr /\ v.net = w.net
    BY <1>6, <2>1 DEF Does
  <2>3. CtrMoved(b, w, s, v, k)
    BY <1>6, <2>2 DEF CtrMoved, Setter, Is, IsPut
  <2>4. NetMoved(b, w, s, v)
    BY <1>6, <2>2 DEF NetMoved, Setter, Is, IsPut
  <2>5. VolMoved(b, w, s, v)
    BY <1>6, <2>2 DEF VolMoved, Setter, Is, IsPut
  <2>6. QED
    BY <1>2, <2>3, <2>4, <2>5 DEF Moved
<1>7. CASE s.do \in {"rm-volume", "drop-volume"}
  <2>1. v.ctr = w.ctr /\ v.net = w.net /\ (v.vol = w.vol \/ IsCut(w.vol, v.vol, s.on))
    BY <1>3, <1>7 DEF Does
  <2>2. s.on \notin DOMAIN b.vol => s.on \notin DOMAIN v.vol
    <3> SUFFICES ASSUME s.on \notin DOMAIN b.vol, s.on \in DOMAIN w.vol PROVE s.on \notin DOMAIN v.vol
      BY <2>1 DEF IsCut
    <3>1. Users(w, s.on) = {}
      BY <1>1, <1>7 DEF Users, Housed
    <3>2. Accepts(w, s) /\ ~Settled(w, s)
      BY <1>7, <3>1 DEF Accepts, Settled
    <3>3. Does(w, s, v)
      BY <1>1, <3>2, WorldKept DEF Outcome
    <3>4. QED
      BY <1>7, <3>3 DEF Does, IsCut
  <2>3. CtrMoved(b, w, s, v, k)
    BY <1>7, <2>1, <2>2 DEF CtrMoved, Setter, Is, IsCut
  <2>4. NetMoved(b, w, s, v)
    BY <1>7, <2>1, <2>2 DEF NetMoved, Setter, Is, IsCut
  <2>5. VolMoved(b, w, s, v)
    BY <1>7, <2>1, <2>2 DEF VolMoved, Setter, Is, IsCut
  <2>6. QED
    BY <1>2, <2>3, <2>4, <2>5 DEF Moved
<1>8. CASE s.do = "add-network"
  <2>1. v.ctr = w.ctr /\ v.vol = w.vol /\ v.net = w.net \cup {s.on}
    <3>1. Accepts(w, s)
      BY <1>8 DEF Accepts
    <3>2. CASE s.on \in w.net
      <4>1. v = w
        BY <1>8, <3>2 DEF Outcome, Settled
      <4>2. QED
        BY <3>2, <4>1
    <3>3. CASE s.on \notin w.net
      <4>1. ~Settled(w, s)
        BY <1>8, <3>3 DEF Settled
      <4>2. Does(w, s, v)
        BY <1>1, <3>1, <4>1, WorldKept DEF Outcome
      <4>3. QED
        BY <1>8, <4>2 DEF Does
    <3>4. QED
      BY <3>2, <3>3
  <2>2. CtrMoved(b, w, s, v, k)
    BY <1>8, <2>1 DEF CtrMoved, Setter, Is
  <2>3. NetMoved(b, w, s, v)
    BY <1>8, <2>1 DEF NetMoved, Setter, Is
  <2>4. VolMoved(b, w, s, v)
    BY <1>8, <2>1 DEF VolMoved, Setter, Is
  <2>5. QED
    BY <1>2, <2>2, <2>3, <2>4 DEF Moved
<1>9. CASE s.do = "rm-network"
  <2>1. s.on \notin b.net
    BY <1>9, BackwardIs
  <2>2. \A c \in DOMAIN w.ctr : NetOf[c] # s.on
    BY <1>1, <1>9, <2>1 DEF Housed
  <2>3. v.ctr = w.ctr /\ v.vol = w.vol /\ v.net = w.net \ {s.on}
    <3>1. CASE s.on \in w.net
      <4>1. Accepts(w, s) /\ ~Settled(w, s)
        BY <1>9, <2>2, <3>1 DEF Accepts, Settled
      <4>2. Does(w, s, v)
        BY <1>1, <4>1, WorldKept DEF Outcome
      <4>3. QED
        BY <1>9, <4>2 DEF Does
    <3>2. CASE s.on \notin w.net
      <4>1. v = w
        BY <1>9, <3>2 DEF Accepts, Settled, Outcome
      <4>2. QED
        BY <3>2, <4>1
    <3>3. QED
      BY <3>1, <3>2
  <2>4. CtrMoved(b, w, s, v, k)
    BY <1>9, <2>1, <2>3 DEF CtrMoved, Setter, Is
  <2>5. NetMoved(b, w, s, v)
    BY <1>9, <2>1, <2>3 DEF NetMoved, Setter, Is
  <2>6. VolMoved(b, w, s, v)
    BY <1>9, <2>1, <2>3 DEF VolMoved, Setter, Is
  <2>7. QED
    BY <1>2, <2>4, <2>5, <2>6 DEF Moved
<1>10. CASE s.do = "remove-v"
  <2>1. s.on \notin DOMAIN b.ctr
    BY <1>10, BackwardIs
  <2>2. CASE s.on \in DOMAIN w.ctr
    <3>1. Accepts(w, s) /\ ~Settled(w, s)
      BY <1>10, <2>2 DEF Accepts, Settled
    <3>2. Does(w, s, v)
      BY <1>1, <3>1, WorldKept DEF Outcome
    <3>3. /\ IsCut(w.ctr, v.ctr, s.on) /\ v.net = w.net
          /\ (s.on \in Anon /\ IsCut(w.vol, v.vol, VolOf[s.on])) \/ v.vol = w.vol
      BY <1>10, <3>2 DEF Does
    <3>4. CtrMoved(b, w, s, v, k)
      BY <1>10, <2>1, <2>2, <3>3 DEF CtrMoved, Setter, Is, IsCut
    <3>5. NetMoved(b, w, s, v)
      BY <1>10, <2>1, <2>2, <3>3 DEF NetMoved, Setter, Is, IsCut
    <3>6. VolMoved(b, w, s, v)
      BY <1>10, <2>1, <2>2, <3>3 DEF VolMoved, Setter, Is, IsCut
    <3>7. QED
      BY <1>2, <3>4, <3>5, <3>6 DEF Moved
  <2>3. CASE s.on \notin DOMAIN w.ctr
    <3>1. v = w
      BY <1>10, <2>3 DEF Accepts, Settled, Outcome
    <3>2. CtrMoved(b, w, s, v, k)
      BY <1>10, <2>1, <2>3, <3>1 DEF CtrMoved, Setter, Is
    <3>3. NetMoved(b, w, s, v)
      BY <1>10, <2>1, <2>3, <3>1 DEF NetMoved, Setter, Is
    <3>4. VolMoved(b, w, s, v)
      BY <1>10, <2>1, <2>3, <3>1 DEF VolMoved, Setter, Is
    <3>5. QED
      BY <1>2, <3>2, <3>3, <3>4 DEF Moved
  <2>4. QED
    BY <2>2, <2>3
<1>11. QED
  BY <1>2, <1>4, <1>5, <1>6, <1>7, <1>8, <1>9, <1>10, BackwardIs DEF Setter

\* q is what is left of p after its first step, which may have added one.
Follows(p, q, k) ==
  /\ k \in {0, 1} /\ 1 \in DOMAIN p
  /\ \A j \in DOMAIN p : j \in Nat /\ j >= 1
  /\ \A i \in DOMAIN q : i \in Nat /\ i >= 1
  /\ \A j \in DOMAIN p \ {1} : (j - 1) + k \in DOMAIN q /\ q[(j - 1) + k] = p[j]
  /\ \A i \in DOMAIN q : \/ (i + 1) - k \in DOMAIN p \ {1} /\ q[i] = p[(i + 1) - k]
                         \/ k = 1 /\ i = 1
  /\ k = 1 => /\ p[1].do = "recreate" /\ p[1].run = TRUE
              /\ 1 \in DOMAIN q /\ Is(q[1], "boot", p[1].on)

\* A member of q that was in p, at j.
Was(p, q, k, i, j) == j \in DOMAIN p \ {1} /\ q[i] = p[j] /\ i = (j - 1) + k

\* A member of q was in p, or it starts what was created.
LEMMA WasOne ==
  ASSUME NEW p, NEW q, NEW k, Follows(p, q, k), NEW i \in DOMAIN q
  PROVE  (\E j : Was(p, q, k, i, j)) \/ (k = 1 /\ i = 1 /\ Is(q[i], "boot", p[1].on))
<1>1. k \in {0, 1} /\ i \in Nat
  BY DEF Follows
<1>2. i = (((i + 1) - k) - 1) + k
  BY <1>1
<1>3. ((i + 1) - k \in DOMAIN p \ {1} /\ q[i] = p[(i + 1) - k]) \/ (k = 1 /\ i = 1)
  BY DEF Follows
<1>4. CASE (i + 1) - k \in DOMAIN p \ {1} /\ q[i] = p[(i + 1) - k]
  BY <1>2, <1>4 DEF Was
<1>5. CASE k = 1 /\ i = 1
  BY <1>5 DEF Follows
<1>6. QED
  BY <1>3, <1>4, <1>5

\* What p has after its head, q has.
LEMMA Later ==
  ASSUME NEW p, NEW q, NEW k, Follows(p, q, k)
  PROVE  /\ \A do, x : Has(p, do, x) => Is(p[1], do, x) \/ Has(q, do, x)
         /\ \A do, x : After(p, 1, do, x) => Has(q, do, x)
         /\ \A i, j, do, x : Was(p, q, k, i, j) =>
              /\ Before(p, j, do, x) => Is(p[1], do, x) \/ Before(q, i, do, x)
              /\ After(p, j, do, x) => After(q, i, do, x)
<1>1. /\ k \in {0, 1} /\ \A j \in DOMAIN p : j \in Nat /\ j >= 1
      /\ \A j \in DOMAIN p \ {1} : (j - 1) + k \in DOMAIN q /\ q[(j - 1) + k] = p[j]
  BY DEF Follows
<1>2. ASSUME NEW do, NEW x, Has(p, do, x) PROVE Is(p[1], do, x) \/ Has(q, do, x)
  BY <1>1, <1>2 DEF Has
<1>3. ASSUME NEW do, NEW x, After(p, 1, do, x) PROVE Has(q, do, x)
  BY <1>1, <1>3 DEF After, Has
<1>4. ASSUME NEW i, NEW j, NEW do, NEW x, Was(p, q, k, i, j), Before(p, j, do, x)
      PROVE  Is(p[1], do, x) \/ Before(q, i, do, x)
  <2>1. PICK h \in DOMAIN p : h < j /\ Is(p[h], do, x)
    BY <1>4 DEF Before
  <2>2. CASE h = 1
    BY <2>1, <2>2
  <2>3. CASE h # 1
    <3>1. (h - 1) + k \in DOMAIN q /\ q[(h - 1) + k] = p[h]
      BY <1>1, <2>1, <2>3
    <3>2. (h - 1) + k < i
      BY <1>1, <1>4, <2>1 DEF Was
    <3>3. QED
      BY <2>1, <3>1, <3>2 DEF Before
  <2>4. QED
    BY <2>2, <2>3
<1>5. ASSUME NEW i, NEW j, NEW do, NEW x, Was(p, q, k, i, j), After(p, j, do, x)
      PROVE  After(q, i, do, x)
  <2>1. PICK h \in DOMAIN p : h > j /\ Is(p[h], do, x)
    BY <1>5 DEF After
  <2>2. h # 1 /\ j \in Nat /\ h \in Nat
    BY <1>1, <1>5, <2>1 DEF Was
  <2>3. (h - 1) + k \in DOMAIN q /\ q[(h - 1) + k] = p[h]
    BY <1>1, <2>1, <2>2
  <2>4. (h - 1) + k > i
    BY <1>1, <1>5, <2>1, <2>2 DEF Was
  <2>5. QED
    BY <2>1, <2>3, <2>4 DEF After
<1>6. QED
  BY <1>2, <1>3, <1>4, <1>5

\* The same for what sets the run state of a container.
LEMMA SetsLater ==
  ASSUME NEW p, NEW q, NEW k, Follows(p, q, k)
  PROVE  /\ \A c : SetsRun(p, c) => (p[1].do \in Setter /\ p[1].on = c) \/ SetsRun(q, c)
         /\ \A c : SetsAfter(p, 1, c) => SetsRun(q, c) /\ (k = 1 => SetsAfter(q, 1, c))
         /\ \A i, j, c : Was(p, q, k, i, j) /\ SetsAfter(p, j, c) => SetsAfter(q, i, c)
         /\ k = 1 => SetsRun(q, p[1].on)
<1>1. /\ k \in {0, 1} /\ \A j \in DOMAIN p : j \in Nat /\ j >= 1
      /\ \A j \in DOMAIN p \ {1} : (j - 1) + k \in DOMAIN q /\ q[(j - 1) + k] = p[j]
  BY DEF Follows
<1>2. ASSUME NEW c, SetsRun(p, c) PROVE (p[1].do \in Setter /\ p[1].on = c) \/ SetsRun(q, c)
  BY <1>1, <1>2 DEF SetsRun
<1>3. ASSUME NEW c, SetsAfter(p, 1, c) PROVE SetsRun(q, c) /\ (k = 1 => SetsAfter(q, 1, c))
  <2>1. PICK h \in DOMAIN p : h > 1 /\ p[h].do \in Setter /\ p[h].on = c
    BY <1>3 DEF SetsAfter
  <2>2. (h - 1) + k \in DOMAIN q /\ q[(h - 1) + k] = p[h] /\ (k = 1 => (h - 1) + k > 1)
    BY <1>1, <2>1
  <2>3. QED
    BY <2>1, <2>2 DEF SetsRun, SetsAfter
<1>4. ASSUME NEW i, NEW j, NEW c, Was(p, q, k, i, j), SetsAfter(p, j, c) PROVE SetsAfter(q, i, c)
  <2>1. PICK h \in DOMAIN p : h > j /\ p[h].do \in Setter /\ p[h].on = c
    BY <1>4 DEF SetsAfter
  <2>2. h # 1 /\ j \in Nat /\ h \in Nat
    BY <1>1, <1>4, <2>1 DEF Was
  <2>3. (h - 1) + k \in DOMAIN q /\ q[(h - 1) + k] = p[h]
    BY <1>1, <2>1, <2>2
  <2>4. (h - 1) + k > i
    BY <1>1, <1>4, <2>1, <2>2 DEF Was
  <2>5. QED
    BY <2>1, <2>3, <2>4 DEF SetsAfter
<1>5. ASSUME k = 1 PROVE SetsRun(q, p[1].on)
  BY <1>5 DEF Follows, SetsRun, Setter, Is
<1>6. QED
  BY <1>2, <1>3, <1>4, <1>5

\* The step at the head of p, in a world and with steps that are as they should be.
Stepping(b, S, w, p, E, v, q, k) ==
  /\ b \in World /\ w \in World /\ v \in World
  /\ Follows(p, q, k) /\ \A j \in DOMAIN p : p[j] \in Backward(b)
  /\ Completes(b, S, w, p, E) /\ Moved(b, w, p[1], v, k)

\* Containers and networks stay, or still come back.
LEMMA StepPresent ==
  ASSUME NEW b, NEW S, NEW w, NEW p, NEW E, NEW v, NEW q, NEW k, Stepping(b, S, w, p, E, v, q, k)
  PROVE  Present(b, v, q) /\ Joinable(v, q) /\ Networked(b, v, q)
<1> DEFINE s == p[1]
<1>1. /\ Follows(p, q, k) /\ Present(b, w, p) /\ Joinable(w, p) /\ Networked(b, w, p)
      /\ CtrMoved(b, w, s, v, k) /\ NetMoved(b, w, s, v) /\ Housed(b)
      /\ \A j \in DOMAIN p : p[j] \in Backward(b)
  BY WorldIs DEF Stepping, Completes, Restores, Moved
<1>2. Present(b, v, q)
  <2> SUFFICES ASSUME NEW c \in DOMAIN b.ctr PROVE c \in DOMAIN v.ctr \/ Has(q, "recreate", c)
    BY DEF Present
  <2>1. CASE c \in DOMAIN w.ctr
    BY <1>1, <2>1 DEF CtrMoved
  <2>2. CASE Has(p, "recreate", c)
    <3>1. Is(s, "recreate", c) \/ Has(q, "recreate", c)
      BY <1>1, <2>2, Later
    <3>2. QED
      BY <1>1, <3>1 DEF CtrMoved, Is
  <2>3. QED
    BY <1>1, <2>1, <2>2 DEF Present
<1>3. Joinable(v, q)
  <2> SUFFICES ASSUME NEW i \in DOMAIN q, q[i].do = "recreate"
               PROVE  NetOf[q[i].on] \in v.net \/ Before(q, i, "add-network", NetOf[q[i].on])
    BY DEF Joinable
  <2>1. PICK j : Was(p, q, k, i, j)
    BY <1>1, WasOne DEF Is
  <2>2. j \in DOMAIN p /\ p[j] = q[i]
    BY <2>1 DEF Was
  <2>3. PICK n : n = NetOf[q[i].on]
    OBVIOUS
  <2>4. n \in b.net
    <3>1. p[j].on \in DOMAIN b.ctr
      BY <1>1, <2>2, BackwardIs
    <3>2. QED
      BY <1>1, <2>2, <2>3, <3>1 DEF Housed
  <2>5. n \in w.net \/ Before(p, j, "add-network", n)
    BY <1>1, <2>2, <2>3 DEF Joinable
  <2>6. CASE n \in w.net
    BY <1>1, <2>3, <2>4, <2>6 DEF NetMoved
  <2>7. CASE Before(p, j, "add-network", n)
    <3>1. Is(s, "add-network", n) \/ Before(q, i, "add-network", n)
      BY <1>1, <2>1, <2>7, Later
    <3>2. QED
      BY <1>1, <2>3, <3>1 DEF NetMoved, Is
  <2>8. QED
    BY <2>5, <2>6, <2>7
<1>4. Networked(b, v, q)
  <2> SUFFICES ASSUME NEW n \in b.net PROVE n \in v.net \/ Has(q, "add-network", n)
    BY DEF Networked
  <2>1. CASE n \in w.net
    BY <1>1, <2>1 DEF NetMoved
  <2>2. CASE Has(p, "add-network", n)
    <3>1. Is(s, "add-network", n) \/ Has(q, "add-network", n)
      BY <1>1, <2>2, Later
    <3>2. QED
      BY <1>1, <3>1 DEF NetMoved, Is
  <2>3. QED
    BY <1>1, <2>1, <2>2 DEF Networked
<1>5. QED
  BY <1>2, <1>3, <1>4

\* The run state still comes back.
LEMMA StepRuns ==
  ASSUME NEW b, NEW S, NEW w, NEW p, NEW E, NEW v, NEW q, NEW k, Stepping(b, S, w, p, E, v, q, k)
  PROVE  LastRuns(b, q, E) /\ Running(b, v, q, E)
<1> DEFINE s == p[1]
<1>1. /\ Follows(p, q, k) /\ LastRuns(b, p, E) /\ Running(b, w, p, E) /\ CtrMoved(b, w, s, v, k)
  BY DEF Stepping, Completes, Restores, Moved
<1>2. 1 \in DOMAIN p /\ (k = 1 => s.do = "recreate" /\ s.run = TRUE) /\ k \in {0, 1}
  BY <1>1 DEF Follows
<1>3. LastRuns(b, q, E)
  <2> SUFFICES ASSUME NEW i \in DOMAIN q, q[i].do \in Setter \cup {"recreate"}, q[i].on \notin E,
                      ~SetsAfter(q, i, q[i].on)
               PROVE  RunOf(q[i]) = b.ctr[q[i].on]
    BY DEF LastRuns
  <2>1. CASE \E j : Was(p, q, k, i, j)
    <3>1. PICK j : Was(p, q, k, i, j)
      BY <2>1
    <3>2. j \in DOMAIN p /\ p[j] = q[i]
      BY <3>1 DEF Was
    <3>3. ~SetsAfter(p, j, p[j].on)
      BY <1>1, <3>1, <3>2, SetsLater
    <3>4. QED
      BY <1>1, <3>2, <3>3 DEF LastRuns
  <2>2. CASE k = 1 /\ i = 1 /\ Is(q[i], "boot", s.on)
    <3>1. ~SetsAfter(p, 1, s.on)
      BY <1>1, <2>2, SetsLater DEF Is
    <3>2. RunOf(s) = b.ctr[s.on]
      BY <1>1, <1>2, <2>2, <3>1 DEF LastRuns, Is
    <3>3. RunOf(s) = TRUE /\ RunOf(q[i]) = TRUE
      BY <1>2, <2>2 DEF RunOf, Is
    <3>4. QED
      BY <2>2, <3>2, <3>3 DEF Is
  <2>3. QED
    BY <1>1, <2>1, <2>2, WasOne
<1>4. Running(b, v, q, E)
  <2> SUFFICES ASSUME NEW c \in DOMAIN b.ctr \ E, c \in DOMAIN v.ctr, ~SetsRun(q, c) PROVE v.ctr[c] = b.ctr[c]
    BY DEF Running
  <2>1. ~SetsAfter(p, 1, c)
    BY <1>1, SetsLater
  <2>2. CASE s.do \in Setter /\ s.on = c
    <3>1. RunOf(s) = b.ctr[c]
      BY <1>1, <1>2, <2>1, <2>2 DEF LastRuns
    <3>2. QED
      BY <1>1, <2>2, <3>1 DEF CtrMoved
  <2>3. CASE ~(s.do \in Setter /\ s.on = c) /\ c \in DOMAIN w.ctr
    <3>1. ~SetsRun(p, c)
      BY <1>1, <2>3, SetsLater
    <3>2. w.ctr[c] = b.ctr[c]
      BY <1>1, <2>3, <3>1 DEF Running
    <3>3. QED
      BY <1>1, <2>3, <3>2 DEF CtrMoved
  <2>4. CASE c \notin DOMAIN w.ctr
    <3>1. Is(s, "recreate", c)
      BY <1>1, <2>4 DEF CtrMoved
    <3>2. k = 0
      BY <1>1, <1>2, <3>1, SetsLater DEF Is
    <3>3. RunOf(s) = b.ctr[c]
      BY <1>1, <1>2, <2>1, <3>1 DEF LastRuns, Is
    <3>4. QED
      BY <1>1, <2>4, <3>1, <3>2, <3>3 DEF CtrMoved, Is
  <2>5. QED
    BY <2>2, <2>3, <2>4
<1>5. QED
  BY <1>3, <1>4

\* What is written last to a volume is still what the baseline had.
LEMMA StepLastFiles ==
  ASSUME NEW b, NEW S, NEW w, NEW p, NEW E, NEW v, NEW q, NEW k, Stepping(b, S, w, p, E, v, q, k)
  PROVE  LastFiles(b, q)
<1>1. Follows(p, q, k) /\ LastFiles(b, p)
  BY DEF Stepping, Completes, Restores
<1>2. ASSUME NEW i \in DOMAIN q, NEW j, Was(p, q, k, i, j)
      PROVE  /\ q[i].do = "restore" /\ ~After(q, i, "restore", q[i].on) => q[i].files[q[i].on] = b.vol[q[i].on]
             /\ q[i].do = "recreate" /\ ~After(q, i, "restore", VolOf[q[i].on]) =>
                  /\ UNION Range(q[i].files) \subseteq b.vol[VolOf[q[i].on]]
                  /\ q[i].on \in Anon => UNION Range(q[i].files) = b.vol[VolOf[q[i].on]]
             /\ q[i].do = "rm-volume" /\ q[i].on \in DOMAIN b.vol /\ ~Owned(b, q[i].on) =>
                  After(q, i, "restore", q[i].on)
  <2>1. j \in DOMAIN p /\ p[j] = q[i]
    BY <1>2 DEF Was
  <2>2. \A x : After(p, j, "restore", x) => After(q, i, "restore", x)
    BY <1>1, <1>2, Later
  <2>3. QED
    BY <1>1, <2>1, <2>2 DEF LastFiles
<1>3. ASSUME NEW i \in DOMAIN q PROVE (\E j : Was(p, q, k, i, j)) \/ q[i].do = "boot"
  BY <1>1, WasOne DEF Is
<1>4. QED
  BY <1>2, <1>3 DEF LastFiles

\* The contents of the volumes still come back.
LEMMA StepFilled ==
  ASSUME NEW b, NEW S, NEW w, NEW p, NEW E, NEW v, NEW q, NEW k, Stepping(b, S, w, p, E, v, q, k)
  PROVE  Filled(b, v, q)
<1> DEFINE s == p[1]
<1>1. /\ Follows(p, q, k) /\ LastFiles(b, p) /\ Filled(b, w, p) /\ Belongs(b, w, p) /\ VolMoved(b, w, s, v)
      /\ s \in Backward(b) /\ 1 \in DOMAIN p /\ DOMAIN b.ctr \subseteq Container
  <2>1. DOMAIN b.ctr \subseteq Container
    BY WorldIs, PartialIs DEF Stepping, Machine
  <2>2. QED
    BY <2>1 DEF Stepping, Completes, Restores, Moved, Follows
<1> SUFFICES ASSUME NEW x \in DOMAIN b.vol, ~Has(q, "restore", x)
             PROVE  \/ x \in DOMAIN v.vol /\ v.vol[x] = b.vol[x]
                    \/ Owned(b, x) /\ x \notin DOMAIN v.vol
  BY DEF Filled
<1>2. ~After(p, 1, "restore", x)
  BY <1>1, Later
<1>3. CASE Is(s, "restore", x)
  <2>1. s.files[x] = b.vol[x]
    BY <1>1, <1>2, <1>3 DEF LastFiles, Is
  <2>2. QED
    BY <1>1, <1>3, <2>1 DEF VolMoved, Is
<1>4. CASE ~Is(s, "restore", x)
  <2>1. ~Has(p, "restore", x)
    BY <1>1, <1>4, Later
  <2>2. CASE x \in DOMAIN w.vol /\ x \in DOMAIN v.vol
    <3>1. w.vol[x] = b.vol[x]
      BY <1>1, <2>1, <2>2 DEF Filled
    <3>2. v.vol[x] = w.vol[x] \/ (s.do = "recreate" /\ VolOf[s.on] = x /\ v.vol[x] = w.vol[x] \cup UNION Range(s.files))
      BY <1>1, <1>4, <2>2 DEF VolMoved
    <3>3. s.do = "recreate" /\ VolOf[s.on] = x => UNION Range(s.files) \subseteq b.vol[x]
      BY <1>1, <1>2 DEF LastFiles
    <3>4. v.vol[x] = b.vol[x]
      BY <3>1, <3>2, <3>3
    <3>5. QED
      BY <2>2, <3>4
  <2>3. CASE x \in DOMAIN w.vol /\ x \notin DOMAIN v.vol
    <3>1. \/ Is(s, "rm-volume", x) \/ Is(s, "drop-volume", x)
          \/ s.do = "remove-v" /\ s.on \in Anon \cap DOMAIN w.ctr /\ VolOf[s.on] = x
      BY <1>1, <2>3 DEF VolMoved
    <3>2. CASE Is(s, "rm-volume", x)
      <4>1. ~Owned(b, x) => After(p, 1, "restore", x)
        BY <1>1, <3>2 DEF LastFiles, Is
      <4>2. QED
        BY <1>2, <2>3, <4>1
    <3>3. CASE Is(s, "drop-volume", x)
      BY <1>1, <3>3, BackwardIs DEF Is
    <3>4. CASE s.do = "remove-v" /\ s.on \in Anon \cap DOMAIN w.ctr /\ VolOf[s.on] = x
      <4>1. s.on \notin DOMAIN b.ctr
        BY <1>1, <3>4, BackwardIs
      <4>2. Has(p, "restore", x)
        BY <1>1, <3>4, <4>1 DEF Belongs
      <4>3. QED
        BY <2>1, <4>2
    <3>5. QED
      BY <3>1, <3>2, <3>3, <3>4
  <2>4. CASE x \notin DOMAIN w.vol
    <3>1. Owned(b, x)
      BY <1>1, <2>1, <2>4 DEF Filled
    <3>2. CASE x \in DOMAIN v.vol
      <4>1. s.do = "recreate" /\ VolOf[s.on] = x /\ v.vol[x] = UNION Range(s.files)
        BY <1>1, <1>4, <2>4, <3>2 DEF VolMoved
      <4>2. s.on \in Anon
        <5>1. PICK c \in Anon \cap DOMAIN b.ctr : VolOf[c] = x
          BY <3>1 DEF Owned
        <5>2. s.on \in Container
          BY <1>1, <4>1, BackwardIs
        <5>3. s.on = c
          BY <4>1, <5>1, <5>2, SessionAssumption
        <5>4. QED
          BY <5>1, <5>3
      <4>3. UNION Range(s.files) = b.vol[x]
        BY <1>1, <1>2, <4>1, <4>2 DEF LastFiles
      <4>4. QED
        BY <3>2, <4>1, <4>3
    <3>3. QED
      BY <3>1, <3>2
  <2>5. QED
    BY <2>2, <2>3, <2>4
<1>5. QED
  BY <1>3, <1>4

\* An anonymous volume still comes and goes with its container.
LEMMA StepBelongs ==
  ASSUME NEW b, NEW S, NEW w, NEW p, NEW E, NEW v, NEW q, NEW k, Stepping(b, S, w, p, E, v, q, k)
  PROVE  Belongs(b, v, q)
<1> DEFINE s == p[1]
<1>1. /\ Follows(p, q, k) /\ Belongs(b, w, p) /\ CtrMoved(b, w, s, v, k) /\ VolMoved(b, w, s, v)
      /\ s \in Backward(b) /\ 1 \in DOMAIN p /\ \A j \in DOMAIN p : j \in Nat /\ j >= 1
      /\ Clears(b, S, w, p) /\ DOMAIN b.ctr \subseteq Container
  <2>1. DOMAIN b.ctr \subseteq Container
    BY WorldIs, PartialIs DEF Stepping, Machine
  <2>2. QED
    BY <2>1 DEF Stepping, Completes, Restores, Moved, Follows
<1>2. \A do, x : ~Before(p, 1, do, x)
  BY <1>1 DEF Before
<1>3. ASSUME NEW c \in Anon \cap DOMAIN b.ctr, VolOf[c] \in DOMAIN v.vol PROVE c \in DOMAIN v.ctr
  <2>1. CASE VolOf[c] \in DOMAIN w.vol
    BY <1>1, <1>3, <2>1 DEF Belongs, CtrMoved
  <2>2. CASE Is(s, "restore", VolOf[c])
    BY <1>1, <1>2, <2>2 DEF Belongs, CtrMoved
  <2>3. CASE s.do = "recreate" /\ VolOf[s.on] = VolOf[c]
    <3>1. s.on \in DOMAIN b.ctr
      BY <1>1, <2>3, BackwardIs
    <3>2. s.on = c
      BY <1>1, <2>3, <3>1, SessionAssumption
    <3>3. QED
      BY <1>1, <2>3, <3>2 DEF CtrMoved
  <2>4. QED
    BY <1>1, <1>3, <2>1, <2>2, <2>3 DEF VolMoved
<1>4. ASSUME NEW c \in Anon \cap DOMAIN b.ctr, NEW i \in DOMAIN q, Is(q[i], "restore", VolOf[c])
      PROVE  c \in DOMAIN v.ctr \/ Before(q, i, "recreate", c)
  <2>1. PICK j : Was(p, q, k, i, j)
    BY <1>1, <1>4, WasOne DEF Is
  <2>2. j \in DOMAIN p /\ p[j] = q[i]
    BY <2>1 DEF Was
  <2>3. CASE c \in DOMAIN w.ctr
    BY <1>1, <2>3 DEF CtrMoved
  <2>4. CASE Before(p, j, "recreate", c)
    <3>1. Is(s, "recreate", c) \/ Before(q, i, "recreate", c)
      BY <1>1, <2>1, <2>4, Later
    <3>2. QED
      BY <1>1, <3>1 DEF CtrMoved, Is
  <2>5. QED
    BY <1>1, <1>4, <2>2, <2>3, <2>4 DEF Belongs
<1>5. ASSUME NEW d \in (Anon \cap DOMAIN v.ctr) \ DOMAIN b.ctr, VolOf[d] \in DOMAIN b.vol
      PROVE  Has(q, "restore", VolOf[d])
  <2>1. d \in DOMAIN w.ctr
    <3>1. Is(s, "recreate", d) => d \in DOMAIN b.ctr
      BY <1>1, BackwardIs DEF Is
    <3>2. QED
      BY <1>1, <1>5, <3>1 DEF CtrMoved
  <2>2. Has(p, "restore", VolOf[d])
    BY <1>1, <1>5, <2>1 DEF Belongs
  <2>3. s.do = "remove-v"
    BY <1>1, <1>2, <1>5, <2>1 DEF Clears
  <2>4. QED
    BY <1>1, <2>2, <2>3, Later DEF Is
<1>6. QED
  BY <1>3, <1>4, <1>5 DEF Belongs

\* What was added still goes.
LEMMA StepClears ==
  ASSUME NEW b, NEW S, NEW w, NEW p, NEW E, NEW v, NEW q, NEW k, Stepping(b, S, w, p, E, v, q, k)
  PROVE  Clears(b, S, v, q)
<1> DEFINE s == p[1]
<1>1. /\ Follows(p, q, k) /\ Clears(b, S, w, p)
      /\ CtrMoved(b, w, s, v, k) /\ NetMoved(b, w, s, v) /\ VolMoved(b, w, s, v)
      /\ s \in Backward(b) /\ 1 \in DOMAIN p /\ \A j \in DOMAIN p : j \in Nat /\ j >= 1
      /\ Housed(b)
  BY WorldIs DEF Stepping, Completes, Restores, Moved, Follows
<1>2. \A do, x : ~Before(p, 1, do, x)
  BY <1>1 DEF Before
<1>3. ASSUME NEW d \in DOMAIN v.ctr \ DOMAIN b.ctr
      PROVE  Has(q, "remove-v", d) /\ \A i \in DOMAIN q : q[i].do # "remove-v" => Before(q, i, "remove-v", d)
  <2>1. d \in DOMAIN w.ctr
    <3>1. Is(s, "recreate", d) => d \in DOMAIN b.ctr
      BY <1>1, BackwardIs DEF Is
    <3>2. QED
      BY <1>1, <1>3, <3>1 DEF CtrMoved
  <2>2. s.do = "remove-v" /\ ~Is(s, "remove-v", d)
    BY <1>1, <1>2, <1>3, <2>1 DEF Clears, CtrMoved, Is
  <2>3. Has(p, "remove-v", d)
    BY <1>1, <1>3, <2>1 DEF Clears
  <2>4. Has(q, "remove-v", d)
    BY <1>1, <2>2, <2>3, Later
  <2>5. ASSUME NEW i \in DOMAIN q, q[i].do # "remove-v" PROVE Before(q, i, "remove-v", d)
    <3>1. k = 0
      BY <1>1, <2>2 DEF Follows
    <3>2. PICK j : Was(p, q, k, i, j)
      BY <1>1, <3>1, WasOne
    <3>3. Before(p, j, "remove-v", d)
      BY <1>1, <1>3, <2>1, <2>5, <3>2 DEF Was, Clears
    <3>4. QED
      BY <1>1, <2>2, <3>2, <3>3, Later
  <2>6. QED
    BY <2>4, <2>5
<1>4. ASSUME NEW x \in DOMAIN v.vol \ DOMAIN b.vol PROVE x \in S \/ Has(q, "rm-volume", x) \/ Has(q, "drop-volume", x)
  <2>1. x \in DOMAIN w.vol
    <3>1. s.do = "recreate" => VolOf[s.on] \in DOMAIN b.vol
      BY <1>1, BackwardIs DEF Housed
    <3>2. s.do = "restore" => s.on \in DOMAIN b.vol
      BY <1>1, BackwardIs
    <3>3. QED
      BY <1>1, <1>4, <3>1, <3>2 DEF VolMoved, Is
  <2>2. ~Is(s, "rm-volume", x) /\ ~Is(s, "drop-volume", x)
    BY <1>1, <1>4 DEF VolMoved, Is
  <2>3. x \in S \/ Has(p, "rm-volume", x) \/ Has(p, "drop-volume", x)
    BY <1>1, <1>4, <2>1 DEF Clears
  <2>4. QED
    BY <1>1, <2>2, <2>3, Later
<1>5. ASSUME NEW n \in v.net \ b.net PROVE Has(q, "rm-network", n)
  <2>1. n \in w.net
    <3>1. s.do = "add-network" => s.on \in b.net
      BY <1>1, BackwardIs
    <3>2. QED
      BY <1>1, <1>5, <3>1 DEF NetMoved, Is
  <2>2. ~Is(s, "rm-network", n)
    BY <1>1, <1>5 DEF NetMoved, Is
  <2>3. Has(p, "rm-network", n)
    BY <1>1, <1>5, <2>1 DEF Clears
  <2>4. QED
    BY <1>1, <2>2, <2>3, Later
<1>6. QED
  BY <1>3, <1>4, <1>5 DEF Clears

\* A step of a rollback leaves what completes it.
LEMMA StepCompletes ==
  ASSUME NEW b \in World, NEW S, NEW w \in World, NEW p, NEW E, NEW v, NEW q, NEW k,
         \A j \in DOMAIN p : p[j] \in Backward(b),
         Completes(b, S, w, p, E), Follows(p, q, k), Outcome(w, p[1], v, k)
  PROVE  v \in World /\ Completes(b, S, v, q, E)
<1>1. 1 \in DOMAIN p /\ \A j \in DOMAIN p : j \in Nat /\ j >= 1
  BY DEF Follows
<1>2. \A do, x : ~Before(p, 1, do, x)
  BY <1>1 DEF Before
<1>3. p[1].do # "remove-v" => DOMAIN w.ctr \subseteq DOMAIN b.ctr
  BY <1>1, <1>2 DEF Completes, Clears
<1>4. p[1].do = "recreate" => NetOf[p[1].on] \in w.net
  BY <1>1, <1>2 DEF Completes, Restores, Joinable
<1>5. v \in World /\ Moved(b, w, p[1], v, k)
  <2>1. p[1] \in Backward(b)
    BY <1>1
  <2>2. QED
    BY <1>3, <1>4, <2>1, Moves
<1>6. Stepping(b, S, w, p, E, v, q, k)
  BY <1>5 DEF Stepping
<1>7. QED
  BY <1>5, <1>6, StepPresent, StepRuns, StepLastFiles, StepFilled, StepBelongs, StepClears DEF Completes, Restores

----------------------------------------------------------------------------
(* What holds in every state.                                              *)

\* A call s that is still to be made can be undone by p.
Covered(b, w, p, s) ==
  /\ s.do \in {"start", "stop"} /\ s.on \in DOMAIN b.ctr => SetsRun(p, s.on)
  /\ s.do \in {"remove", "remove-v"} /\ s.on \in DOMAIN b.ctr =>
       \E i \in DOMAIN p :
         /\ Is(p[i], "recreate", s.on)
         /\ s.on \in Anon => s.do = "remove-v" /\ \A j \in DOMAIN p : Is(p[j], "restore", VolOf[s.on]) => i < j
  /\ s.do = "rm-volume" /\ s.on \in DOMAIN b.vol => Has(p, "restore", s.on) \/ s.on \notin DOMAIN w.vol
  /\ s.do = "fill" /\ s.on \in DOMAIN b.vol => Has(p, "restore", s.on) \/ (s.on \in DOMAIN w.vol /\ s.files = << >>)
  /\ s.do = "fill" /\ Owned(b, s.on) => s.on \in DOMAIN w.vol
  /\ s.do = "create" =>
       /\ s.on \notin DOMAIN b.ctr
       /\ VolOf[s.on] \in DOMAIN b.vol =>
            Has(p, "restore", VolOf[s.on]) \/ (VolOf[s.on] \in DOMAIN w.vol /\ s.on \notin Anon)
  /\ s.do = "rm-network" /\ s.on \in b.net =>
       \E i \in DOMAIN p :
         /\ Is(p[i], "add-network", s.on)
         /\ \A j \in DOMAIN p : p[j].do = "recreate" /\ NetOf[p[j].on] = s.on => i < j

\* Of the calls of a change only the first makes a volume.
Orderly(p) ==
  \A j \in DOMAIN p : p[j].do \in {"create", "fill"} => \A k \in DOMAIN p : k # j => k > j /\ p[k].do = "start"

SessionTyped ==
  /\ world \in World /\ base \in World
  /\ active \in BOOLEAN /\ rolled \in BOOLEAN /\ failed \in BOOLEAN
  /\ faults \in Nat
  /\ journal \in Seq(Entry)
  /\ cmd \in {"idle", "op", "rollback"}
  /\ cmd = "idle" => todo = << >>
  /\ cmd = "op" => todo \in Seq(Doing) /\ Orderly(todo)
  /\ cmd = "rollback" => active /\ todo \in Seq(Backward(base))

\* Every failure so far can be told.
Sound == active /\ (faults = 0 \/ ~Reported)

\* The journal undoes what was changed.
Recorded ==
  LET p == InversesOf(base, journal)
  IN Restores(base, world, p, cut) /\ Running(base, world, p, cut \cup Booting)

\* And what a change has still to do.
Ahead == \A k \in DOMAIN todo : Covered(base, world, InversesOf(base, journal), todo[k])

\* A rollback has what it takes, from the journal, and starts what it has created at once.
OnCourse ==
  /\ Completes(base, Shadowed, world, todo, cut)
  /\ \A k \in DOMAIN todo :
       /\ todo[k] \in Backs => \E j \in DOMAIN InversesOf(base, journal) : InversesOf(base, journal)[j] = todo[k]
       /\ todo[k].do = "boot" => k = 1

SessionInv ==
  /\ SessionTyped
  /\ Sound => Recorded
  /\ Sound /\ cmd = "op" => Ahead
  /\ Sound /\ cmd = "rollback" => OnCourse
  /\ active /\ rolled /\ ~Reported => cmd = "idle" /\ IsBack(world)

----------------------------------------------------------------------------
(* More to undo.                                                           *)

\* The step s takes back what there is in the world w.
Fresh(b, w, s) ==
  /\ s.do = "recreate" =>
       /\ s.on \in DOMAIN w.ctr /\ s.run = w.ctr[s.on]
       /\ UNION Range(s.files) \subseteq w.vol[VolOf[s.on]]
       /\ s.on \in Anon => UNION Range(s.files) = w.vol[VolOf[s.on]]
  /\ s.do \in {"start", "stop"} => s.on \in DOMAIN w.ctr /\ w.ctr[s.on] = (s.do = "start")
  /\ s.do = "restore" => s.on \in DOMAIN w.vol /\ s.files[s.on] = w.vol[s.on]
  /\ s.do = "rm-volume" => s.on \notin DOMAIN w.vol
  /\ s.do # "boot"

Removal == {"remove-v", "drop-volume", "rm-network"}

\* r has p at offset n, fresh steps before it and removals after it.
Widens(b, w, p, r, n) ==
  /\ n \in Nat /\ DOMAIN p \subseteq Nat /\ DOMAIN r \subseteq Nat
  /\ \A j \in DOMAIN p : n + j \in DOMAIN r /\ r[n + j] = p[j] /\ j >= 1
  /\ \A i \in DOMAIN r : \/ i - n \in DOMAIN p /\ r[i] = p[i - n]
                         \/ Fresh(b, w, r[i]) /\ (i <= n \/ r[i].do \in Removal)

\* What p has, r has, in the same order.
LEMMA WidensIs ==
  ASSUME NEW b, NEW w, NEW p, NEW r, NEW n, Widens(b, w, p, r, n)
  PROVE  /\ \A do, x : Has(p, do, x) => Has(r, do, x)
         /\ \A c : SetsRun(p, c) => SetsRun(r, c)
         /\ \A i \in DOMAIN r : \A do, x : i - n \in DOMAIN p =>
              /\ Before(p, i - n, do, x) => Before(r, i, do, x)
              /\ After(p, i - n, do, x) => After(r, i, do, x)
         /\ \A i \in DOMAIN r : \A c : i - n \in DOMAIN p => (SetsAfter(p, i - n, c) => SetsAfter(r, i, c))
         /\ \A i \in DOMAIN r : \A do, x : i <= n => (Has(p, do, x) => After(r, i, do, x))
         /\ \A i \in DOMAIN r : \A c : i <= n => (SetsRun(p, c) => SetsAfter(r, i, c))
<1>1. /\ n \in Nat /\ DOMAIN p \subseteq Nat /\ DOMAIN r \subseteq Nat
      /\ \A j \in DOMAIN p : n + j \in DOMAIN r /\ r[n + j] = p[j] /\ j >= 1
  BY DEF Widens
<1>2. \A do, x : Has(p, do, x) => Has(r, do, x)
  BY <1>1 DEF Has
<1>3. \A c : SetsRun(p, c) => SetsRun(r, c)
  BY <1>1 DEF SetsRun
<1>4. ASSUME NEW i \in DOMAIN r, i - n \in DOMAIN p, NEW h \in DOMAIN p
      PROVE  (h < i - n <=> n + h < i) /\ (h > i - n <=> n + h > i)
  BY <1>1, <1>4
<1>5. ASSUME NEW i \in DOMAIN r, i - n \in DOMAIN p, NEW do, NEW x
      PROVE  /\ Before(p, i - n, do, x) => Before(r, i, do, x)
             /\ After(p, i - n, do, x) => After(r, i, do, x)
  BY <1>1, <1>4, <1>5 DEF Before, After
<1>6. ASSUME NEW i \in DOMAIN r, i - n \in DOMAIN p, NEW c, SetsAfter(p, i - n, c)
      PROVE  SetsAfter(r, i, c)
  BY <1>1, <1>4, <1>6 DEF SetsAfter
<1>7. ASSUME NEW i \in DOMAIN r, i <= n, NEW h \in DOMAIN p PROVE n + h > i
  BY <1>1, <1>7
<1>8. ASSUME NEW i \in DOMAIN r, i <= n, NEW do, NEW x, Has(p, do, x) PROVE After(r, i, do, x)
  BY <1>1, <1>7, <1>8 DEF Has, After
<1>9. ASSUME NEW i \in DOMAIN r, i <= n, NEW c, SetsRun(p, c) PROVE SetsAfter(r, i, c)
  BY <1>1, <1>7, <1>9 DEF SetsRun, SetsAfter
<1>10. QED
  BY <1>2, <1>3, <1>5, <1>6, <1>8, <1>9

\* What a sequence restores it still restores when it is widened.
LEMMA WidenedRestores ==
  ASSUME NEW b \in World, NEW w \in World, NEW p, NEW r, NEW n, NEW E, NEW F,
         Widens(b, w, p, r, n), \A i \in DOMAIN r : r[i] \in Backward(b),
         Restores(b, w, p, E), Running(b, w, p, F), E \subseteq F
  PROVE  Restores(b, w, r, F) /\ Running(b, w, r, F)
<1>1. /\ Present(b, w, p) /\ Joinable(w, p) /\ Networked(b, w, p) /\ LastRuns(b, p, E)
      /\ LastFiles(b, p) /\ Filled(b, w, p) /\ Belongs(b, w, p) /\ Housed(w) /\ Housed(b)
  BY WorldIs DEF Restores
<1>2. /\ \A i \in DOMAIN r : \/ i - n \in DOMAIN p /\ r[i] = p[i - n]
                             \/ Fresh(b, w, r[i]) /\ (i <= n \/ r[i].do \in Removal)
      /\ n \in Nat
  BY DEF Widens
<1>3. Present(b, w, r) /\ Networked(b, w, r) /\ Filled(b, w, r) /\ Running(b, w, r, F)
  BY <1>1, WidensIs DEF Present, Networked, Filled, Running
<1>4. Joinable(w, r)
  <2> SUFFICES ASSUME NEW i \in DOMAIN r, r[i].do = "recreate"
               PROVE  NetOf[r[i].on] \in w.net \/ Before(r, i, "add-network", NetOf[r[i].on])
    BY DEF Joinable
  <2>1. CASE i - n \in DOMAIN p /\ r[i] = p[i - n]
    BY <1>1, <2>1, WidensIs DEF Joinable
  <2>2. CASE Fresh(b, w, r[i])
    BY <1>1, <2>2 DEF Fresh, Housed
  <2>3. QED
    BY <1>2, <2>1, <2>2
<1>5. LastRuns(b, r, F)
  <2> SUFFICES ASSUME NEW i \in DOMAIN r, r[i].do \in Setter \cup {"recreate"}, r[i].on \notin F,
                      ~SetsAfter(r, i, r[i].on)
               PROVE  RunOf(r[i]) = b.ctr[r[i].on]
    BY DEF LastRuns
  <2>1. CASE i - n \in DOMAIN p /\ r[i] = p[i - n]
    BY <1>1, <2>1, WidensIs DEF LastRuns
  <2>2. CASE Fresh(b, w, r[i]) /\ i <= n
    <3>1. ~SetsRun(p, r[i].on)
      BY <2>2, WidensIs
    <3>2. r[i].on \in DOMAIN b.ctr \ F
      BY BackwardIs DEF Setter
    <3>3. r[i].on \in DOMAIN w.ctr /\ RunOf(r[i]) = w.ctr[r[i].on]
      BY <2>2 DEF Fresh, RunOf, Setter
    <3>4. QED
      BY <3>1, <3>2, <3>3 DEF Running
  <2>3. r[i].do \notin Removal
    BY DEF Setter, Removal
  <2>4. QED
    BY <1>2, <2>1, <2>2, <2>3
<1>6. LastFiles(b, r)
  <2>1. ASSUME NEW i \in DOMAIN r, r[i].do = "restore", ~After(r, i, "restore", r[i].on)
        PROVE  r[i].files[r[i].on] = b.vol[r[i].on]
    <3>1. CASE i - n \in DOMAIN p /\ r[i] = p[i - n]
      BY <1>1, <2>1, <3>1, WidensIs DEF LastFiles
    <3>2. CASE Fresh(b, w, r[i]) /\ i <= n
      <4>1. ~Has(p, "restore", r[i].on)
        BY <2>1, <3>2, WidensIs
      <4>2. r[i].on \in DOMAIN b.vol
        BY <2>1, BackwardIs
      <4>3. r[i].on \in DOMAIN w.vol /\ r[i].files[r[i].on] = w.vol[r[i].on]
        BY <2>1, <3>2 DEF Fresh
      <4>4. QED
        BY <1>1, <4>1, <4>2, <4>3 DEF Filled
    <3>3. QED
      BY <1>2, <2>1, <3>1, <3>2 DEF Removal
  <2>2. ASSUME NEW i \in DOMAIN r, r[i].do = "recreate", ~After(r, i, "restore", VolOf[r[i].on])
        PROVE  /\ UNION Range(r[i].files) \subseteq b.vol[VolOf[r[i].on]]
               /\ r[i].on \in Anon => UNION Range(r[i].files) = b.vol[VolOf[r[i].on]]
    <3>1. CASE i - n \in DOMAIN p /\ r[i] = p[i - n]
      BY <1>1, <2>2, <3>1, WidensIs DEF LastFiles
    <3>2. CASE Fresh(b, w, r[i]) /\ i <= n
      <4>1. PICK x : x = VolOf[r[i].on]
        OBVIOUS
      <4>2. ~Has(p, "restore", x)
        BY <2>2, <3>2, <4>1, WidensIs
      <4>3. x \in DOMAIN b.vol
        BY <1>1, <2>2, <4>1, BackwardIs DEF Housed
      <4>4. /\ x \in DOMAIN w.vol /\ UNION Range(r[i].files) \subseteq w.vol[x]
            /\ r[i].on \in Anon => UNION Range(r[i].files) = w.vol[x]
        BY <1>1, <2>2, <3>2, <4>1 DEF Fresh, Housed
      <4>5. w.vol[x] = b.vol[x]
        BY <1>1, <4>2, <4>3, <4>4 DEF Filled
      <4>6. QED
        BY <4>1, <4>4, <4>5
    <3>3. QED
      BY <1>2, <2>2, <3>1, <3>2 DEF Removal
  <2>3. ASSUME NEW i \in DOMAIN r, r[i].do = "rm-volume", r[i].on \in DOMAIN b.vol, ~Owned(b, r[i].on)
        PROVE  After(r, i, "restore", r[i].on)
    <3>1. CASE i - n \in DOMAIN p /\ r[i] = p[i - n]
      BY <1>1, <2>3, <3>1, WidensIs DEF LastFiles
    <3>2. CASE Fresh(b, w, r[i]) /\ i <= n
      <4>1. r[i].on \notin DOMAIN w.vol
        BY <2>3, <3>2 DEF Fresh
      <4>2. Has(p, "restore", r[i].on)
        BY <1>1, <2>3, <4>1 DEF Filled
      <4>3. QED
        BY <3>2, <4>2, WidensIs
    <3>3. QED
      BY <1>2, <2>3, <3>1, <3>2 DEF Removal
  <2>4. QED
    BY <2>1, <2>2, <2>3 DEF LastFiles
<1>7. Belongs(b, w, r)
  <2>1. ASSUME NEW c \in Anon \cap DOMAIN b.ctr, NEW i \in DOMAIN r, Is(r[i], "restore", VolOf[c])
        PROVE  c \in DOMAIN w.ctr \/ Before(r, i, "recreate", c)
    <3>1. CASE i - n \in DOMAIN p /\ r[i] = p[i - n]
      BY <1>1, <2>1, <3>1, WidensIs DEF Belongs
    <3>2. CASE Fresh(b, w, r[i])
      BY <1>1, <2>1, <3>2 DEF Fresh, Belongs, Is
    <3>3. QED
      BY <1>2, <3>1, <3>2
  <2>2. QED
    BY <1>1, <2>1, WidensIs DEF Belongs
<1>8. QED
  BY <1>3, <1>4, <1>5, <1>6, <1>7 DEF Restores

\* r is q and then p.
Joint(q, p, r, n) ==
  /\ n \in Nat /\ DOMAIN q = 1..n /\ DOMAIN p \subseteq Nat /\ DOMAIN r \subseteq Nat
  /\ \A i \in DOMAIN q : i \in DOMAIN r /\ r[i] = q[i]
  /\ \A j \in DOMAIN p : n + j \in DOMAIN r /\ r[n + j] = p[j] /\ j >= 1
  /\ \A i \in DOMAIN r : i \in DOMAIN q \/ (i - n \in DOMAIN p /\ r[i] = p[i - n] /\ i > n)

\* Two sequences joined are so.
LEMMA JointIs ==
  ASSUME NEW S, NEW q, NEW p, q \in Seq(S), p \in Seq(S)
  PROVE  q \o p \in Seq(S) /\ Joint(q, p, q \o p, Len(q))
<1>1. PICK m \in Nat, n \in Nat : m = Len(p) /\ n = Len(q)
  BY LenProperties
<1>2. PICK r : r = q \o p
  OBVIOUS
<1>3. /\ r \in Seq(S) /\ Len(r) = n + m
      /\ DOMAIN q = 1..n /\ DOMAIN p = 1..m /\ DOMAIN r = 1..(n + m)
      /\ \A i \in 1..n : r[i] = q[i]
      /\ \A j \in 1..m : r[n + j] = p[j]
  <2>1. r \in Seq(S) /\ Len(r) = n + m /\ \A i \in 1..(n + m) : r[i] = IF i <= n THEN q[i] ELSE p[i - n]
    BY <1>1, <1>2, ConcatProperties
  <2>2. DOMAIN q = 1..n /\ DOMAIN p = 1..m /\ DOMAIN r = 1..(n + m)
    BY <1>1, <2>1, LenProperties
  <2>3. ASSUME NEW i \in 1..n PROVE r[i] = q[i]
    <3>1. i \in 1..(n + m) /\ i <= n
      OBVIOUS
    <3>2. QED
      BY <2>1, <3>1
  <2>4. ASSUME NEW j \in 1..m PROVE r[n + j] = p[j]
    <3>1. n + j \in 1..(n + m) /\ ~(n + j <= n) /\ (n + j) - n = j
      OBVIOUS
    <3>2. QED
      BY <2>1, <3>1
  <2>5. QED
    BY <2>1, <2>2, <2>3, <2>4
<1>4. ASSUME NEW i \in 1..(n + m) PROVE i \in 1..n \/ (i - n \in 1..m /\ n + (i - n) = i /\ i > n)
  OBVIOUS
<1>5. Joint(q, p, r, n)
  BY <1>3, <1>4 DEF Joint
<1>6. QED
  BY <1>1, <1>2, <1>3, <1>5

\* The steps q take back what the call s is about to do in the world w.
Responds(b, w, q, s) ==
  /\ s.do \in {"start", "stop"} /\ s.on \in DOMAIN b.ctr => SetsRun(q, s.on)
  /\ s.do \in {"remove", "remove-v"} /\ s.on \in DOMAIN b.ctr =>
       /\ Has(q, "recreate", s.on)
       /\ s.on \in Anon => s.do = "remove-v" /\ \A j \in DOMAIN q : q[j].do # "restore"
  /\ s.do = "rm-volume" /\ s.on \in DOMAIN b.vol \cap DOMAIN w.vol => Has(q, "restore", s.on)
  /\ s.do = "fill" =>
       /\ s.on \in DOMAIN b.vol \cap DOMAIN w.vol => Has(q, "restore", s.on) \/ s.files = << >>
       /\ s.on \in Anonymous => s.on \in DOMAIN w.vol
  /\ s.do = "create" => s.on \notin DOMAIN b.ctr /\ (s.on \in Anon => VolOf[s.on] \notin DOMAIN w.vol)
  /\ s.do = "rm-network" /\ s.on \in b.net =>
       \E i \in DOMAIN q : Is(q[i], "add-network", s.on) /\ \A j \in DOMAIN q : q[j].do = "recreate" => i < j

\* What the new steps take back, or the older ones already do, is covered.
LEMMA Answered ==
  ASSUME NEW b \in World, NEW w, NEW p, NEW q, NEW r, NEW n, NEW s \in Doing, Joint(q, p, r, n),
         Filled(b, w, p), Responds(b, w, q, s)
  PROVE  Covered(b, w, r, s)
<1>1. /\ \A do, x : Has(p, do, x) \/ Has(q, do, x) => Has(r, do, x)
      /\ \A c : SetsRun(q, c) => SetsRun(r, c)
  BY DEF Joint, Has, SetsRun
<1>2. \A i \in DOMAIN q, j \in DOMAIN r : i \in DOMAIN r /\ r[i] = q[i] /\ (j \in DOMAIN q \/ i < j)
  BY DEF Joint
<1>3. DOMAIN b.ctr \subseteq Container
  BY WorldIs, PartialIs DEF Machine
<1>4. \A v \in DOMAIN b.vol : Has(r, "restore", v) \/ v \in DOMAIN w.vol \/ Owned(b, v)
  BY <1>1 DEF Filled
<1>5. \A v : Owned(b, v) => v \in Anonymous
  BY DEF Owned, Anonymous
<1>6. s.do \in {"start", "stop"} /\ s.on \in DOMAIN b.ctr => SetsRun(r, s.on)
  BY <1>1 DEF Responds
<1>7. ASSUME s.do \in {"remove", "remove-v"}, s.on \in DOMAIN b.ctr
      PROVE  \E i \in DOMAIN r :
               /\ Is(r[i], "recreate", s.on)
               /\ s.on \in Anon => s.do = "remove-v" /\ \A j \in DOMAIN r : Is(r[j], "restore", VolOf[s.on]) => i < j
  <2>1. PICK i \in DOMAIN q : Is(q[i], "recreate", s.on)
    BY <1>7 DEF Responds, Has
  <2>2. s.on \in Anon => s.do = "remove-v" /\ \A j \in DOMAIN q : q[j].do # "restore"
    BY <1>7 DEF Responds
  <2>3. i \in DOMAIN r /\ Is(r[i], "recreate", s.on)
    BY <1>2, <2>1 DEF Joint
  <2>4. ASSUME s.on \in Anon, NEW j \in DOMAIN r, Is(r[j], "restore", VolOf[s.on]) PROVE i < j
    <3>1. j \in DOMAIN q => q[j].do = "restore"
      BY <2>4 DEF Is, Joint
    <3>2. QED
      BY <1>2, <2>1, <2>2, <2>4, <3>1
  <2>5. QED
    BY <2>2, <2>3, <2>4
<1>8. ASSUME s.do = "rm-volume", s.on \in DOMAIN b.vol PROVE Has(r, "restore", s.on) \/ s.on \notin DOMAIN w.vol
  BY <1>1, <1>8 DEF Responds
<1>9. ASSUME s.do = "fill", s.on \in DOMAIN b.vol
      PROVE  Has(r, "restore", s.on) \/ (s.on \in DOMAIN w.vol /\ s.files = << >>)
  BY <1>1, <1>4, <1>5, <1>9 DEF Responds
<1>10. ASSUME s.do = "fill", Owned(b, s.on) PROVE s.on \in DOMAIN w.vol
  BY <1>5, <1>10 DEF Responds
<1>11. ASSUME s.do = "create"
       PROVE  /\ s.on \notin DOMAIN b.ctr
              /\ VolOf[s.on] \in DOMAIN b.vol =>
                   Has(r, "restore", VolOf[s.on]) \/ (VolOf[s.on] \in DOMAIN w.vol /\ s.on \notin Anon)
  <2>1. s.on \notin DOMAIN b.ctr /\ (s.on \in Anon => VolOf[s.on] \notin DOMAIN w.vol)
    BY <1>11 DEF Responds
  <2>2. s.on \in Container
    BY <1>11, CallIs DEF Doing, OnContainer
  <2>3. ~Owned(b, VolOf[s.on])
    BY <2>1, <2>2, <1>3, SessionAssumption DEF Owned
  <2>4. QED
    BY <1>4, <2>1, <2>3
<1>12. ASSUME s.do = "rm-network", s.on \in b.net
       PROVE  \E i \in DOMAIN r :
                /\ Is(r[i], "add-network", s.on)
                /\ \A j \in DOMAIN r : r[j].do = "recreate" /\ NetOf[r[j].on] = s.on => i < j
  <2>1. PICK i \in DOMAIN q : Is(q[i], "add-network", s.on) /\ \A j \in DOMAIN q : q[j].do = "recreate" => i < j
    BY <1>12 DEF Responds
  <2>2. i \in DOMAIN r /\ Is(r[i], "add-network", s.on)
    BY <2>1 DEF Joint
  <2>3. ASSUME NEW j \in DOMAIN r, r[j].do = "recreate" PROVE i < j
    <3>1. j \in DOMAIN q => q[j].do = "recreate"
      BY <2>3 DEF Joint
    <3>2. QED
      BY <1>2, <2>1, <2>3, <3>1
  <2>4. QED
    BY <2>2, <2>3
<1>13. QED
  BY <1>6, <1>7, <1>8, <1>9, <1>10, <1>11, <1>12 DEF Covered

----------------------------------------------------------------------------
(* Every change can be taken back.                                         *)

Undoable(u, calls) ==
  /\ u \in Seq(Backs) /\ calls \in Seq(Doing) /\ Orderly(calls)
  /\ \A j \in DOMAIN u : About(base, u[j]) => Fresh(base, world, u[j])
  /\ \A k \in DOMAIN calls : Responds(base, world, KeptOf(base, u), calls[k])

\* A step of a name is a call.
LEMMA StepIs ==
  /\ \A c \in Container, do \in {"create", "start", "stop", "remove", "remove-v", "boot"} : Step(do, c) \in Call
  /\ \A v \in Volume, do \in {"fill", "rm-volume", "drop-volume"} : Step(do, v) \in Call
  /\ \A n \in Network, do \in {"add-network", "rm-network"} : Step(do, n) \in Call
  /\ \A do, x : Is(Step(do, x), do, x) /\ Step(do, x).files = << >> /\ Step(do, x).do = do /\ Step(do, x).run = FALSE
<1>1. \A do, x : Step(do, x) \in Plainly({do}, {x})
  BY DEF Step, Plainly
<1>2. QED
  BY <1>1 DEF Call, Plainly, Step, Is

\* What is saved of one volume.
LEMMA OneFile ==
  ASSUME world \in World, NEW v \in Volume
  PROVE  \E g : /\ g = [x \in {v} |-> Files(world, x)] /\ g \in Contents
                /\ DOMAIN g = {v} /\ g[v] = Files(world, v) /\ UNION Range(g) = Files(world, v)
<1>1. world.vol \in Partial(Volume, SUBSET File)
  BY WorldIs DEF Machine, Contents
<1>2. world.vol \in [DOMAIN world.vol -> SUBSET File]
  BY <1>1, PartialIs
<1>3. Files(world, v) \in SUBSET File
  BY <1>2 DEF Files
<1>4. PICK g : g = [x \in {v} |-> Files(world, x)]
  OBVIOUS
<1>5. g \in [{v} -> SUBSET File] /\ DOMAIN g = {v} /\ g[v] = Files(world, v)
  BY <1>3, <1>4
<1>6. g \in Contents
  <2>1. DOMAIN g \subseteq Volume /\ g \in [DOMAIN g -> SUBSET File]
    BY <1>5
  <2>2. QED
    BY <2>1, PartialIs DEF Contents
<1>7. Range(g) = {g[v]}
  BY <1>5 DEF Range
<1>8. QED
  BY <1>4, <1>5, <1>6, <1>7

\* The inverse of a removal is there to bring the container back as it is.
LEMMA RecreateIs ==
  ASSUME world \in World, base \in World, NEW c \in DOMAIN world.ctr, NEW vols \in BOOLEAN,
         c \in Anon \cap DOMAIN base.ctr => vols
  PROVE  /\ Recreate(c, vols) \in Backs
         /\ Is(Recreate(c, vols), "recreate", c)
         /\ About(base, Recreate(c, vols)) => Fresh(base, world, Recreate(c, vols))
<1>1. PICK s : s = Recreate(c, vols)
  OBVIOUS
<1>2. c \in Container /\ world.ctr[c] \in BOOLEAN /\ VolOf[c] \in Volume /\ VolOf[c] \in DOMAIN world.vol
  <2>1. world.ctr \in Partial(Container, BOOLEAN) /\ Housed(world)
    BY WorldIs DEF Machine
  <2>2. DOMAIN world.ctr \subseteq Container /\ world.ctr \in [DOMAIN world.ctr -> BOOLEAN]
    BY <2>1, PartialIs
  <2>3. c \in Container
    BY <2>2
  <2>4. QED
    BY <2>1, <2>2, <2>3, SessionAssumption DEF Housed
<1>3. PICK g : /\ g = [x \in {VolOf[c]} |-> Files(world, x)]
               /\ g \in Contents /\ UNION Range(g) = Files(world, VolOf[c])
  BY <1>2, OneFile
<1>4. s = [do |-> "recreate", on |-> c, run |-> world.ctr[c], files |-> IF vols THEN g ELSE << >>]
  BY <1>1, <1>3 DEF Recreate
<1>5. s.files \in Contents
  BY <1>3, <1>4, NoContents
<1>6. s \in Backs
  <2>1. s \in [do : {"recreate"}, on : Container, run : BOOLEAN, files : Contents]
    BY <1>2, <1>3, <1>4, NoContents
  <2>2. QED
    BY <1>4, <2>1 DEF Backs, Call
<1>7. UNION Range(s.files) \subseteq world.vol[VolOf[c]] /\ (vols => UNION Range(s.files) = world.vol[VolOf[c]])
  BY <1>2, <1>3, <1>4, NoContents DEF Files
<1>8. About(base, s) => Fresh(base, world, s)
  BY <1>4, <1>7 DEF About, Fresh
<1>9. QED
  BY <1>1, <1>4, <1>6, <1>8 DEF Is

\* The inverse of a change to a volume that exists.
LEMMA SaveVolumeIs ==
  ASSUME world \in World, NEW v \in DOMAIN world.vol
  PROVE  SaveVolume(v) \in Backs /\ Is(SaveVolume(v), "restore", v) /\ Fresh(base, world, SaveVolume(v))
<1>1. v \in Volume
  <2>1. world.vol \in Partial(Volume, SUBSET File)
    BY WorldIs DEF Machine, Contents
  <2>2. QED
    BY <2>1, PartialIs
<1>2. PICK g : g = [x \in {v} |-> Files(world, x)] /\ g \in Contents /\ DOMAIN g = {v} /\ g[v] = Files(world, v)
  BY <1>1, OneFile
<1>3. PICK s : s = SaveVolume(v)
  OBVIOUS
<1>4. s = [do |-> "restore", on |-> v, run |-> FALSE, files |-> g]
  BY <1>2, <1>3 DEF SaveVolume, Step
<1>5. s \in Backs
  BY <1>1, <1>2, <1>4 DEF Backs, Call
<1>6. Fresh(base, world, s)
  BY <1>2, <1>4 DEF Fresh, Files
<1>7. QED
  BY <1>3, <1>4, <1>5, <1>6 DEF Is

\* What is kept of a single inverse.
LEMMA OneKept ==
  ASSUME NEW b, NEW s \in Backs
  PROVE  /\ <<s>> \in Seq(Backs) /\ DOMAIN <<s>> = {1} /\ <<s>>[1] = s
         /\ About(b, s) => \E k \in DOMAIN KeptOf(b, <<s>>) : KeptOf(b, <<s>>)[k] = s
         /\ \A k \in DOMAIN KeptOf(b, <<s>>) : KeptOf(b, <<s>>)[k] = s
<1>1. PICK u : u = <<s>>
  OBVIOUS
<1>2. u \in Seq(Backs) /\ DOMAIN u = {1} /\ u[1] = s
  BY <1>1
<1>3. /\ \A k \in DOMAIN KeptOf(b, u) : \E i \in DOMAIN u : u[i] = KeptOf(b, u)[k]
      /\ \A i \in DOMAIN u : About(b, u[i]) => \E k \in DOMAIN KeptOf(b, u) : KeptOf(b, u)[k] = u[i]
  BY <1>2, KeptFacts
<1>4. QED
  BY <1>1, <1>2, <1>3

\* A change of one call with one inverse, or with none.
LEMMA OneUndoable ==
  ASSUME NEW s \in Backs, NEW call \in Doing, About(base, s) => Fresh(base, world, s),
         \A q : (\A k \in DOMAIN q : q[k] = s) /\ (About(base, s) => \E k \in DOMAIN q : q[k] = s) =>
                  Responds(base, world, q, call)
  PROVE  Undoable(<<s>>, <<call>>)
<1>1. PICK q : q = KeptOf(base, <<s>>)
  OBVIOUS
<1>2. /\ (\A k \in DOMAIN q : q[k] = s) /\ (About(base, s) => \E k \in DOMAIN q : q[k] = s)
      /\ <<s>> \in Seq(Backs) /\ DOMAIN <<s>> = {1} /\ <<s>>[1] = s
  BY <1>1, OneKept
<1>3. Responds(base, world, q, call)
  BY <1>2
<1>4. <<call>> \in Seq(Doing) /\ DOMAIN <<call>> = {1} /\ <<call>>[1] = call
  OBVIOUS
<1>5. Orderly(<<call>>)
  BY <1>4 DEF Orderly
<1>6. QED
  BY <1>1, <1>2, <1>3, <1>4, <1>5 DEF Undoable

\* A change of what the baseline does not have needs no inverse.
LEMMA NoneUndoable ==
  ASSUME NEW calls \in Seq(Doing), Orderly(calls), \A k \in DOMAIN calls : Responds(base, world, << >>, calls[k])
  PROVE  Undoable(<< >>, calls)
<1>1. KeptOf(base, << >>) = << >>
  <2>1. Parts(base, << >>) = << >>
    BY DEF Parts
  <2>2. QED
    BY <2>1 DEF KeptOf, FlattenSeq
<1>2. << >> \in Seq(Backs) /\ DOMAIN << >> = {}
  OBVIOUS
<1>3. QED
  BY <1>1, <1>2 DEF Undoable

Recoverable == \E u, calls : Undoable(u, calls) /\ Change(u, calls)

\* containers.run: the container is new, and so is an anonymous volume.
LEMMA RunUndoable ==
  ASSUME world \in World, base \in World, NEW c \in Container, Run(c)
  PROVE  Recoverable
<1>1. PICK s, t : s = Step("create", c) /\ t = Step("start", c)
  OBVIOUS
<1>2. /\ Is(s, "create", c) /\ Is(t, "start", c) /\ s \in Doing /\ t \in Doing
  BY <1>1, StepIs DEF Doing, Is
<1>3. c \notin DOMAIN base.ctr /\ (c \in Anon => VolOf[c] \notin DOMAIN world.vol) /\ Change(<< >>, <<s, t>>)
  BY <1>1 DEF Run
<1>4. PICK calls : calls = <<s, t>>
  OBVIOUS
<1>5. calls \in Seq(Doing) /\ DOMAIN calls = {1, 2} /\ calls[1] = s /\ calls[2] = t
  BY <1>2, <1>4
<1>6. Orderly(calls)
  BY <1>2, <1>5 DEF Orderly, Is
<1>7. Responds(base, world, << >>, s) /\ Responds(base, world, << >>, t)
  BY <1>2, <1>3 DEF Responds, Is
<1>8. Undoable(<< >>, calls)
  <2>1. \A k \in DOMAIN calls : Responds(base, world, << >>, calls[k])
    BY <1>5, <1>7
  <2>2. QED
    BY <1>5, <1>6, <2>1, NoneUndoable
<1>9. QED
  BY <1>3, <1>4, <1>8 DEF Recoverable

\* containers.rm: the container comes back, with the files of its anonymous
\* volume.
LEMMA RmUndoable ==
  ASSUME world \in World, base \in World, NEW c \in Container, NEW vols \in BOOLEAN, Rm(c, vols)
  PROVE  Recoverable
<1>1. PICK s, t : s = Recreate(c, vols) /\ t = Step(IF vols THEN "remove-v" ELSE "remove", c)
  OBVIOUS
<1>2. c \in DOMAIN world.ctr /\ (c \in Anon \cap DOMAIN base.ctr => vols) /\ Change(<<s>>, <<t>>)
  BY <1>1 DEF Rm
<1>3. s \in Backs /\ Is(s, "recreate", c) /\ (About(base, s) => Fresh(base, world, s))
  BY <1>1, <1>2, RecreateIs
<1>4. t.do = (IF vols THEN "remove-v" ELSE "remove") /\ t.on = c /\ t \in Doing
  <2>1. CASE vols
    BY <1>1, <2>1, StepIs DEF Doing, Is
  <2>2. CASE ~vols
    BY <1>1, <2>2, StepIs DEF Doing, Is
  <2>3. QED
    BY <2>1, <2>2
<1>5. ASSUME NEW q, \A k \in DOMAIN q : q[k] = s, About(base, s) => \E k \in DOMAIN q : q[k] = s
      PROVE  Responds(base, world, q, t)
  <2>1. c \in DOMAIN base.ctr => Has(q, "recreate", c)
    BY <1>3, <1>5 DEF About, Has, Is
  <2>2. \A k \in DOMAIN q : q[k].do # "restore"
    BY <1>3, <1>5 DEF Is
  <2>3. c \in Anon /\ c \in DOMAIN base.ctr => t.do = "remove-v"
    BY <1>2, <1>4
  <2>4. QED
    BY <1>4, <2>1, <2>2, <2>3 DEF Responds
<1>6. Undoable(<<s>>, <<t>>)
  BY <1>3, <1>4, <1>5, OneUndoable
<1>7. QED
  BY <1>2, <1>6 DEF Recoverable

\* containers.start and stop: set-running takes them back.
LEMMA StartStopUndoable ==
  ASSUME world \in World, base \in World, NEW c \in Container, NEW what \in {"start", "stop"}, StartStop(c, what)
  PROVE  Recoverable
<1>1. PICK s, t : s = Step(IF world.ctr[c] THEN "start" ELSE "stop", c) /\ t = Step(what, c)
  OBVIOUS
<1>2. c \in DOMAIN world.ctr /\ Change(<<s>>, <<t>>) /\ world.ctr[c] \in BOOLEAN
  <2>1. world.ctr \in Partial(Container, BOOLEAN)
    BY WorldIs DEF Machine
  <2>2. world.ctr \in [DOMAIN world.ctr -> BOOLEAN]
    BY <2>1, PartialIs
  <2>3. c \in DOMAIN world.ctr /\ Change(<<s>>, <<t>>)
    BY <1>1 DEF StartStop, RunInverse
  <2>4. QED
    BY <2>2, <2>3
<1>3. s \in Backs /\ s.do \in {"start", "stop"} /\ s.on = c /\ (s.do = "start" <=> world.ctr[c])
  <2>1. CASE world.ctr[c]
    BY <1>1, <2>1, StepIs DEF Backs, Is
  <2>2. CASE ~world.ctr[c]
    BY <1>1, <2>2, StepIs DEF Backs, Is
  <2>3. QED
    BY <2>1, <2>2
<1>4. t \in Doing /\ t.do \in {"start", "stop"} /\ t.on = c
  BY <1>1, StepIs DEF Doing, Is
<1>5. About(base, s) => Fresh(base, world, s)
  BY <1>2, <1>3 DEF Fresh
<1>6. ASSUME NEW q, \A k \in DOMAIN q : q[k] = s, About(base, s) => \E k \in DOMAIN q : q[k] = s
      PROVE  Responds(base, world, q, t)
  <2>1. c \in DOMAIN base.ctr => SetsRun(q, c)
    BY <1>3, <1>6 DEF About, SetsRun, Setter
  <2>2. QED
    BY <1>4, <2>1 DEF Responds
<1>7. Undoable(<<s>>, <<t>>)
  BY <1>3, <1>4, <1>5, <1>6, OneUndoable
<1>8. QED
  BY <1>2, <1>7 DEF Recoverable

\* volumes.create: an existing volume is left as it is.
LEMMA CreateVolumeUndoable ==
  ASSUME world \in World, base \in World, NEW v \in Volume, CreateVolume(v)
  PROVE  Recoverable
<1>1. PICK t : t = Step("fill", v)
  OBVIOUS
<1>2. v \notin Anonymous /\ Change(<< >>, <<t>>)
  BY <1>1 DEF CreateVolume
<1>3. t \in Doing /\ Is(t, "fill", v) /\ t.files = << >>
  BY <1>1, StepIs DEF Doing, Is
<1>4. Responds(base, world, << >>, t)
  BY <1>2, <1>3 DEF Responds, Is
<1>5. <<t>> \in Seq(Doing) /\ DOMAIN <<t>> = {1} /\ <<t>>[1] = t
  BY <1>3
<1>6. Orderly(<<t>>)
  BY <1>5 DEF Orderly
<1>7. Undoable(<< >>, <<t>>)
  BY <1>4, <1>5, <1>6, NoneUndoable
<1>8. QED
  BY <1>2, <1>7 DEF Recoverable

\* The inverse of a change to a volume, whether it exists or not.
LEMMA VolumeInverseIs ==
  ASSUME world \in World, NEW v \in Volume
  PROVE  \E s : /\ VolumeInverse(v) = <<s>> /\ s \in Backs /\ Fresh(base, world, s)
                /\ s.on = v /\ s.do = IF v \in DOMAIN world.vol THEN "restore" ELSE "rm-volume"
<1>1. CASE v \in DOMAIN world.vol
  <2>1. VolumeInverse(v) = <<SaveVolume(v)>>
    BY <1>1 DEF VolumeInverse
  <2>2. SaveVolume(v) \in Backs /\ Is(SaveVolume(v), "restore", v) /\ Fresh(base, world, SaveVolume(v))
    BY <1>1, SaveVolumeIs
  <2>3. QED
    BY <1>1, <2>1, <2>2 DEF Is
<1>2. CASE v \notin DOMAIN world.vol
  <2>1. PICK s : s = Step("rm-volume", v)
    OBVIOUS
  <2>2. VolumeInverse(v) = <<s>>
    BY <1>2, <2>1 DEF VolumeInverse
  <2>3. s \in Backs /\ Is(s, "rm-volume", v)
    BY <2>1, StepIs DEF Backs, Is
  <2>4. Fresh(base, world, s)
    BY <1>2, <2>3 DEF Fresh, Is
  <2>5. QED
    BY <1>2, <2>2, <2>3, <2>4 DEF Is
<1>3. QED
  BY <1>1, <1>2

\* volumes.rm: the contents are restored.
LEMMA VolumeRmUndoable ==
  ASSUME world \in World, base \in World, NEW v \in Volume, VolumeRm(v)
  PROVE  Recoverable
<1>1. PICK s : /\ VolumeInverse(v) = <<s>> /\ s \in Backs /\ Fresh(base, world, s)
               /\ s.on = v /\ s.do = IF v \in DOMAIN world.vol THEN "restore" ELSE "rm-volume"
  BY VolumeInverseIs
<1>2. PICK t : t = Step("rm-volume", v)
  OBVIOUS
<1>3. Change(<<s>>, <<t>>) /\ t \in Doing /\ Is(t, "rm-volume", v)
  BY <1>1, <1>2, StepIs DEF VolumeRm, Doing, Is
<1>4. ASSUME NEW q, \A k \in DOMAIN q : q[k] = s, About(base, s) => \E k \in DOMAIN q : q[k] = s
      PROVE  Responds(base, world, q, t)
  <2>1. v \in DOMAIN base.vol \cap DOMAIN world.vol => Has(q, "restore", v)
    BY <1>1, <1>4 DEF About, Has, Is
  <2>2. QED
    BY <1>3, <2>1 DEF Responds, Is
<1>5. Undoable(<<s>>, <<t>>)
  BY <1>1, <1>3, <1>4, OneUndoable
<1>6. QED
  BY <1>3, <1>5 DEF Recoverable

\* volumes.restore: the contents of before are restored.
LEMMA VolumeRestoreUndoable ==
  ASSUME world \in World, base \in World, NEW v \in Volume, NEW f \in File, VolumeRestore(v, f)
  PROVE  Recoverable
<1>1. PICK s : /\ VolumeInverse(v) = <<s>> /\ s \in Backs /\ Fresh(base, world, s)
               /\ s.on = v /\ s.do = IF v \in DOMAIN world.vol THEN "restore" ELSE "rm-volume"
  BY VolumeInverseIs
<1>2. PICK t : t = [Step("fill", v) EXCEPT !.files = [x \in {v} |-> {f}]]
  OBVIOUS
<1>3. Change(<<s>>, <<t>>) /\ (v \in Anonymous => v \in DOMAIN world.vol)
  BY <1>1, <1>2 DEF VolumeRestore
<1>4. t \in Doing /\ Is(t, "fill", v)
  <2>1. PICK g : g = [x \in {v} |-> {f}]
    OBVIOUS
  <2>2. g \in [{v} -> SUBSET File] /\ DOMAIN g = {v}
    BY <2>1
  <2>3. g \in Contents
    <3>1. DOMAIN g \subseteq Volume /\ g \in [DOMAIN g -> SUBSET File]
      BY <2>2
    <3>2. QED
      BY <3>1, PartialIs DEF Contents
  <2>4. t = [do |-> "fill", on |-> v, run |-> FALSE, files |-> g]
    BY <1>2, <2>1 DEF Step
  <2>5. QED
    BY <2>2, <2>3, <2>4 DEF Doing, Call, Is
<1>5. ASSUME NEW q, \A k \in DOMAIN q : q[k] = s, About(base, s) => \E k \in DOMAIN q : q[k] = s
      PROVE  Responds(base, world, q, t)
  <2>1. v \in DOMAIN base.vol \cap DOMAIN world.vol => Has(q, "restore", v)
    BY <1>1, <1>5 DEF About, Has, Is
  <2>2. QED
    BY <1>3, <1>4, <2>1 DEF Responds, Is
<1>6. Undoable(<<s>>, <<t>>)
  BY <1>1, <1>4, <1>5, OneUndoable
<1>7. QED
  BY <1>3, <1>6 DEF Recoverable

\* networks.create and rm.
LEMMA NetworkUndoable ==
  ASSUME world \in World, base \in World, NEW n \in Network, CreateNetwork(n) \/ NetworkRm(n)
  PROVE  Recoverable
<1>1. PICK s, t : s = Step("add-network", n) /\ t = Step("rm-network", n)
  OBVIOUS
<1>2. s \in Doing /\ s \in Backs /\ t \in Doing /\ Is(s, "add-network", n) /\ Is(t, "rm-network", n)
  BY <1>1, StepIs DEF Doing, Backs, Is
<1>3. CASE CreateNetwork(n)
  <2>1. Change(<< >>, <<s>>)
    BY <1>1, <1>3 DEF CreateNetwork
  <2>2. Responds(base, world, << >>, s)
    BY <1>2 DEF Responds, Is
  <2>3. <<s>> \in Seq(Doing) /\ DOMAIN <<s>> = {1} /\ <<s>>[1] = s
    BY <1>2
  <2>4. Orderly(<<s>>)
    BY <2>3 DEF Orderly
  <2>5. Undoable(<< >>, <<s>>)
    BY <2>2, <2>3, <2>4, NoneUndoable
  <2>6. QED
    BY <2>1, <2>5 DEF Recoverable
<1>4. CASE NetworkRm(n)
  <2>1. Change(<<s>>, <<t>>)
    BY <1>1, <1>4 DEF NetworkRm
  <2>2. Fresh(base, world, s)
    BY <1>2 DEF Fresh, Is
  <2>3. ASSUME NEW q, \A k \in DOMAIN q : q[k] = s, About(base, s) => \E k \in DOMAIN q : q[k] = s
        PROVE  Responds(base, world, q, t)
    <3>1. \A k \in DOMAIN q : q[k].do # "recreate"
      BY <1>2, <2>3 DEF Is
    <3>2. n \in base.net => \E k \in DOMAIN q : Is(q[k], "add-network", n)
      BY <1>2, <2>3 DEF About, Is
    <3>3. QED
      BY <1>2, <3>1, <3>2 DEF Responds, Is
  <2>4. Undoable(<<s>>, <<t>>)
    BY <1>2, <2>2, <2>3, OneUndoable
  <2>5. QED
    BY <2>1, <2>4 DEF Recoverable
<1>5. QED
  BY <1>3, <1>4

\* The volumes that a stack.down saves.
LEMMA SavesIs ==
  ASSUME world \in World, NEW S, S \subseteq DOMAIN world.vol
  PROVE  LET vs == SetToSeq(S)
             V == [i \in DOMAIN vs |-> SaveVolume(vs[i])]
         IN  /\ V \in Seq(Backs)
             /\ \A j \in DOMAIN V : V[j].do = "restore" /\ Fresh(base, world, V[j])
             /\ \A v \in S : Has(V, "restore", v)
<1>1. PICK vs : vs = SetToSeq(S)
  OBVIOUS
<1>2. IsFiniteSet(S)
  <2>1. world.vol \in Partial(Volume, SUBSET File)
    BY WorldIs DEF Machine, Contents
  <2>2. S \subseteq Volume
    BY <2>1, PartialIs
  <2>3. QED
    BY <2>2, FS_Subset, SessionAssumption
<1>3. vs \in Seq(S) /\ \A x \in S : \E i \in DOMAIN vs : vs[i] = x
  BY <1>1, <1>2, SetToSeqCovers
<1>4. PICK n \in Nat : DOMAIN vs = 1..n /\ \A i \in 1..n : vs[i] \in S
  BY <1>3, LenProperties, ElementOfSeq
<1>5. PICK V : V = [i \in 1..n |-> SaveVolume(vs[i])]
  OBVIOUS
<1>6. \A i \in 1..n : /\ SaveVolume(vs[i]) \in Backs /\ Is(SaveVolume(vs[i]), "restore", vs[i])
                      /\ Fresh(base, world, SaveVolume(vs[i]))
  BY <1>4, SaveVolumeIs
<1>7. V \in Seq(Backs) /\ DOMAIN V = 1..n
  BY <1>5, <1>6
<1>8. \A j \in 1..n : V[j].do = "restore" /\ Fresh(base, world, V[j])
  BY <1>5, <1>6 DEF Is
<1>9. \A v \in S : Has(V, "restore", v)
  BY <1>3, <1>4, <1>5, <1>6, <1>7 DEF Has
<1>10. QED
  BY <1>1, <1>4, <1>5, <1>7, <1>8, <1>9

\* The containers that it brings back.
LEMMA RecreationsIs ==
  ASSUME world \in World, base \in World, NEW S, S \subseteq DOMAIN world.ctr, S \cap Anon = {}
  PROVE  LET cs == SetToSeq(S)
             C == [i \in DOMAIN cs |-> Recreate(cs[i], FALSE)]
         IN  /\ C \in Seq(Backs)
             /\ \A j \in DOMAIN C : C[j].do = "recreate" /\ (About(base, C[j]) => Fresh(base, world, C[j]))
             /\ \A c \in S : Has(C, "recreate", c)
<1>1. PICK cs : cs = SetToSeq(S)
  OBVIOUS
<1>2. IsFiniteSet(S)
  <2>1. world.ctr \in Partial(Container, BOOLEAN)
    BY WorldIs DEF Machine
  <2>2. S \subseteq Container
    BY <2>1, PartialIs
  <2>3. QED
    BY <2>2, FS_Subset, SessionAssumption
<1>3. cs \in Seq(S) /\ \A x \in S : \E i \in DOMAIN cs : cs[i] = x
  BY <1>1, <1>2, SetToSeqCovers
<1>4. PICK n \in Nat : DOMAIN cs = 1..n /\ \A i \in 1..n : cs[i] \in S
  BY <1>3, LenProperties, ElementOfSeq
<1>5. PICK C : C = [i \in 1..n |-> Recreate(cs[i], FALSE)]
  OBVIOUS
<1>6. ASSUME NEW c \in S
      PROVE  /\ Recreate(c, FALSE) \in Backs /\ Is(Recreate(c, FALSE), "recreate", c)
             /\ About(base, Recreate(c, FALSE)) => Fresh(base, world, Recreate(c, FALSE))
  BY RecreateIs
<1>7. C \in Seq(Backs) /\ DOMAIN C = 1..n
  <2> DEFINE G(i) == Recreate(cs[i], FALSE)
  <2>1. \A i \in 1..n : G(i) \in Backs
    BY <1>4, <1>6
  <2>2. C = [i \in 1..n |-> G(i)]
    BY <1>5
  <2> HIDE DEF G
  <2>3. QED
    BY <2>1, <2>2
<1>8. \A j \in 1..n : C[j].do = "recreate" /\ (About(base, C[j]) => Fresh(base, world, C[j]))
  BY <1>4, <1>5, <1>6 DEF Is
<1>9. \A c \in S : Has(C, "recreate", c)
  BY <1>3, <1>4, <1>5, <1>6, <1>7 DEF Has
<1>10. QED
  BY <1>1, <1>4, <1>5, <1>7, <1>8, <1>9

\* The parts of a stack.down: its inverses in order, and its calls.
DownUndo(u, N, V, C, services, vols) ==
  /\ u = (N \o V) \o C /\ {N, V, C} \subseteq Seq(Backs)
  /\ \A j \in DOMAIN N : N[j].do = "add-network" /\ Fresh(base, world, N[j])
  /\ \A j \in DOMAIN V : V[j].do = "restore" /\ Fresh(base, world, V[j])
  /\ \A j \in DOMAIN C : C[j].do = "recreate" /\ (About(base, C[j]) => Fresh(base, world, C[j]))
  /\ services = Stack => \A n \in StackNets \cap world.net : Has(N, "add-network", n)
  /\ services = Stack /\ vols => \A v \in StackVols \cap DOMAIN world.vol : Has(V, "restore", v)
  /\ \A c \in services \cap DOMAIN world.ctr : Has(C, "recreate", c)

DownCall(s, services, vols) ==
  \/ s.do = "remove" /\ s.on \in services \cap DOMAIN world.ctr
  \/ s.do = "rm-network" /\ services = Stack /\ s.on \in StackNets \cap world.net
  \/ s.do = "rm-volume" /\ services = Stack /\ vols /\ s.on \in StackVols \cap DOMAIN world.vol

\* DownInverse has these parts.
LEMMA DownInverseIs ==
  ASSUME world \in World, base \in World, NEW services \in SUBSET Stack, NEW vols \in BOOLEAN
  PROVE  \E N, V, C : DownUndo(DownInverse(services, vols), N, V, C, services, vols)
<1>1. PICK cs, vs : cs = SetToSeq(Stack \cap DOMAIN world.ctr) /\ vs = SetToSeq(StackVols \cap DOMAIN world.vol)
  OBVIOUS
<1>2. PICK N0, V0, C : /\ N0 = Steps("add-network", StackNets \cap world.net)
                       /\ V0 = [i \in DOMAIN vs |-> SaveVolume(vs[i])]
                       /\ C = [i \in DOMAIN cs |-> Recreate(cs[i], FALSE)]
  OBVIOUS
<1>3. PICK N, V : N = (IF services = Stack THEN N0 ELSE << >>) /\ V = IF services = Stack /\ vols THEN V0 ELSE << >>
  OBVIOUS
<1>4. DownInverse(services, vols) = (N \o V) \o C
  BY <1>1, <1>2, <1>3 DEF DownInverse
<1>5. /\ N0 \in Seq(Backs) /\ \A j \in DOMAIN N0 : N0[j].do = "add-network"
      /\ \A n \in StackNets \cap world.net : Has(N0, "add-network", n)
  <2>1. PICK S : S = StackNets \cap world.net
    OBVIOUS
  <2>2. IsFiniteSet(S) /\ S \subseteq Network
    BY <2>1, FS_Subset, SessionAssumption
  <2>3. \A x \in S : Step("add-network", x) \in Backs
    BY <2>2, StepIs DEF Backs
  <2>4. N0 \in Seq(Backs) /\ Enumerates(N0, "add-network", S)
    BY <1>2, <2>1, <2>2, <2>3, StepsCover
  <2>5. QED
    BY <2>1, <2>4, StepIs DEF Has, Enumerates, Is
<1>6. /\ V0 \in Seq(Backs)
      /\ \A j \in DOMAIN V0 : V0[j].do = "restore" /\ Fresh(base, world, V0[j])
      /\ \A v \in StackVols \cap DOMAIN world.vol : Has(V0, "restore", v)
  BY <1>1, <1>2, SavesIs
<1>7. /\ C \in Seq(Backs)
      /\ \A j \in DOMAIN C : C[j].do = "recreate" /\ (About(base, C[j]) => Fresh(base, world, C[j]))
      /\ \A c \in services \cap DOMAIN world.ctr : Has(C, "recreate", c)
  <2>1. PICK S : S = Stack \cap DOMAIN world.ctr
    OBVIOUS
  <2>2. S \cap Anon = {} /\ S \subseteq DOMAIN world.ctr /\ services \cap DOMAIN world.ctr \subseteq S
    BY <2>1, SessionAssumption
  <2>3. /\ C \in Seq(Backs)
        /\ \A j \in DOMAIN C : C[j].do = "recreate" /\ (About(base, C[j]) => Fresh(base, world, C[j]))
        /\ \A c \in S : Has(C, "recreate", c)
    BY <1>1, <1>2, <2>1, <2>2, RecreationsIs
  <2>4. QED
    BY <2>2, <2>3
<1>8. {N, V, C} \subseteq Seq(Backs)
  BY <1>3, <1>5, <1>6, <1>7
<1>9. \A j \in DOMAIN N : N[j].do = "add-network" /\ Fresh(base, world, N[j])
  BY <1>3, <1>5 DEF Fresh
<1>10. \A j \in DOMAIN V : V[j].do = "restore" /\ Fresh(base, world, V[j])
  BY <1>3, <1>6
<1>11. services = Stack => \A n \in StackNets \cap world.net : Has(N, "add-network", n)
  BY <1>3, <1>5
<1>12. services = Stack /\ vols => \A v \in StackVols \cap DOMAIN world.vol : Has(V, "restore", v)
  BY <1>3, <1>6
<1>13. DownUndo((N \o V) \o C, N, V, C, services, vols)
  BY <1>7, <1>8, <1>9, <1>10, <1>11, <1>12 DEF DownUndo
<1>14. QED
  BY <1>4, <1>13

\* The inverses take back each call of a stack.down.
LEMMA DownAnswers ==
  ASSUME NEW u, NEW N, NEW V, NEW C, NEW services, NEW vols, DownUndo(u, N, V, C, services, vols),
         NEW s, DownCall(s, services, vols), services \cap Anon = {}
  PROVE  Responds(base, world, KeptOf(base, u), s)
<1>1. /\ u = (N \o V) \o C
      /\ \A j \in DOMAIN N : N[j].do = "add-network" /\ Fresh(base, world, N[j])
      /\ \A j \in DOMAIN V : V[j].do = "restore" /\ Fresh(base, world, V[j])
      /\ \A j \in DOMAIN C : C[j].do = "recreate" /\ (About(base, C[j]) => Fresh(base, world, C[j]))
  BY DEF DownUndo
<1>2. N \in Seq(Backs) /\ V \in Seq(Backs) /\ C \in Seq(Backs)
  BY DEF DownUndo
<1>3. PICK M : M = N \o V
  OBVIOUS
<1>4. M \in Seq(Backs) /\ Joint(N, V, M, Len(N))
  BY <1>2, <1>3, JointIs
<1>5. PICK m, c : m = KeptOf(base, M) /\ c = KeptOf(base, C)
  OBVIOUS
<1>6. KeptOf(base, u) = m \o c
  BY <1>1, <1>2, <1>3, <1>4, <1>5, KeptConcat
<1>7. /\ m \in Seq(Undoes(base))
      /\ \A k \in DOMAIN m : \E i \in DOMAIN M : M[i] = m[k]
      /\ \A i \in DOMAIN M : About(base, M[i]) => \E k \in DOMAIN m : m[k] = M[i]
  BY <1>4, <1>5, KeptFacts
<1>8. /\ c \in Seq(Undoes(base))
      /\ \A i \in DOMAIN C : About(base, C[i]) => \E k \in DOMAIN c : c[k] = C[i]
  BY <1>2, <1>5, KeptFacts
<1>9. PICK q : q = m \o c
  OBVIOUS
<1>10. Joint(m, c, q, Len(m))
  BY <1>7, <1>8, <1>9, JointIs
<1>11. \A i \in DOMAIN M : M[i].do # "recreate"
  BY <1>1, <1>4 DEF Joint
<1>12. CASE s.do = "remove" /\ s.on \in services \cap DOMAIN world.ctr
  <2>1. PICK i \in DOMAIN C : Is(C[i], "recreate", s.on)
    BY <1>12 DEF DownUndo, Has
  <2>2. s.on \in DOMAIN base.ctr => Has(q, "recreate", s.on)
    <3> SUFFICES ASSUME s.on \in DOMAIN base.ctr PROVE Has(q, "recreate", s.on)
      OBVIOUS
    <3>1. About(base, C[i])
      BY <2>1 DEF About, Is
    <3>2. PICK k \in DOMAIN c : c[k] = C[i]
      BY <1>8, <3>1
    <3>3. QED
      BY <1>10, <2>1, <3>2 DEF Joint, Has
  <2>3. s.on \notin Anon
    BY <1>12
  <2>4. QED
    BY <1>6, <1>9, <1>12, <2>2, <2>3 DEF Responds
<1>13. CASE s.do = "rm-network" /\ services = Stack /\ s.on \in StackNets \cap world.net
  <2>1. PICK i \in DOMAIN N : Is(N[i], "add-network", s.on)
    BY <1>13 DEF DownUndo, Has
  <2>2. i \in DOMAIN M /\ M[i] = N[i]
    BY <1>4 DEF Joint
  <2> SUFFICES ASSUME s.on \in base.net
               PROVE  \E k \in DOMAIN q : Is(q[k], "add-network", s.on) /\ \A j \in DOMAIN q : q[j].do = "recreate" => k < j
    BY <1>6, <1>9, <1>13 DEF Responds
  <2>3. About(base, M[i])
    BY <2>1, <2>2 DEF About, Is
  <2>4. PICK k \in DOMAIN m : m[k] = M[i]
    BY <1>7, <2>2, <2>3
  <2>5. k \in DOMAIN q /\ Is(q[k], "add-network", s.on)
    BY <1>10, <2>1, <2>2, <2>4 DEF Joint
  <2>6. ASSUME NEW j \in DOMAIN q, q[j].do = "recreate" PROVE k < j
    <3>1. j \notin DOMAIN m
      BY <1>7, <1>10, <1>11, <2>6 DEF Joint
    <3>2. QED
      BY <1>10, <3>1 DEF Joint
  <2>7. QED
    BY <2>5, <2>6
<1>14. CASE s.do = "rm-volume" /\ services = Stack /\ vols /\ s.on \in StackVols \cap DOMAIN world.vol
  <2>1. PICK i \in DOMAIN V : Is(V[i], "restore", s.on)
    BY <1>14 DEF DownUndo, Has
  <2>2. Len(N) + i \in DOMAIN M /\ M[Len(N) + i] = V[i]
    BY <1>4 DEF Joint
  <2>3. s.on \in DOMAIN base.vol => Has(q, "restore", s.on)
    <3> SUFFICES ASSUME s.on \in DOMAIN base.vol PROVE Has(q, "restore", s.on)
      OBVIOUS
    <3>1. About(base, V[i])
      BY <2>1 DEF About, Is
    <3>2. PICK k \in DOMAIN m : m[k] = V[i]
      BY <1>7, <2>2, <3>1
    <3>3. QED
      BY <1>10, <2>1, <3>2 DEF Joint, Has
  <2>4. QED
    BY <1>6, <1>9, <1>14, <2>3 DEF Responds
<1>15. QED
  BY <1>12, <1>13, <1>14 DEF DownCall

\* It makes no other calls.
LEMMA DownCallsIs ==
  ASSUME world \in World, NEW services \in SUBSET Stack, NEW vols \in BOOLEAN, NEW calls,
         calls = (Steps("remove", services \cap DOMAIN world.ctr)
                  \o (IF services = Stack THEN Steps("rm-network", StackNets \cap world.net) ELSE << >>))
                 \o (IF services = Stack /\ vols THEN Steps("rm-volume", StackVols \cap DOMAIN world.vol) ELSE << >>)
  PROVE  /\ calls \in Seq(Doing)
         /\ \A k \in DOMAIN calls : DownCall(calls[k], services, vols)
<1> DEFINE T == {s \in Doing : DownCall(s, services, vols)}
<1>1. PICK A, B, D : /\ A = services \cap DOMAIN world.ctr
                     /\ B = StackNets \cap world.net
                     /\ D = StackVols \cap DOMAIN world.vol
  OBVIOUS
<1>2. /\ IsFiniteSet(A) /\ IsFiniteSet(B) /\ IsFiniteSet(D)
      /\ A \subseteq Container /\ B \subseteq Network /\ D \subseteq Volume
  <2>1. A \subseteq Container /\ B \subseteq Network /\ D \subseteq Volume
    BY <1>1, SessionAssumption
  <2>2. QED
    BY <2>1, FS_Subset, SessionAssumption
<1>3. \A x \in A : Step("remove", x) \in T
  BY <1>1, <1>2, StepIs DEF Doing, DownCall, Is
<1>4. services = Stack => \A x \in B : Step("rm-network", x) \in T
  BY <1>1, <1>2, StepIs DEF Doing, DownCall, Is
<1>5. services = Stack /\ vols => \A x \in D : Step("rm-volume", x) \in T
  BY <1>1, <1>2, StepIs DEF Doing, DownCall, Is
<1> HIDE DEF T
<1>6. PICK a, n, v : /\ a = Steps("remove", A)
                     /\ n = (IF services = Stack THEN Steps("rm-network", B) ELSE << >>)
                     /\ v = IF services = Stack /\ vols THEN Steps("rm-volume", D) ELSE << >>
  OBVIOUS
<1>7. a \in Seq(T)
  BY <1>2, <1>3, <1>6, StepsCover
<1>8. n \in Seq(T)
  <2>1. CASE services = Stack
    BY <1>2, <1>4, <1>6, <2>1, StepsCover
  <2>2. CASE services # Stack
    BY <1>6, <2>2
  <2>3. QED
    BY <2>1, <2>2
<1>9. v \in Seq(T)
  <2>1. CASE services = Stack /\ vols
    BY <1>2, <1>5, <1>6, <2>1, StepsCover
  <2>2. CASE ~(services = Stack /\ vols)
    BY <1>6, <2>2
  <2>3. QED
    BY <2>1, <2>2
<1>10. calls = (a \o n) \o v
  BY <1>1, <1>6
<1>11. a \o n \in Seq(T)
  BY <1>7, <1>8, ConcatProperties
<1>12. calls \in Seq(T)
  BY <1>9, <1>10, <1>11, ConcatProperties
<1>13. \A k \in DOMAIN calls : calls[k] \in T
  BY <1>12, LenProperties, ElementOfSeq
<1>14. Each(calls, Doing) /\ \A k \in DOMAIN calls : DownCall(calls[k], services, vols)
  BY <1>12, <1>13, LenProperties DEF T, Each
<1>15. QED
  BY <1>12, <1>14, SeqRefine

\* stack.down: networks come back before the containers on them.
LEMMA StackDownUndoable ==
  ASSUME world \in World, base \in World, NEW services \in SUBSET Stack, NEW vols \in BOOLEAN, StackDown(services, vols)
  PROVE  Recoverable
<1>1. PICK u, calls :
        /\ u = DownInverse(services, vols)
        /\ calls = (Steps("remove", services \cap DOMAIN world.ctr)
                    \o (IF services = Stack THEN Steps("rm-network", StackNets \cap world.net) ELSE << >>))
                   \o (IF services = Stack /\ vols THEN Steps("rm-volume", StackVols \cap DOMAIN world.vol) ELSE << >>)
  OBVIOUS
<1>2. Change(u, calls)
  BY <1>1 DEF StackDown
<1>3. PICK N, V, C : DownUndo(u, N, V, C, services, vols)
  BY <1>1, DownInverseIs
<1>4. calls \in Seq(Doing) /\ \A k \in DOMAIN calls : DownCall(calls[k], services, vols)
  BY <1>1, DownCallsIs
<1>5. services \cap Anon = {}
  BY SessionAssumption
<1>6. \A k \in DOMAIN calls : Responds(base, world, KeptOf(base, u), calls[k])
  BY <1>3, <1>4, <1>5, DownAnswers
<1>7. Orderly(calls)
  BY <1>4 DEF DownCall, Orderly
<1>8. u \in Seq(Backs) /\ \A j \in DOMAIN u : About(base, u[j]) => Fresh(base, world, u[j])
  <2>1. N \in Seq(Backs) /\ V \in Seq(Backs) /\ C \in Seq(Backs) /\ u = (N \o V) \o C
    BY <1>3 DEF DownUndo
  <2>2. PICK M : M = N \o V
    OBVIOUS
  <2>3. M \in Seq(Backs) /\ Joint(N, V, M, Len(N))
    BY <2>1, <2>2, JointIs
  <2>4. u \in Seq(Backs) /\ Joint(M, C, u, Len(M))
    BY <2>1, <2>2, <2>3, JointIs
  <2>5. \A j \in DOMAIN M : Fresh(base, world, M[j])
    BY <1>3, <2>3 DEF Joint, DownUndo
  <2>6. \A j \in DOMAIN u : About(base, u[j]) => Fresh(base, world, u[j])
    BY <1>3, <2>4, <2>5 DEF Joint, DownUndo
  <2>7. QED
    BY <2>4, <2>6
<1>9. QED
  BY <1>2, <1>4, <1>6, <1>7, <1>8 DEF Undoable, Recoverable

----------------------------------------------------------------------------
(* The steps that change nothing on the machine.                           *)

\* What a step of the specification does to the failures that can be told.
LEMMA Told ==
  ASSUME SessionTyped, Sound', active, faults' >= faults, failed => failed',
         \A i \in DOMAIN journal : journal[i].lost => \E k \in DOMAIN journal' : journal'[k].lost
  PROVE  Sound
<1>1. faults \in Nat
  BY DEF SessionTyped
<1>2. faults' = 0 => faults = 0
  BY <1>1
<1>3. Reported => Reported'
  BY DEF Reported
<1>4. QED
  BY <1>2, <1>3 DEF Sound

\* The journal with its new entry.
LEMMA EntryIs ==
  ASSUME SessionTyped, NEW u, NEW calls, u \in Seq(Backs), NEW lost \in BOOLEAN, NEW e,
         e = [undo |-> IF lost THEN << >> ELSE u, lost |-> lost, done |-> FALSE]
  PROVE  /\ e \in Entry /\ Append(journal, e) \in Seq(Entry)
         /\ \A i \in DOMAIN journal : i \in DOMAIN Append(journal, e) /\ Append(journal, e)[i] = journal[i]
         /\ \E i \in DOMAIN Append(journal, e) : Append(journal, e)[i] = e
<1>1. << >> \in Seq(Backs)
  OBVIOUS
<1>2. e \in Entry
  BY <1>1 DEF Entry
<1>3. PICK jl : jl = journal /\ jl \in Seq(Entry)
  BY DEF SessionTyped
<1>4. PICK n \in Nat : n = Len(jl) /\ DOMAIN jl = 1..n
  BY <1>3, LenProperties
<1>5. PICK kl : kl = Append(jl, e)
  OBVIOUS
<1>6. kl \in Seq(Entry) /\ Len(kl) = n + 1 /\ kl[n + 1] = e /\ \A i \in 1..n : kl[i] = jl[i]
  BY <1>2, <1>3, <1>4, <1>5, AppendProperties
<1>7. DOMAIN kl = 1..(n + 1)
  BY <1>6, LenProperties
<1>8. QED
  BY <1>2, <1>3, <1>4, <1>5, <1>6, <1>7

\* A change is recorded before it is made.
LEMMA ChangeKeeps ==
  ASSUME SessionInv, NEW u, NEW calls, Undoable(u, calls), Change(u, calls)
  PROVE  SessionInv'
<1>1. SessionTyped /\ (Sound => Recorded)
  BY DEF SessionInv
<1>2. /\ u \in Seq(Backs) /\ calls \in Seq(Doing) /\ Orderly(calls)
      /\ \A j \in DOMAIN u : About(base, u[j]) => Fresh(base, world, u[j])
      /\ \A k \in DOMAIN calls : Responds(base, world, KeptOf(base, u), calls[k])
  BY DEF Undoable
<1>3. /\ cmd = "idle" /\ cmd' = "op" /\ todo' = calls /\ rolled' = FALSE
      /\ UNCHANGED <<world, base, active, failed, cut>>
  BY DEF Change, Command
<1>4. PICK lost \in BOOLEAN :
        /\ faults' = IF lost THEN faults + 1 ELSE faults
        /\ journal' = IF active
                      THEN Append(journal, [undo |-> IF lost THEN << >> ELSE u, lost |-> lost, done |-> FALSE])
                      ELSE journal
  BY DEF Change
<1>5. PICK e : e = [undo |-> IF lost THEN << >> ELSE u, lost |-> lost, done |-> FALSE]
  OBVIOUS
<1>6. /\ e \in Entry /\ Append(journal, e) \in Seq(Entry)
      /\ \A i \in DOMAIN journal : i \in DOMAIN Append(journal, e) /\ Append(journal, e)[i] = journal[i]
      /\ \E i \in DOMAIN Append(journal, e) : Append(journal, e)[i] = e
  BY <1>1, <1>2, <1>5, EntryIs
<1>7. journal' = IF active THEN Append(journal, e) ELSE journal
  BY <1>4, <1>5
<1>8. SessionTyped'
  <2>1. journal' \in Seq(Entry)
    BY <1>1, <1>6, <1>7 DEF SessionTyped
  <2>2. faults' \in Nat
    BY <1>1, <1>4 DEF SessionTyped
  <2>3. /\ world' \in World /\ base' \in World /\ active' \in BOOLEAN /\ failed' \in BOOLEAN /\ rolled' \in BOOLEAN
    BY <1>1, <1>3 DEF SessionTyped
  <2>4. cmd' = "op" /\ todo' \in Seq(Doing) /\ Orderly(todo')
    BY <1>2, <1>3
  <2>5. QED
    BY <2>1, <2>2, <2>3, <2>4 DEF SessionTyped
<1>9. ASSUME Sound' PROVE Sound /\ ~lost /\ active
  <2>1. active
    BY <1>3, <1>9 DEF Sound
  <2>2. journal' = Append(journal, e)
    BY <1>7, <2>1
  <2>3. lost => Reported' /\ faults' # 0
    <3>1. faults \in Nat
      BY <1>1 DEF SessionTyped
    <3>2. lost => faults' # 0
      BY <1>4, <3>1
    <3>3. lost => e.lost
      BY <1>5
    <3>4. QED
      BY <1>6, <2>2, <3>2, <3>3 DEF Reported
  <2>4. ~lost
    BY <1>9, <2>3 DEF Sound
  <2>5. Sound
    <3>1. faults' >= faults
      BY <1>1, <1>4 DEF SessionTyped
    <3>2. \A i \in DOMAIN journal : journal[i].lost => \E k \in DOMAIN journal' : journal'[k].lost
      BY <1>6, <2>2
    <3>3. QED
      BY <1>1, <1>3, <1>9, <2>1, <3>1, <3>2, Told
  <2>6. QED
    BY <2>1, <2>4, <2>5
<1>10. ASSUME Sound' PROVE Recorded' /\ Ahead'
  <2>1. Sound /\ ~lost /\ active
    BY <1>9, <1>10
  <2>2. PICK p, q, r : p = InversesOf(base, journal) /\ q = KeptOf(base, u) /\ r = q \o p
    OBVIOUS
  <2>3. p \in Seq(Undoes(base)) /\ q \in Seq(Undoes(base))
    BY <1>1, <1>2, <2>2, InversesType, KeptFacts DEF SessionTyped
  <2>4. r \in Seq(Undoes(base)) /\ Joint(q, p, r, Len(q))
    BY <2>2, <2>3, JointIs
  <2>5. InversesOf(base, journal') = r
    <3>1. UndoingOf(base, e) = q
      BY <1>5, <2>1, <2>2 DEF UndoingOf
    <3>2. journal \in Seq(Entry)
      BY <1>1 DEF SessionTyped
    <3>3. InversesOf(base, Append(journal, e)) = UndoingOf(base, e) \o InversesOf(base, journal)
      BY <1>6, <3>2, InversesAppend
    <3>4. QED
      BY <1>7, <2>1, <2>2, <3>1, <3>3
  <2>6. \A i \in DOMAIN q : Fresh(base, world, q[i])
    <3>1. \A k \in DOMAIN q : \E i \in DOMAIN u : u[i] = q[k]
      BY <1>2, <2>2, KeptFacts
    <3>2. \A k \in DOMAIN q : About(base, q[k])
      <4>1. \A k \in DOMAIN q : q[k] \in Undoes(base)
        BY <2>3, LenProperties, ElementOfSeq
      <4>2. QED
        BY <4>1 DEF Undoes
    <3>3. QED
      BY <1>2, <3>1, <3>2
  <2>7. Widens(base, world, p, r, Len(q))
    BY <2>4, <2>6 DEF Joint, Widens
  <2>8. \A i \in DOMAIN r : r[i] \in Backward(base)
    <3>1. \A i \in DOMAIN r : r[i] \in Undoes(base)
      BY <2>4, LenProperties, ElementOfSeq
    <3>2. QED
      BY <3>1 DEF Backward
  <2>9. Booting = {} /\ Booting' = {}
    BY <1>3 DEF Booting
  <2>10. Restores(base, world, p, cut) /\ Running(base, world, p, cut)
    BY <1>1, <2>1, <2>2, <2>9 DEF Recorded
  <2>11. base \in World /\ world \in World
    BY <1>1 DEF SessionTyped
  <2>12. Restores(base, world, r, cut) /\ Running(base, world, r, cut)
    BY <2>7, <2>8, <2>10, <2>11, WidenedRestores
  <2>13. Recorded'
    BY <1>3, <2>5, <2>9, <2>12 DEF Recorded
  <2>14. Ahead'
    <3> SUFFICES ASSUME NEW k \in DOMAIN calls PROVE Covered(base, world, r, calls[k])
      BY <1>3, <2>5 DEF Ahead
    <3>1. calls[k] \in Doing
      BY <1>2, LenProperties, ElementOfSeq
    <3>2. Responds(base, world, q, calls[k])
      BY <1>2, <2>2
    <3>3. Filled(base, world, p)
      BY <2>10 DEF Restores
    <3>4. QED
      BY <2>4, <2>11, <3>1, <3>2, <3>3, Answered
  <2>15. QED
    BY <2>13, <2>14
<1>11. QED
  BY <1>3, <1>8, <1>10 DEF SessionInv

----------------------------------------------------------------------------
(* A call of a change.                                                     *)

\* A call that is covered leaves containers and networks that come back, and
\* run states.
LEMMA CallPresent ==
  ASSUME NEW b \in World, NEW w \in World, NEW p, NEW E, NEW F, NEW s \in Doing, NEW v \in World,
         Does(w, s, v), Accepts(w, s), Restores(b, w, p, E), Running(b, w, p, F), Covered(b, w, p, s),
         \A j \in DOMAIN p : p[j] \in Backward(b)
  PROVE  Present(b, v, p) /\ Joinable(v, p) /\ Networked(b, v, p) /\ Running(b, v, p, F)
<1>1. Present(b, w, p) /\ Joinable(w, p) /\ Networked(b, w, p) /\ Housed(b)
  BY WorldIs DEF Restores
<1>2. s.do \in {"create", "start", "stop", "remove", "remove-v", "fill", "rm-volume", "add-network", "rm-network"}
  BY DEF Doing
<1>3. \A c \in DOMAIN w.ctr : c \in DOMAIN v.ctr \/ (s.do \in {"remove", "remove-v"} /\ s.on = c)
  BY <1>2 DEF Does, IsPut, IsCut
<1>4. \A c \in DOMAIN v.ctr : c \in DOMAIN w.ctr \/ Is(s, "create", c)
  <2>1. s.do \in {"start", "stop"} => s.on \in DOMAIN w.ctr
    BY DEF Accepts
  <2>2. QED
    BY <1>2, <2>1 DEF Does, IsPut, IsCut, Is
<1>5. \A c \in DOMAIN v.ctr \cap DOMAIN w.ctr :
        v.ctr[c] = w.ctr[c] \/ (s.do \in {"create", "start", "stop"} /\ s.on = c)
  BY <1>2 DEF Does, IsPut, IsCut
<1>6. \A n \in w.net : n \in v.net \/ Is(s, "rm-network", n)
  BY <1>2 DEF Does, Is
<1>7. Present(b, v, p)
  <2> SUFFICES ASSUME NEW c \in DOMAIN b.ctr PROVE c \in DOMAIN v.ctr \/ Has(p, "recreate", c)
    BY DEF Present
  <2>1. s.do \in {"remove", "remove-v"} /\ s.on = c => Has(p, "recreate", c)
    BY DEF Covered, Has
  <2>2. QED
    BY <1>1, <1>3, <2>1 DEF Present
<1>8. Joinable(v, p)
  <2> SUFFICES ASSUME NEW j \in DOMAIN p, p[j].do = "recreate"
               PROVE  NetOf[p[j].on] \in v.net \/ Before(p, j, "add-network", NetOf[p[j].on])
    BY DEF Joinable
  <2>1. PICK n : n = NetOf[p[j].on]
    OBVIOUS
  <2>2. n \in b.net
    <3>1. p[j].on \in DOMAIN b.ctr
      BY BackwardIs
    <3>2. QED
      BY <1>1, <2>1, <3>1 DEF Housed
  <2>3. Is(s, "rm-network", n) => Before(p, j, "add-network", n)
    BY <2>1, <2>2 DEF Covered, Before, Is
  <2>4. QED
    BY <1>1, <1>6, <2>1, <2>3 DEF Joinable
<1>9. Networked(b, v, p)
  <2> SUFFICES ASSUME NEW n \in b.net PROVE n \in v.net \/ Has(p, "add-network", n)
    BY DEF Networked
  <2>1. Is(s, "rm-network", n) => Has(p, "add-network", n)
    BY DEF Covered, Has, Is
  <2>2. QED
    BY <1>1, <1>6, <2>1 DEF Networked
<1>10. Running(b, v, p, F)
  <2> SUFFICES ASSUME NEW c \in DOMAIN b.ctr \ F, c \in DOMAIN v.ctr, ~SetsRun(p, c) PROVE v.ctr[c] = b.ctr[c]
    BY DEF Running
  <2>1. ~(s.do \in {"create", "start", "stop"} /\ s.on = c)
    BY DEF Covered
  <2>2. c \in DOMAIN w.ctr
    BY <1>4, <2>1 DEF Is
  <2>3. QED
    BY <1>5, <2>1, <2>2 DEF Running
<1>11. QED
  BY <1>7, <1>8, <1>9, <1>10

\* And it leaves volumes that come back.
LEMMA CallFilled ==
  ASSUME NEW b \in World, NEW w \in World, NEW p, NEW E, NEW s \in Doing, NEW v \in World,
         Does(w, s, v), Accepts(w, s), Restores(b, w, p, E), Covered(b, w, p, s)
  PROVE  Filled(b, v, p) /\ Belongs(b, v, p)
<1>1. Filled(b, w, p) /\ Belongs(b, w, p) /\ Housed(b)
  BY WorldIs DEF Restores
<1>2. s.do \in {"create", "start", "stop", "remove", "remove-v", "fill", "rm-volume", "add-network", "rm-network"}
  BY DEF Doing
<1>3. \A x \in DOMAIN v.vol : x \in DOMAIN w.vol \/ Is(s, "fill", x) \/ (s.do = "create" /\ VolOf[s.on] = x)
  BY <1>2 DEF Does, IsPut, IsCut, Is
<1>4. \A x \in DOMAIN w.vol : \/ x \in DOMAIN v.vol \/ Is(s, "rm-volume", x)
                              \/ s.do = "remove-v" /\ s.on \in Anon /\ VolOf[s.on] = x
  BY <1>2 DEF Does, IsPut, IsCut, Is
<1>5. \A x \in DOMAIN w.vol \cap DOMAIN v.vol :
        v.vol[x] = w.vol[x] \/ (Is(s, "fill", x) /\ v.vol[x] = w.vol[x] \cup UNION Range(s.files))
  BY <1>2 DEF Does, IsPut, IsCut, Files, Is
<1>6. DOMAIN b.ctr \subseteq Container
  BY WorldIs, PartialIs DEF Machine
<1>7. s.do \in {"create", "start", "stop", "remove", "remove-v"} => s.on \in Container
  BY CallIs DEF Doing, OnContainer
<1>8. \A x \in DOMAIN b.vol : Is(s, "rm-volume", x) => Has(p, "restore", x)
  BY DEF Covered, Is, Accepts
<1>9. ASSUME NEW x \in DOMAIN b.vol, ~Has(p, "restore", x)
      PROVE  \/ x \in DOMAIN v.vol /\ v.vol[x] = b.vol[x]
             \/ Owned(b, x) /\ x \notin DOMAIN v.vol
  <2>1. Is(s, "fill", x) => x \in DOMAIN w.vol /\ UNION Range(s.files) = {}
    BY <1>9, NoContents DEF Covered, Is
  <2>2. s.do = "create" /\ VolOf[s.on] = x => x \in DOMAIN w.vol
    BY <1>9 DEF Covered
  <2>3. CASE x \in DOMAIN w.vol
    <3>1. w.vol[x] = b.vol[x]
      BY <1>1, <1>9, <2>3 DEF Filled
    <3>2. CASE x \in DOMAIN v.vol
      BY <1>5, <2>1, <2>3, <3>1, <3>2
    <3>3. CASE x \notin DOMAIN v.vol
      <4>1. s.do = "remove-v" /\ s.on \in Anon /\ VolOf[s.on] = x
        BY <1>4, <1>8, <1>9, <2>3, <3>3
      <4>2. s.on \in DOMAIN w.ctr
        BY <4>1 DEF Accepts
      <4>3. s.on \in DOMAIN b.ctr
        BY <1>1, <1>9, <4>1, <4>2 DEF Belongs
      <4>4. QED
        BY <3>3, <4>1, <4>3 DEF Owned
    <3>4. QED
      BY <3>2, <3>3
  <2>4. CASE x \notin DOMAIN w.vol
    BY <1>1, <1>3, <1>9, <2>1, <2>2, <2>4 DEF Filled
  <2>5. QED
    BY <2>3, <2>4
<1>10. ASSUME NEW c \in Anon \cap DOMAIN b.ctr, c \notin DOMAIN v.ctr, c \in DOMAIN w.ctr
       PROVE  s.do = "remove-v" /\ s.on = c
  <2>1. s.do \in {"remove", "remove-v"} /\ s.on = c
    BY <1>2, <1>10 DEF Does, IsPut, IsCut
  <2>2. QED
    BY <2>1 DEF Covered
<1>11. ASSUME NEW c \in Anon \cap DOMAIN b.ctr, VolOf[c] \in DOMAIN v.vol PROVE c \in DOMAIN v.ctr
  <2>1. VolOf[c] \in DOMAIN w.vol
    <3>1. Is(s, "fill", VolOf[c]) => VolOf[c] \in DOMAIN w.vol
      BY DEF Covered, Is, Owned
    <3>2. ~(s.do = "create" /\ VolOf[s.on] = VolOf[c])
      <4> SUFFICES ASSUME s.do = "create", VolOf[s.on] = VolOf[c] PROVE FALSE
        OBVIOUS
      <4>1. s.on = c
        BY <1>7, SessionAssumption
      <4>2. QED
        BY <4>1 DEF Covered
    <3>3. QED
      BY <1>3, <1>11, <3>1, <3>2
  <2>2. c \in DOMAIN w.ctr
    BY <1>1, <2>1 DEF Belongs
  <2>3. ~(s.do = "remove-v" /\ s.on = c)
    BY <1>11 DEF Does, IsCut
  <2>4. QED
    BY <1>10, <2>2, <2>3
<1>12. ASSUME NEW c \in Anon \cap DOMAIN b.ctr, NEW j \in DOMAIN p, Is(p[j], "restore", VolOf[c])
       PROVE  c \in DOMAIN v.ctr \/ Before(p, j, "recreate", c)
  <2>1. CASE c \in DOMAIN w.ctr /\ c \notin DOMAIN v.ctr
    <3>1. s.do = "remove-v" /\ s.on = c
      BY <1>10, <2>1
    <3>2. QED
      BY <1>12, <3>1 DEF Covered, Before
  <2>2. QED
    BY <1>1, <1>12, <2>1 DEF Belongs
<1>13. ASSUME NEW d \in (Anon \cap DOMAIN v.ctr) \ DOMAIN b.ctr, VolOf[d] \in DOMAIN b.vol
       PROVE  Has(p, "restore", VolOf[d])
  <2>1. d \in DOMAIN w.ctr \/ Is(s, "create", d)
    <3>1. s.do \in {"start", "stop"} => s.on \in DOMAIN w.ctr
      BY DEF Accepts
    <3>2. QED
      BY <1>2, <3>1 DEF Does, IsPut, IsCut, Is
  <2>2. Is(s, "create", d) => Has(p, "restore", VolOf[d])
    BY <1>13 DEF Covered, Is
  <2>3. QED
    BY <1>1, <1>13, <2>1, <2>2 DEF Belongs
<1>14. QED
  BY <1>9, <1>11, <1>12, <1>13 DEF Filled, Belongs

\* What is covered stays so until it is its turn.
LEMMA CoveredStays ==
  ASSUME NEW b, NEW w, NEW p, NEW s \in Doing, NEW t \in Doing, NEW v, Does(w, s, v), Covered(b, w, p, t),
         t.do \in {"create", "fill"} => FALSE, s.do \in {"create", "fill"} => t.do = "start"
  PROVE  Covered(b, v, p, t)
<1>1. t.do # "create" /\ t.do # "fill"
  OBVIOUS
<1>2. t.do = "rm-volume" => \A x : x \notin DOMAIN w.vol => x \notin DOMAIN v.vol
  <2>1. s.do \in {"start", "stop", "remove", "remove-v", "rm-volume", "add-network", "rm-network", "create", "fill"}
    BY DEF Doing
  <2>2. t.do = "rm-volume" => s.do \notin {"create", "fill"}
    OBVIOUS
  <2>3. QED
    BY <2>1, <2>2 DEF Does, IsCut
<1>3. QED
  BY <1>1, <1>2 DEF Covered

\* What is left of a sequence after its first step.
LEMMA TailIs ==
  ASSUME NEW S, NEW s, s \in Seq(S), s # << >>
  PROVE  Tail(s) \in Seq(S) /\ Head(s) = s[1] /\ s[1] \in S /\ Follows(s, Tail(s), 0)
<1>1. PICK n \in Nat : n = Len(s) /\ DOMAIN s = 1..n /\ \A i \in 1..n : s[i] \in S
  BY LenProperties, ElementOfSeq
<1>2. n # 0
  BY <1>1, EmptySeq
<1>3. PICK t : t = Tail(s)
  OBVIOUS
<1>4. t \in Seq(S) /\ Len(t) = n - 1 /\ \A i \in 1..(n - 1) : t[i] = s[i + 1]
  BY <1>1, <1>2, <1>3
<1>5. n - 1 \in Nat
  BY <1>2
<1>6. DOMAIN t = 1..(n - 1)
  BY <1>4, LenProperties
<1>7. Follows(s, t, 0)
  <2>1. \A j \in 1..n : j # 1 => (j - 1) + 0 \in 1..(n - 1) /\ ((j - 1) + 0) + 1 = j
    OBVIOUS
  <2>2. \A i \in 1..(n - 1) : (i + 1) - 0 \in 1..n /\ (i + 1) - 0 # 1 /\ (i + 1) - 0 = i + 1
    OBVIOUS
  <2>3. 1 \in DOMAIN s
    BY <1>1, <1>2
  <2>4. \A j \in DOMAIN s \ {1} : (j - 1) + 0 \in DOMAIN t /\ t[(j - 1) + 0] = s[j]
    BY <1>1, <1>4, <1>6, <2>1
  <2>5. \A i \in DOMAIN t : (i + 1) - 0 \in DOMAIN s \ {1} /\ t[i] = s[(i + 1) - 0]
    BY <1>1, <1>4, <1>6, <2>2
  <2>6. QED
    BY <1>1, <1>6, <2>3, <2>4, <2>5 DEF Follows
<1>8. QED
  BY <1>1, <1>2, <1>3, <1>4, <1>7

\* A created container that ran is started next.
LEMMA BootIs ==
  ASSUME NEW S, NEW s, s \in Seq(S), s # << >>, NEW boot \in S, Is(boot, "boot", s[1].on),
         s[1].do = "recreate", s[1].run = TRUE
  PROVE  <<boot>> \o Tail(s) \in Seq(S) /\ Follows(s, <<boot>> \o Tail(s), 1)
<1>1. PICK n \in Nat : n = Len(s) /\ DOMAIN s = 1..n /\ \A i \in 1..n : s[i] \in S
  BY LenProperties, ElementOfSeq
<1>2. n # 0
  BY <1>1, EmptySeq
<1>3. PICK t, d : t = Tail(s) /\ d = <<boot>>
  OBVIOUS
<1>4. t \in Seq(S) /\ Len(t) = n - 1 /\ \A i \in 1..(n - 1) : t[i] = s[i + 1]
  BY <1>1, <1>2, <1>3
<1>5. d \in Seq(S) /\ Len(d) = 1 /\ d[1] = boot
  BY <1>3
<1>6. PICK q : q = d \o t
  OBVIOUS
<1>7. q \in Seq(S) /\ Joint(d, t, q, 1)
  BY <1>4, <1>5, <1>6, JointIs
<1>8. /\ DOMAIN d = {1} /\ 1 \in DOMAIN q /\ q[1] = boot
      /\ \A j \in DOMAIN t : 1 + j \in DOMAIN q /\ q[1 + j] = t[j]
      /\ \A i \in DOMAIN q : i = 1 \/ (i - 1 \in DOMAIN t /\ q[i] = t[i - 1])
      /\ \A i \in DOMAIN q : i \in Nat
  BY <1>3, <1>5, <1>7 DEF Joint
<1>9. Follows(s, q, 1)
  <2>1. DOMAIN t = 1..(n - 1)
    BY <1>2, <1>4, LenProperties
  <2>2. ASSUME NEW j \in 1..n, j # 1 PROVE (j - 1) + 1 \in DOMAIN q /\ q[(j - 1) + 1] = s[j]
    <3>1. j - 1 \in 1..(n - 1) /\ 1 + (j - 1) = j /\ (j - 1) + 1 = j
      BY <2>2
    <3>2. QED
      BY <1>4, <1>8, <2>1, <3>1
  <2>3. ASSUME NEW i \in DOMAIN q, i # 1
        PROVE  (i + 1) - 1 \in 1..n /\ (i + 1) - 1 # 1 /\ q[i] = s[(i + 1) - 1] /\ i >= 1
    <3>1. i \in Nat /\ i - 1 \in 1..(n - 1) /\ q[i] = t[i - 1]
      BY <1>8, <2>1, <2>3
    <3>2. (i + 1) - 1 = i /\ (i - 1) + 1 = i /\ i \in 1..n
      BY <3>1
    <3>3. QED
      BY <1>4, <2>3, <3>1, <3>2
  <2>4. 1 \in DOMAIN s
    BY <1>1, <1>2
  <2>5. QED
    BY <1>1, <1>8, <2>2, <2>3, <2>4 DEF Follows
<1>10. QED
  BY <1>3, <1>6, <1>7, <1>9

\* A call of a change.
LEMMA OpCallKeeps ==
  ASSUME SessionInv, OpCall
  PROVE  SessionInv'
<1>1. SessionTyped /\ (Sound => Recorded) /\ (Sound /\ cmd = "op" => Ahead)
  BY DEF SessionInv
<1>2. /\ cmd = "op" /\ UNCHANGED <<base, active, journal, cmds, faults, rolled, failed, cut>>
      /\ cmd' = IF todo' = << >> THEN "idle" ELSE "op"
  BY DEF OpCall
<1>3. \/ todo # << >> /\ Accepts(world, Head(todo)) /\ world' = Effect(world, Head(todo)) /\ todo' = Tail(todo)
      \/ world' = world /\ ((todo # << >> /\ todo' = Tail(todo)) \/ todo' = << >>)
  BY DEF OpCall
<1>4. todo \in Seq(Doing) /\ Orderly(todo) /\ world \in World /\ base \in World /\ journal \in Seq(Entry)
  BY <1>1, <1>2 DEF SessionTyped
<1>5. todo # << >> =>
        Tail(todo) \in Seq(Doing) /\ Head(todo) = todo[1] /\ todo[1] \in Doing /\ Follows(todo, Tail(todo), 0)
  BY <1>4, TailIs
<1>6. todo' = << >> \/ (todo # << >> /\ todo' = Tail(todo))
  BY <1>3
<1>7. todo' \in Seq(Doing) /\ Orderly(todo')
  <2>1. CASE todo' = << >>
    BY <2>1 DEF Orderly
  <2>2. CASE todo # << >> /\ todo' = Tail(todo)
    <3>1. PICK t : t = Tail(todo)
      OBVIOUS
    <3>2. Follows(todo, t, 0)
      BY <1>5, <2>2, <3>1
    <3>3. \A i \in DOMAIN t : i \in Nat /\ i + 1 \in DOMAIN todo /\ t[i] = todo[i + 1]
      BY <3>2 DEF Follows
    <3>4. Orderly(t)
      BY <1>4, <3>3 DEF Orderly
    <3>5. QED
      BY <1>5, <2>2, <3>1, <3>4
  <2>3. QED
    BY <1>6, <2>1, <2>2
<1>8. world' \in World /\ (world' = world \/ (todo # << >> /\ Accepts(world, todo[1]) /\ Does(world, todo[1], world')))
  <2>1. CASE todo # << >> /\ Accepts(world, Head(todo)) /\ world' = Effect(world, Head(todo))
    <3>1. todo[1] \in Call
      BY <1>5, <2>1 DEF Doing
    <3>2. QED
      BY <1>4, <1>5, <2>1, <3>1, WorldKept
  <2>2. CASE world' = world
    BY <1>4, <2>2
  <2>3. QED
    BY <1>3, <2>1, <2>2
<1>9. SessionTyped'
  <2>1. cmd' = "op" \/ (cmd' = "idle" /\ todo' = << >>)
    BY <1>2
  <2>2. /\ base' \in World /\ active' \in BOOLEAN /\ failed' \in BOOLEAN /\ rolled' \in BOOLEAN
        /\ journal' \in Seq(Entry) /\ faults' \in Nat
    BY <1>1, <1>2 DEF SessionTyped
  <2>3. QED
    BY <1>7, <1>8, <2>1, <2>2 DEF SessionTyped
<1>10. ASSUME Sound' PROVE Recorded' /\ Ahead'
  <2>1. Sound
    BY <1>2, <1>10 DEF Sound, Reported
  <2>2. PICK p : p = InversesOf(base, journal)
    OBVIOUS
  <2>3. Booting = {} /\ Booting' = {}
    BY <1>2 DEF Booting
  <2>4. Restores(base, world, p, cut) /\ Running(base, world, p, cut)
    BY <1>1, <2>1, <2>2, <2>3 DEF Recorded
  <2>5. \A k \in DOMAIN todo : Covered(base, world, p, todo[k])
    BY <1>1, <1>2, <2>1, <2>2 DEF Ahead
  <2>6. \A j \in DOMAIN p : p[j] \in Backward(base)
    <3>1. p \in Seq(Undoes(base))
      BY <1>4, <2>2, InversesType
    <3>2. \A j \in DOMAIN p : p[j] \in Undoes(base)
      BY <3>1, LenProperties, ElementOfSeq
    <3>3. QED
      BY <3>2 DEF Backward
  <2>7. Restores(base, world', p, cut) /\ Running(base, world', p, cut)
    <3>1. CASE world' = world
      BY <2>4, <3>1
    <3>2. CASE todo # << >> /\ Accepts(world, todo[1]) /\ Does(world, todo[1], world')
      <4>1. PICK v : v = world'
        OBVIOUS
      <4>2. Covered(base, world, p, todo[1]) /\ todo[1] \in Doing
        BY <1>5, <2>5, <3>2 DEF Follows
      <4>3. v \in World /\ Does(world, todo[1], v)
        BY <1>8, <3>2, <4>1
      <4>4. Present(base, v, p) /\ Joinable(v, p) /\ Networked(base, v, p) /\ Running(base, v, p, cut)
        BY <1>4, <2>4, <2>6, <3>2, <4>2, <4>3, CallPresent
      <4>5. Filled(base, v, p) /\ Belongs(base, v, p)
        BY <1>4, <2>4, <3>2, <4>2, <4>3, CallFilled
      <4>6. QED
        BY <2>4, <4>1, <4>4, <4>5 DEF Restores
    <3>3. QED
      BY <1>8, <3>1, <3>2
  <2>8. Recorded'
    BY <1>2, <2>2, <2>3, <2>7 DEF Recorded
  <2>9. ASSUME NEW k \in DOMAIN todo' PROVE Covered(base, world', p, todo'[k])
    <3>1. todo # << >> /\ todo' = Tail(todo)
      BY <1>6, <2>9
    <3>2. PICK t : t = Tail(todo)
      OBVIOUS
    <3>3. k + 1 \in DOMAIN todo /\ t[k] = todo[k + 1] /\ k \in Nat /\ k >= 1 /\ 1 \in DOMAIN todo
      BY <1>5, <2>9, <3>1, <3>2 DEF Follows
    <3>4. Covered(base, world, p, t[k])
      BY <2>5, <3>3
    <3>5. CASE world' = world
      BY <3>1, <3>2, <3>4, <3>5
    <3>6. CASE Does(world, todo[1], world')
      <4>1. t[k] \in Doing
        BY <1>4, <3>3, LenProperties, ElementOfSeq
      <4>2. k + 1 # 1 /\ ~(1 > k + 1)
        BY <3>3
      <4>3. ~(t[k].do \in {"create", "fill"})
        BY <1>4, <3>3, <4>2 DEF Orderly
      <4>4. todo[1].do \in {"create", "fill"} => t[k].do = "start"
        BY <1>4, <3>3, <4>2 DEF Orderly
      <4>5. PICK v : v = world'
        OBVIOUS
      <4>6. Covered(base, v, p, t[k])
        BY <1>5, <3>1, <3>4, <3>6, <4>1, <4>3, <4>4, <4>5, CoveredStays
      <4>7. QED
        BY <3>1, <3>2, <4>5, <4>6
    <3>7. QED
      BY <1>8, <3>5, <3>6
  <2>10. Ahead'
    BY <1>2, <2>2, <2>9 DEF Ahead
  <2>11. QED
    BY <2>8, <2>10
<1>11. active' /\ rolled' /\ ~Reported' => FALSE
  BY <1>2 DEF SessionInv, Reported
<1>12. cmd' # "rollback"
  BY <1>2
<1>13. QED
  BY <1>9, <1>10, <1>11, <1>12 DEF SessionInv

----------------------------------------------------------------------------
(* The plan of a rollback.                                                 *)

\* The inverses are steps of a rollback.
LEMMA InversesBack ==
  ASSUME NEW b, NEW jl, jl \in Seq(Entry)
  PROVE  /\ InversesOf(b, jl) \in Seq(Backward(b))
         /\ \A j \in DOMAIN InversesOf(b, jl) : /\ InversesOf(b, jl)[j] \in Undoes(b)
                                                 /\ InversesOf(b, jl)[j] \in Backward(b)
<1>1. PICK p : p = InversesOf(b, jl) /\ p \in Seq(Undoes(b))
  BY InversesType
<1>2. \A j \in DOMAIN p : p[j] \in Undoes(b)
  BY <1>1, LenProperties, ElementOfSeq
<1>3. \A j \in DOMAIN p : p[j] \in Backward(b)
  BY <1>2 DEF Backward
<1>4. Each(p, Backward(b))
  BY <1>1, <1>3, LenProperties DEF Each
<1>5. p \in Seq(Backward(b))
  BY <1>1, <1>4, SeqRefine
<1>6. QED
  BY <1>1, <1>2, <1>3, <1>5

\* The parts of a plan: what is removed first, the inverses, what is removed last.
PlanIs(z, A, p, B, C) ==
  /\ z = ((A \o p) \o B) \o C
  /\ {A, p, B, C} \subseteq Seq(Backward(base))
  /\ Enumerates(A, "remove-v", DOMAIN world.ctr \ DOMAIN base.ctr)
  /\ Enumerates(B, "drop-volume", (DOMAIN world.vol \ DOMAIN base.vol) \ Removed)
  /\ Enumerates(C, "rm-network", world.net \ base.net)

\* A plan has these parts.
LEMMA PlanParts ==
  ASSUME SessionTyped
  PROVE  \E A, B, C : PlanIs(Plan, A, InversesOf(base, journal), B, C)
<1>1. PICK S, V, N : /\ S = DOMAIN world.ctr \ DOMAIN base.ctr
                     /\ V = (DOMAIN world.vol \ DOMAIN base.vol) \ Removed
                     /\ N = world.net \ base.net
  OBVIOUS
<1>2. /\ IsFiniteSet(S) /\ IsFiniteSet(V) /\ IsFiniteSet(N)
      /\ S \subseteq Container /\ V \subseteq Volume /\ N \subseteq Network
  <2>1. world \in Machine
    BY WorldIs DEF SessionTyped
  <2>2. DOMAIN world.ctr \subseteq Container /\ DOMAIN world.vol \subseteq Volume /\ world.net \subseteq Network
    BY <2>1, PartialIs DEF Machine, Contents
  <2>3. S \subseteq Container /\ V \subseteq Volume /\ N \subseteq Network
    BY <1>1, <2>2
  <2>4. QED
    BY <2>3, FS_Subset, SessionAssumption
<1>3. \A x \in S : Step("remove-v", x) \in Backward(base)
  BY <1>1, <1>2, StepIs DEF Backward, Is
<1>4. \A x \in V : Step("drop-volume", x) \in Backward(base)
  BY <1>1, <1>2, StepIs DEF Backward, Is
<1>5. \A x \in N : Step("rm-network", x) \in Backward(base)
  BY <1>1, <1>2, StepIs DEF Backward, Is
<1>6. PICK A, B, C : A = Steps("remove-v", S) /\ B = Steps("drop-volume", V) /\ C = Steps("rm-network", N)
  OBVIOUS
<1>7. A \in Seq(Backward(base)) /\ Enumerates(A, "remove-v", S)
  BY <1>2, <1>3, <1>6, StepsCover
<1>8. B \in Seq(Backward(base)) /\ Enumerates(B, "drop-volume", V)
  BY <1>2, <1>4, <1>6, StepsCover
<1>9. C \in Seq(Backward(base)) /\ Enumerates(C, "rm-network", N)
  BY <1>2, <1>5, <1>6, StepsCover
<1>10. PICK p : p = InversesOf(base, journal) /\ p \in Seq(Backward(base))
  BY InversesBack DEF SessionTyped
<1>11. Plan = ((A \o p) \o B) \o C
  BY <1>1, <1>6, <1>10, InversesAre DEF Plan
<1>12. PlanIs(Plan, A, p, B, C)
  BY <1>1, <1>7, <1>8, <1>9, <1>10, <1>11 DEF PlanIs
<1>13. QED
  BY <1>10, <1>12

\* The places of the parts.
Laid(z, A, p, B, C, a) ==
  /\ a \in Nat /\ DOMAIN A \subseteq 1..a /\ DOMAIN z \subseteq Nat /\ DOMAIN p \subseteq Nat
  /\ \A i \in DOMAIN A : i \in DOMAIN z /\ z[i] = A[i]
  /\ \A j \in DOMAIN p : a + j \in DOMAIN z /\ z[a + j] = p[j] /\ j >= 1
  /\ \A x \in DOMAIN B : \E i \in DOMAIN z : z[i] = B[x]
  /\ \A x \in DOMAIN C : \E i \in DOMAIN z : z[i] = C[x]
  /\ \A i \in DOMAIN z : \/ i \in DOMAIN A
                         \/ i > a /\ \/ i - a \in DOMAIN p /\ z[i] = p[i - a]
                                     \/ \E x \in DOMAIN B : z[i] = B[x]
                                     \/ \E x \in DOMAIN C : z[i] = C[x]

\* They are one after the other.
LEMMA PlanLaid ==
  ASSUME NEW z, NEW A, NEW p, NEW B, NEW C, PlanIs(z, A, p, B, C)
  PROVE  z \in Seq(Backward(base)) /\ Laid(z, A, p, B, C, Len(A))
<1>1. PICK S : S = Backward(base) /\ A \in Seq(S) /\ p \in Seq(S) /\ B \in Seq(S) /\ C \in Seq(S)
  BY DEF PlanIs
<1>2. PICK x, y : x = A \o p /\ y = x \o B /\ z = y \o C
  BY DEF PlanIs
<1>3. x \in Seq(S) /\ Joint(A, p, x, Len(A))
  BY <1>1, <1>2, JointIs
<1>4. y \in Seq(S) /\ Joint(x, B, y, Len(x))
  BY <1>1, <1>2, <1>3, JointIs
<1>5. z \in Seq(S) /\ Joint(y, C, z, Len(y))
  BY <1>1, <1>2, <1>4, JointIs
<1>6. PICK a, l, m : a = Len(A) /\ l = Len(x) /\ m = Len(y)
  OBVIOUS
<1>7. Joint(A, p, x, a) /\ Joint(x, B, y, l) /\ Joint(y, C, z, m)
  BY <1>3, <1>4, <1>5, <1>6
<1>8. /\ a \in Nat /\ DOMAIN A = 1..a /\ DOMAIN z \subseteq Nat /\ DOMAIN p \subseteq Nat
      /\ \A i \in DOMAIN x : i \in DOMAIN z /\ z[i] = x[i]
      /\ \A i \in DOMAIN A : i \in DOMAIN x /\ x[i] = A[i]
      /\ \A j \in DOMAIN p : a + j \in DOMAIN x /\ x[a + j] = p[j] /\ j >= 1
  BY <1>7 DEF Joint
<1>9. \A h \in DOMAIN B : \E i \in DOMAIN z : z[i] = B[h]
  <2>1. \A h \in DOMAIN B : l + h \in DOMAIN y /\ y[l + h] = B[h]
    BY <1>7 DEF Joint
  <2>2. \A i \in DOMAIN y : i \in DOMAIN z /\ z[i] = y[i]
    BY <1>7 DEF Joint
  <2>3. QED
    BY <2>1, <2>2
<1>10. \A h \in DOMAIN C : \E i \in DOMAIN z : z[i] = C[h]
  BY <1>7 DEF Joint
<1>11. ASSUME NEW i \in DOMAIN z, i \notin DOMAIN A
       PROVE  i > a /\ \/ i - a \in DOMAIN p /\ z[i] = p[i - a]
                       \/ \E h \in DOMAIN B : z[i] = B[h]
                       \/ \E h \in DOMAIN C : z[i] = C[h]
  <2>1. i \in DOMAIN y \/ \E h \in DOMAIN C : z[i] = C[h]
    BY <1>7 DEF Joint
  <2>2. i \in DOMAIN y => z[i] = y[i] /\ (i \in DOMAIN x \/ \E h \in DOMAIN B : y[i] = B[h])
    BY <1>7 DEF Joint
  <2>3. i \in DOMAIN x => z[i] = x[i] /\ i - a \in DOMAIN p /\ x[i] = p[i - a]
    BY <1>7, <1>8, <1>11 DEF Joint
  <2>4. i > a
    <3>1. i >= 1
      <4>1. \A k \in DOMAIN z : k \in DOMAIN y \/ k > m
        BY <1>7 DEF Joint
      <4>2. \A k \in DOMAIN y : k >= 1
        BY <1>7 DEF Joint
      <4>3. m \in Nat
        BY <1>7 DEF Joint
      <4>4. i \in Nat
        BY <1>8
      <4>5. QED
        BY <4>1, <4>2, <4>3, <4>4
    <3>2. i \in Nat
      BY <1>8
    <3>3. QED
      BY <1>8, <1>11, <3>1, <3>2
  <2>5. QED
    BY <2>1, <2>2, <2>3, <2>4
<1>12. Laid(z, A, p, B, C, a)
  BY <1>8, <1>9, <1>10, <1>11 DEF Laid
<1>13. QED
  BY <1>1, <1>5, <1>6, <1>12

\* A rollback has all it takes.
LEMMA PlanCompletes ==
  ASSUME SessionTyped, NEW E, NEW F, E \subseteq F,
         Restores(base, world, InversesOf(base, journal), E), Running(base, world, InversesOf(base, journal), F)
  PROVE  /\ Plan \in Seq(Backward(base)) /\ Completes(base, Shadowed, world, Plan, F)
         /\ \A k \in DOMAIN Plan :
              /\ Plan[k] \in Backs => \E j \in DOMAIN InversesOf(base, journal) : InversesOf(base, journal)[j] = Plan[k]
              /\ Plan[k].do # "boot"
<1>1. PICK p, z : p = InversesOf(base, journal) /\ z = Plan
  OBVIOUS
<1>2. PICK A, B, C : PlanIs(z, A, p, B, C)
  BY <1>1, PlanParts
<1>3. /\ A \in Seq(Backward(base)) /\ p \in Seq(Backward(base)) /\ B \in Seq(Backward(base)) /\ C \in Seq(Backward(base))
      /\ z = ((A \o p) \o B) \o C
  BY <1>2 DEF PlanIs
<1>4. PICK a : a = Len(A)
  OBVIOUS
<1>5. z \in Seq(Backward(base)) /\ Laid(z, A, p, B, C, a)
  BY <1>2, <1>4, PlanLaid
<1>6. /\ \A i \in DOMAIN A : A[i].do = "remove-v"
      /\ \A i \in DOMAIN B : B[i].do = "drop-volume"
      /\ \A i \in DOMAIN C : C[i].do = "rm-network"
  BY <1>2, StepIs DEF PlanIs, Enumerates
<1>7. \A s : s.do \in Removal => Fresh(base, world, s) /\ s.do # "boot"
  BY DEF Removal, Fresh
<1>8. \A i \in DOMAIN z : i - a \notin DOMAIN p \/ z[i] # p[i - a] => z[i].do \in Removal
  BY <1>5, <1>6 DEF Laid, Removal
<1>9. Widens(base, world, p, z, a)
  <2>1. /\ a \in Nat /\ DOMAIN p \subseteq Nat /\ DOMAIN z \subseteq Nat
        /\ \A j \in DOMAIN p : a + j \in DOMAIN z /\ z[a + j] = p[j] /\ j >= 1
    BY <1>5 DEF Laid
  <2>2. \A i \in DOMAIN z : (i - a \in DOMAIN p /\ z[i] = p[i - a]) \/ (Fresh(base, world, z[i]) /\ z[i].do \in Removal)
    BY <1>7, <1>8
  <2>3. QED
    BY <2>1, <2>2 DEF Widens
<1>10. \A i \in DOMAIN z : z[i] \in Backward(base)
  BY <1>5, LenProperties, ElementOfSeq
<1>11. Restores(base, world, z, F) /\ Running(base, world, z, F)
  BY <1>1, <1>9, <1>10, WidenedRestores DEF SessionTyped
<1>12. ASSUME NEW d \in DOMAIN world.ctr \ DOMAIN base.ctr
       PROVE  Has(z, "remove-v", d) /\ \A j \in DOMAIN z : z[j].do # "remove-v" => Before(z, j, "remove-v", d)
  <2>1. PICK i \in DOMAIN A : A[i] = Step("remove-v", d)
    BY <1>2 DEF PlanIs, Enumerates
  <2>2. i \in DOMAIN z /\ Is(z[i], "remove-v", d)
    BY <1>5, <2>1, StepIs DEF Laid
  <2>3. ASSUME NEW j \in DOMAIN z, z[j].do # "remove-v" PROVE i < j
    <3>1. j \notin DOMAIN A
      BY <1>5, <1>6, <2>3 DEF Laid
    <3>2. a \in Nat /\ i \in 1..a /\ j > a /\ j \in Nat
      BY <1>5, <3>1 DEF Laid
    <3>3. QED
      BY <3>2
  <2>4. QED
    BY <2>2, <2>3 DEF Has, Before
<1>13. ASSUME NEW v \in DOMAIN world.vol \ DOMAIN base.vol
       PROVE  v \in Shadowed \/ Has(z, "rm-volume", v) \/ Has(z, "drop-volume", v)
  <2>1. CASE v \notin Removed
    <3>1. PICK i \in DOMAIN B : B[i] = Step("drop-volume", v)
      BY <1>2, <2>1 DEF PlanIs, Enumerates
    <3>2. QED
      BY <1>5, <3>1, StepIs DEF Laid, Has
  <2>2. CASE v \in Removed
    <3>1. PICK i \in DOMAIN journal : Step("rm-volume", v) \in Range(journal[i].undo)
      BY <2>2 DEF Removed
    <3>2. v \in Volume
      BY <2>2 DEF Removed
    <3>3. CASE journal[i].done
      BY <3>1, <3>2, <3>3 DEF Shadowed
    <3>4. CASE ~journal[i].done
      <4>1. PICK j \in DOMAIN journal[i].undo : journal[i].undo[j] = Step("rm-volume", v)
        BY <3>1 DEF Range
      <4>2. About(base, journal[i].undo[j])
        BY <4>1, StepIs DEF About
      <4>3. journal \in Seq(Entry)
        BY DEF SessionTyped
      <4>4. PICK k \in DOMAIN p : p[k] = Step("rm-volume", v)
        BY <1>1, <3>4, <4>1, <4>2, <4>3, InversesHold
      <4>5. QED
        BY <1>5, <4>4, StepIs DEF Laid, Has
    <3>5. QED
      BY <3>3, <3>4
  <2>3. QED
    BY <2>1, <2>2
<1>14. ASSUME NEW n \in world.net \ base.net PROVE Has(z, "rm-network", n)
  <2>1. PICK i \in DOMAIN C : C[i] = Step("rm-network", n)
    BY <1>2 DEF PlanIs, Enumerates
  <2>2. QED
    BY <1>5, <2>1, StepIs DEF Laid, Has
<1>15. Completes(base, Shadowed, world, z, F)
  BY <1>11, <1>12, <1>13, <1>14 DEF Completes, Clears
<1>16. ASSUME NEW k \in DOMAIN z
       PROVE  (z[k] \in Backs => \E j \in DOMAIN p : p[j] = z[k]) /\ z[k].do # "boot"
  <2>1. \A j \in DOMAIN p : p[j].do # "boot"
    <3>1. journal \in Seq(Entry)
      BY DEF SessionTyped
    <3>2. \A j \in DOMAIN p : p[j] \in Undoes(base)
      BY <1>1, <3>1, InversesBack
    <3>3. QED
      BY <3>2 DEF Undoes, Backs
  <2>2. \A s : s \in Backs => s.do \notin Removal
    BY DEF Backs, Removal
  <2>3. QED
    BY <1>7, <1>8, <2>1, <2>2
<1>17. QED
  BY <1>1, <1>5, <1>15, <1>16

----------------------------------------------------------------------------
(* A call of a rollback.                                                   *)

\* The step at the head of t, and every inverse still to be made, is in p.
Drawn(t, p) ==
  \A m \in DOMAIN t : (t[m] \in Backs => \E j \in DOMAIN p : p[j] = t[m]) /\ (t[m].do = "boot" => m = 1)

\* An inverse of a rollback is in the journal.
LEMMA DrawnIs ==
  ASSUME NEW b, NEW t, NEW p, Drawn(t, p), NEW m \in DOMAIN t, t[m] \in Backward(b),
         t[m].do \in {"recreate", "start", "stop", "restore", "rm-volume", "add-network"}
  PROVE  \E j \in DOMAIN p : p[j] = t[m]
BY DEF Drawn, Backward, Undoes, Backs

\* The container about to be started before a step, and after it.
Boots(t, B, k, C) == (\A c \in B : Is(t[1], "boot", c)) /\ (k = 1 => t[1].on \in C)

\* Run states come back by the journal.
LEMMA UndoneRuns ==
  ASSUME NEW b, NEW S, NEW w, NEW t, NEW E, NEW v, NEW q, NEW k, Stepping(b, S, w, t, E, v, q, k),
         NEW p, Drawn(t, p), LastRuns(b, p, E), NEW B, NEW C, Running(b, w, p, E \cup B), Boots(t, B, k, C)
  PROVE  Running(b, v, p, E \cup C)
<1> DEFINE s == t[1]
<1>1. /\ LastRuns(b, t, E) /\ CtrMoved(b, w, s, v, k) /\ k \in {0, 1} /\ 1 \in DOMAIN t
      /\ (k = 1 => s.do = "recreate")
      /\ \A j \in DOMAIN t : j \in Nat /\ j >= 1 /\ t[j] \in Backward(b)
  BY DEF Stepping, Completes, Restores, Moved, Follows
<1> SUFFICES ASSUME NEW c \in DOMAIN b.ctr \ (E \cup C), c \in DOMAIN v.ctr, ~SetsRun(p, c)
             PROVE  v.ctr[c] = b.ctr[c]
  BY DEF Running
<1>2. \A m \in DOMAIN t : t[m].do \in Setter /\ t[m].on = c => Is(t[m], "boot", c) /\ m = 1
  <2> SUFFICES ASSUME NEW m \in DOMAIN t, t[m].do \in Setter, t[m].on = c
               PROVE  Is(t[m], "boot", c) /\ m = 1
    OBVIOUS
  <2>1. CASE t[m].do \in {"start", "stop"}
    <3>1. \E j \in DOMAIN p : p[j] = t[m]
      BY <1>1, <2>1, DrawnIs
    <3>2. QED
      BY <2>1, <3>1 DEF SetsRun, Setter
  <2>2. CASE t[m].do = "boot"
    BY <2>2 DEF Drawn, Is
  <2>3. QED
    BY <2>1, <2>2 DEF Setter
<1>3. CASE s.do \in Setter /\ s.on = c
  <2>1. ~SetsAfter(t, 1, c)
    BY <1>1, <1>2 DEF SetsAfter
  <2>2. RunOf(s) = b.ctr[c]
    BY <1>1, <1>3, <2>1 DEF LastRuns
  <2>3. QED
    BY <1>1, <1>3, <2>2 DEF CtrMoved
<1>4. CASE ~(s.do \in Setter /\ s.on = c) /\ c \in DOMAIN w.ctr
  <2>1. c \notin B
    BY <1>4 DEF Is, Setter, Boots
  <2>2. w.ctr[c] = b.ctr[c]
    BY <1>4, <2>1 DEF Running
  <2>3. QED
    BY <1>1, <1>4, <2>2 DEF CtrMoved
<1>5. CASE c \notin DOMAIN w.ctr
  <2>1. Is(s, "recreate", c)
    BY <1>1, <1>5 DEF CtrMoved
  <2>2. PICK j \in DOMAIN p : p[j] = s
    BY <1>1, <2>1, DrawnIs DEF Is
  <2>3. RunOf(s) = b.ctr[c]
    <3>1. ~SetsAfter(p, j, c)
      BY DEF SetsAfter, SetsRun
    <3>2. QED
      BY <2>1, <2>2, <3>1 DEF LastRuns, Is
  <2>4. k = 0
    BY <1>1, <2>1 DEF Is, Boots
  <2>5. QED
    BY <1>1, <1>5, <2>1, <2>3, <2>4 DEF CtrMoved, Is
<1>6. QED
  BY <1>3, <1>4, <1>5

\* Containers and networks come back by the journal.
LEMMA UndonePresent ==
  ASSUME NEW b, NEW S, NEW w, NEW t, NEW E, NEW v, NEW q, NEW k, Stepping(b, S, w, t, E, v, q, k),
         NEW p, Restores(b, w, p, E), \A j \in DOMAIN p : p[j] \in Backward(b)
  PROVE  Present(b, v, p) /\ Joinable(v, p) /\ Networked(b, v, p)
<1>1. /\ Present(b, w, p) /\ Joinable(w, p) /\ Networked(b, w, p)
      /\ CtrMoved(b, w, t[1], v, k) /\ NetMoved(b, w, t[1], v) /\ Housed(b)
  BY WorldIs DEF Stepping, Restores, Moved
<1>2. \A c \in DOMAIN b.ctr : c \in DOMAIN w.ctr => c \in DOMAIN v.ctr
  BY <1>1 DEF CtrMoved
<1>3. \A n \in b.net : n \in w.net => n \in v.net
  BY <1>1 DEF NetMoved
<1>4. Present(b, v, p) /\ Networked(b, v, p)
  BY <1>1, <1>2, <1>3 DEF Present, Networked
<1>5. \A j \in DOMAIN p : p[j].do = "recreate" => NetOf[p[j].on] \in b.net
  BY <1>1, BackwardIs DEF Housed
<1>6. Joinable(v, p)
  BY <1>1, <1>3, <1>5 DEF Joinable
<1>7. QED
  BY <1>4, <1>6

\* So do the contents of the volumes.
LEMMA UndoneFilled ==
  ASSUME NEW b, NEW S, NEW w, NEW t, NEW E, NEW v, NEW q, NEW k, Stepping(b, S, w, t, E, v, q, k),
         NEW p, Drawn(t, p), Restores(b, w, p, E)
  PROVE  Filled(b, v, p)
<1> DEFINE s == t[1]
<1>1. /\ LastFiles(b, p) /\ Filled(b, w, p) /\ Belongs(b, w, p) /\ VolMoved(b, w, s, v)
      /\ s \in Backward(b) /\ 1 \in DOMAIN t /\ DOMAIN b.ctr \subseteq Container
  <2>1. DOMAIN b.ctr \subseteq Container
    BY WorldIs, PartialIs DEF Stepping, Machine
  <2>2. QED
    BY <2>1 DEF Stepping, Completes, Restores, Moved, Follows
<1> SUFFICES ASSUME NEW x \in DOMAIN b.vol, ~Has(p, "restore", x)
             PROVE  \/ x \in DOMAIN v.vol /\ v.vol[x] = b.vol[x]
                    \/ Owned(b, x) /\ x \notin DOMAIN v.vol
  BY DEF Filled
<1>2. \A j \in DOMAIN p : ~After(p, j, "restore", x)
  BY DEF After, Has
<1>3. s.do \in {"recreate", "restore", "rm-volume"} => \E j \in DOMAIN p : p[j] = s
  BY <1>1, DrawnIs
<1>4. ~Is(s, "restore", x)
  BY <1>3 DEF Is, Has
<1>5. s.do = "recreate" /\ VolOf[s.on] = x =>
        UNION Range(s.files) \subseteq b.vol[x] /\ (s.on \in Anon => UNION Range(s.files) = b.vol[x])
  BY <1>1, <1>2, <1>3 DEF LastFiles
<1>6. CASE x \in DOMAIN w.vol /\ x \in DOMAIN v.vol
  <2>1. w.vol[x] = b.vol[x]
    BY <1>1, <1>6 DEF Filled
  <2>2. v.vol[x] = w.vol[x] \/ (s.do = "recreate" /\ VolOf[s.on] = x /\ v.vol[x] = w.vol[x] \cup UNION Range(s.files))
    BY <1>1, <1>4, <1>6 DEF VolMoved
  <2>3. v.vol[x] = b.vol[x]
    BY <1>5, <2>1, <2>2
  <2>4. QED
    BY <1>6, <2>3
<1>7. CASE x \in DOMAIN w.vol /\ x \notin DOMAIN v.vol
  <2>1. \/ Is(s, "rm-volume", x) \/ Is(s, "drop-volume", x)
        \/ s.do = "remove-v" /\ s.on \in Anon \cap DOMAIN w.ctr /\ VolOf[s.on] = x
    BY <1>1, <1>7 DEF VolMoved
  <2>2. CASE Is(s, "rm-volume", x)
    <3>1. PICK j \in DOMAIN p : p[j] = s
      BY <1>3, <2>2 DEF Is
    <3>2. Owned(b, x)
      BY <1>1, <1>2, <2>2, <3>1 DEF LastFiles, Is
    <3>3. QED
      BY <1>7, <3>2
  <2>3. CASE Is(s, "drop-volume", x)
    BY <1>1, <2>3, BackwardIs DEF Is
  <2>4. CASE s.do = "remove-v" /\ s.on \in Anon \cap DOMAIN w.ctr /\ VolOf[s.on] = x
    <3>1. s.on \notin DOMAIN b.ctr
      BY <1>1, <2>4, BackwardIs
    <3>2. QED
      BY <1>1, <2>4, <3>1 DEF Belongs
  <2>5. QED
    BY <2>1, <2>2, <2>3, <2>4
<1>8. CASE x \notin DOMAIN w.vol
  <2>1. Owned(b, x)
    BY <1>1, <1>8 DEF Filled
  <2>2. CASE x \in DOMAIN v.vol
    <3>1. s.do = "recreate" /\ VolOf[s.on] = x /\ v.vol[x] = UNION Range(s.files)
      BY <1>1, <1>4, <1>8, <2>2 DEF VolMoved
    <3>2. s.on \in Anon
      <4>1. PICK c \in Anon \cap DOMAIN b.ctr : VolOf[c] = x
        BY <2>1 DEF Owned
      <4>2. s.on \in Container
        BY <1>1, <3>1, BackwardIs
      <4>3. s.on = c
        BY <3>1, <4>1, <4>2, SessionAssumption
      <4>4. QED
        BY <4>1, <4>3
    <3>3. QED
      BY <1>5, <2>2, <3>1, <3>2
  <2>3. QED
    BY <2>1, <2>2
<1>9. QED
  BY <1>6, <1>7, <1>8

\* An anonymous volume comes and goes with its container.
LEMMA UndoneBelongs ==
  ASSUME NEW b, NEW S, NEW w, NEW t, NEW E, NEW v, NEW q, NEW k, Stepping(b, S, w, t, E, v, q, k),
         NEW p, Belongs(b, w, p)
  PROVE  Belongs(b, v, p)
<1>1. CtrMoved(b, w, t[1], v, k) /\ t[1] \in Backward(b)
  BY DEF Stepping, Moved, Follows
<1>2. \A c \in Anon \cap DOMAIN b.ctr : VolOf[c] \in DOMAIN v.vol => c \in DOMAIN v.ctr
  BY StepBelongs DEF Belongs
<1>3. \A c \in DOMAIN b.ctr : c \in DOMAIN w.ctr => c \in DOMAIN v.ctr
  BY <1>1 DEF CtrMoved
<1>4. \A d \in DOMAIN v.ctr \ DOMAIN b.ctr : d \in DOMAIN w.ctr
  BY <1>1, BackwardIs DEF CtrMoved, Is
<1>5. QED
  BY <1>2, <1>3, <1>4 DEF Belongs

\* What the journal undoes is not less after a step of a rollback.
LEMMA UndoneRecorded ==
  ASSUME NEW b, NEW S, NEW w, NEW t, NEW E, NEW v, NEW q, NEW k, Stepping(b, S, w, t, E, v, q, k),
         NEW p, Drawn(t, p), Restores(b, w, p, E), \A j \in DOMAIN p : p[j] \in Backward(b),
         NEW B, NEW C, Running(b, w, p, E \cup B), Boots(t, B, k, C)
  PROVE  Restores(b, v, p, E) /\ Running(b, v, p, E \cup C)
<1>1. LastRuns(b, p, E) /\ LastFiles(b, p) /\ Belongs(b, w, p)
  BY DEF Restores
<1>2. Running(b, v, p, E \cup C)
  BY <1>1, UndoneRuns
<1>3. Present(b, v, p) /\ Joinable(v, p) /\ Networked(b, v, p)
  BY UndonePresent
<1>4. Filled(b, v, p)
  BY UndoneFilled
<1>5. Belongs(b, v, p)
  BY <1>1, UndoneBelongs
<1>6. QED
  BY <1>1, <1>2, <1>3, <1>4, <1>5 DEF Restores

\* A plan is made of steps of a rollback.
LEMMA PlanTyped ==
  ASSUME SessionTyped
  PROVE  Plan \in Seq(Backward(base))
BY PlanParts, PlanLaid

\* A rollback begins with all it takes.
LEMMA RollbackKeeps ==
  ASSUME SessionInv, Rollback
  PROVE  SessionInv'
<1>1. SessionTyped /\ (Sound => Recorded)
  BY DEF SessionInv
<1>2. /\ active /\ cmd = "idle" /\ cmd' = "rollback" /\ todo' = Plan /\ rolled' = FALSE
      /\ UNCHANGED <<world, base, active, journal, faults, failed, cut>>
  BY DEF Rollback, Command
<1>3. SessionTyped'
  <2>1. todo' \in Seq(Backward(base'))
    BY <1>1, <1>2, PlanTyped
  <2>2. /\ world' \in World /\ base' \in World /\ active' \in BOOLEAN /\ failed' \in BOOLEAN
        /\ journal' \in Seq(Entry) /\ faults' \in Nat
    BY <1>1, <1>2 DEF SessionTyped
  <2>3. QED
    BY <1>2, <2>1, <2>2 DEF SessionTyped
<1>4. ASSUME Sound' PROVE Recorded' /\ OnCourse'
  <2>1. Sound
    BY <1>2, <1>4 DEF Sound, Reported
  <2>2. PICK p : p = InversesOf(base, journal)
    OBVIOUS
  <2>3. Restores(base, world, p, cut) /\ Running(base, world, p, cut)
    <3>1. Booting = {}
      BY <1>2 DEF Booting
    <3>2. QED
      BY <1>1, <2>1, <2>2, <3>1 DEF Recorded
  <2>4. Recorded'
    <3>1. Running(base, world, p, cut \cup Booting')
      BY <2>3 DEF Running
    <3>2. QED
      BY <1>2, <2>2, <2>3, <3>1 DEF Recorded
  <2>5. PICK z : z = Plan
    OBVIOUS
  <2>6. /\ Completes(base, Shadowed, world, z, cut)
        /\ \A k \in DOMAIN z : (z[k] \in Backs => \E j \in DOMAIN p : p[j] = z[k]) /\ z[k].do # "boot"
    BY <1>1, <2>2, <2>3, <2>5, PlanCompletes
  <2>7. Shadowed' = Shadowed
    BY <1>2 DEF Shadowed
  <2>8. OnCourse'
    BY <1>2, <2>2, <2>5, <2>6, <2>7 DEF OnCourse
  <2>9. QED
    BY <2>4, <2>8
<1>5. QED
  BY <1>2, <1>3, <1>4 DEF SessionInv

\* The cases of a call of a rollback.
LEMMA UndoCallIs ==
  ASSUME SessionTyped, UndoCall
  PROVE  /\ cmd = "rollback" /\ todo # << >> /\ todo[1] \in Backward(base)
         /\ world' \in World /\ todo' \in Seq(Backward(base))
         /\ failed => failed'
         /\ \E k : Outcome(world, todo[1], world', k) /\ Follows(todo, todo', k)
         /\ world' = world \/ (Accepts(world, todo[1]) /\ world' = Effect(world, todo[1]))
<1>1. cmd = "rollback" /\ todo # << >> /\ todo \in Seq(Backward(base)) /\ world \in World
  BY DEF SessionTyped, UndoCall
<1>2. /\ Tail(todo) \in Seq(Backward(base)) /\ Head(todo) = todo[1] /\ todo[1] \in Backward(base)
      /\ Follows(todo, Tail(todo), 0)
  BY <1>1, TailIs
<1>3. PICK s, t : s = Head(todo) /\ t = Tail(todo)
  OBVIOUS
<1>4. s \in Backward(base) /\ s \in Call /\ t \in Seq(Backward(base)) /\ Follows(todo, t, 0) /\ s = todo[1]
  BY <1>2, <1>3, BackwardIs
<1>5. \/ Settled(world, s) /\ todo' = t /\ world' = world /\ failed' = failed
      \/ ~Settled(world, s) /\ Accepts(world, s) /\ world' = Effect(world, s) /\ todo' = Rest(s)
         /\ failed' = (failed \/ NotModified(world, s))
      \/ ~Settled(world, s) /\ ~Accepts(world, s) /\ failed' = TRUE /\ todo' = t /\ world' = world
  BY <1>3 DEF UndoCall
<1>6. CASE world' = world /\ todo' = t /\ Outcome(world, s, world, 0)
  <2>1. failed => failed'
    BY <1>5, Zenon
  <2>2. QED
    BY <1>1, <1>4, <1>6, <2>1, Zenon
<1>7. CASE ~Settled(world, s) /\ Accepts(world, s) /\ world' = Effect(world, s) /\ todo' = Rest(s)
  <2>1. world' \in World
    BY <1>1, <1>4, <1>7, WorldKept
  <2>2. CASE s.do = "recreate" /\ s.run
    <3>1. s.run = TRUE
      BY <1>4, <2>2, CallIs
    <3>2. PICK boot : boot = Step("boot", s.on)
      OBVIOUS
    <3>3. boot \in Backward(base) /\ Is(boot, "boot", s.on)
      <4>1. s.on \in DOMAIN base.ctr
        BY <1>4, <2>2, BackwardIs
      <4>2. s.on \in Container
        BY <1>4, <2>2, CallIs DEF OnContainer
      <4>3. boot \in Call /\ Is(boot, "boot", s.on)
        BY <3>2, <4>2, StepIs
      <4>4. QED
        BY <4>1, <4>3 DEF Backward, Is
    <3>4. Rest(s) = <<boot>> \o t
      BY <1>3, <2>2, <3>2 DEF Rest
    <3>5. PICK r : r = <<boot>> \o t
      OBVIOUS
    <3>6. r \in Seq(Backward(base)) /\ Follows(todo, r, 1)
      BY <1>1, <1>3, <1>4, <2>2, <3>1, <3>3, <3>5, BootIs
    <3>7. Outcome(world, s, world', 1)
      BY <1>7, <2>2 DEF Outcome
    <3>8. QED
      BY <1>1, <1>4, <1>5, <1>7, <2>1, <3>4, <3>5, <3>6, <3>7
  <2>3. CASE ~(s.do = "recreate" /\ s.run)
    <3>1. << >> \o t = t
      BY <1>4
    <3>2. Rest(s) = t
      BY <1>3, <2>3, <3>1 DEF Rest
    <3>3. Outcome(world, s, world', 0)
      BY <1>7, <2>3 DEF Outcome
    <3>4. QED
      BY <1>1, <1>4, <1>5, <1>7, <2>1, <3>2, <3>3
  <2>4. QED
    BY <2>2, <2>3
<1>8. QED
  BY <1>5, <1>6, <1>7 DEF Outcome

\* And each of its calls leaves all that the rest takes.
LEMMA UndoCallKeeps ==
  ASSUME SessionInv, UndoCall
  PROVE  SessionInv'
<1>1. SessionTyped /\ (Sound => Recorded) /\ (Sound /\ cmd = "rollback" => OnCourse)
  BY DEF SessionInv
<1>2. UNCHANGED <<base, active, journal, cmd, cmds, faults, rolled, cut>>
  BY DEF UndoCall
<1>3. PICK t, u, v : t = todo /\ u = todo' /\ v = world'
  OBVIOUS
<1>4. /\ cmd = "rollback" /\ t # << >> /\ v \in World /\ u \in Seq(Backward(base)) /\ (failed => failed')
      /\ \E k : Outcome(world, t[1], v, k) /\ Follows(t, u, k)
  BY <1>1, <1>3, UndoCallIs
<1>5. PICK k : Outcome(world, t[1], v, k) /\ Follows(t, u, k)
  BY <1>4
<1>6. SessionTyped'
  <2>1. /\ base' \in World /\ active' = TRUE /\ rolled' \in BOOLEAN /\ journal' \in Seq(Entry) /\ faults' \in Nat
    BY <1>1, <1>2, <1>4 DEF SessionTyped
  <2>2. failed' \in BOOLEAN
    BY <1>1 DEF SessionTyped, UndoCall
  <2>3. QED
    BY <1>2, <1>3, <1>4, <2>1, <2>2 DEF SessionTyped
<1>7. ASSUME Sound' PROVE Recorded' /\ OnCourse'
  <2>1. Sound
    <3>1. active /\ faults' >= faults
      BY <1>1, <1>2, <1>4 DEF SessionTyped
    <3>2. \A i \in DOMAIN journal : journal[i].lost => \E j \in DOMAIN journal' : journal'[j].lost
      BY <1>2
    <3>3. QED
      BY <1>1, <1>4, <1>7, <3>1, <3>2, Told
  <2>2. PICK p, S : p = InversesOf(base, journal) /\ S = Shadowed
    OBVIOUS
  <2>3. base \in World /\ world \in World /\ t \in Seq(Backward(base)) /\ journal \in Seq(Entry)
    BY <1>1, <1>3, <1>4 DEF SessionTyped
  <2>4. Restores(base, world, p, cut) /\ Running(base, world, p, cut \cup Booting)
    BY <1>1, <2>1, <2>2 DEF Recorded
  <2>5. Completes(base, S, world, t, cut) /\ Drawn(t, p)
    BY <1>1, <1>3, <1>4, <2>1, <2>2 DEF OnCourse, Drawn
  <2>6. \A j \in DOMAIN t : t[j] \in Backward(base)
    BY <2>3, LenProperties, ElementOfSeq
  <2>7. \A j \in DOMAIN p : p[j] \in Backward(base)
    BY <2>2, <2>3, InversesBack
  <2>8. Stepping(base, S, world, t, cut, v, u, k)
    <3>1. \A do, x : ~Before(t, 1, do, x)
      BY <1>5 DEF Before, Follows
    <3>2. t[1].do # "remove-v" => DOMAIN world.ctr \subseteq DOMAIN base.ctr
      BY <1>5, <2>5, <3>1 DEF Follows, Completes, Clears
    <3>3. t[1].do = "recreate" => NetOf[t[1].on] \in world.net
      BY <1>5, <2>5, <3>1 DEF Follows, Completes, Restores, Joinable
    <3>4. t[1] \in Backward(base)
      BY <1>5, <2>6 DEF Follows
    <3>5. Moved(base, world, t[1], v, k)
      BY <1>5, <2>3, <3>2, <3>3, <3>4, Moves
    <3>6. QED
      BY <1>4, <1>5, <2>3, <2>5, <2>6, <3>5 DEF Stepping
  <2>9. Completes(base, S, v, u, cut)
    BY <1>4, <1>5, <2>3, <2>5, <2>6, StepCompletes
  <2>10. Drawn(u, p)
    <3> SUFFICES ASSUME NEW i \in DOMAIN u
                 PROVE  (u[i] \in Backs => \E j \in DOMAIN p : p[j] = u[i]) /\ (u[i].do = "boot" => i = 1)
      BY DEF Drawn
    <3>1. CASE \E j : Was(t, u, k, i, j)
      <4>1. PICK j \in DOMAIN t : j # 1 /\ u[i] = t[j]
        BY <3>1 DEF Was
      <4>2. QED
        BY <2>5, <4>1 DEF Drawn
    <3>2. CASE i = 1 /\ Is(u[i], "boot", t[1].on)
      BY <3>2 DEF Is, Backs
    <3>3. QED
      BY <1>5, <3>1, <3>2, WasOne
  <2>11. PICK B, C : B = Booting /\ C = Booting'
    OBVIOUS
  <2>12. Boots(t, B, k, C)
    <3>1. \A c \in B : Is(t[1], "boot", c)
      <4>1. Head(t) = t[1]
        BY <1>4, <2>3, TailIs
      <4>2. QED
        BY <1>3, <2>11, <4>1 DEF Booting, Is
    <3>2. ASSUME k = 1 PROVE t[1].on \in C
      <4>1. 1 \in DOMAIN u /\ Is(u[1], "boot", t[1].on)
        BY <1>5, <3>2 DEF Follows
      <4>2. u # << >>
        BY <4>1
      <4>3. Head(u) = u[1]
        BY <1>4, <4>2, TailIs
      <4>4. QED
        BY <1>2, <1>3, <1>4, <2>11, <4>1, <4>2, <4>3 DEF Booting, Is
    <3>3. QED
      BY <3>1, <3>2 DEF Boots
  <2>13. Restores(base, v, p, cut) /\ Running(base, v, p, cut \cup C)
    BY <2>4, <2>5, <2>7, <2>8, <2>11, <2>12, UndoneRecorded
  <2>14. Recorded'
    BY <1>2, <1>3, <2>2, <2>11, <2>13 DEF Recorded
  <2>15. Shadowed' = S
    BY <1>2, <2>2 DEF Shadowed
  <2>16. OnCourse'
    BY <1>2, <1>3, <2>2, <2>9, <2>10, <2>15 DEF OnCourse, Drawn
  <2>17. QED
    BY <2>14, <2>16
<1>8. ~(active' /\ rolled' /\ ~Reported')
  <2>1. ~Reported' => ~Reported
    BY <1>2, <1>4 DEF Reported
  <2>2. QED
    BY <1>2, <1>4, <2>1 DEF SessionInv
<1>9. QED
  BY <1>2, <1>4, <1>6, <1>7, <1>8 DEF SessionInv

----------------------------------------------------------------------------
(* The end of a rollback, a crash, and the session's begin and end.        *)

\* A step that fails is reported.
LEMMA UndoFailsKeeps ==
  ASSUME SessionInv, UndoFails
  PROVE  SessionInv'
<1>1. /\ SessionTyped /\ cmd = "rollback" /\ todo # << >> /\ faults' = faults + 1 /\ failed' = TRUE
      /\ todo' = Tail(todo) /\ UNCHANGED <<world, base, active, journal, cmd, rolled, cut>>
  BY DEF SessionInv, UndoFails
<1>2. todo \in Seq(Backward(base)) /\ faults \in Nat
  BY <1>1 DEF SessionTyped
<1>3. Tail(todo) \in Seq(Backward(base))
  BY <1>1, <1>2, TailIs
<1>4. SessionTyped'
  <2>1. /\ world' \in World /\ base' \in World /\ active' = TRUE /\ rolled' \in BOOLEAN /\ journal' \in Seq(Entry)
    BY <1>1 DEF SessionTyped
  <2>2. todo' \in Seq(Backward(base'))
    BY <1>1, <1>3
  <2>3. faults' \in Nat /\ failed' \in BOOLEAN
    BY <1>1, <1>2
  <2>4. QED
    BY <1>1, <2>1, <2>2, <2>3 DEF SessionTyped
<1>5. ~Sound' /\ Reported'
  <2>1. faults' # 0
    BY <1>1, <1>2
  <2>2. QED
    BY <1>1, <2>1 DEF Sound, Reported
<1>6. QED
  BY <1>4, <1>5 DEF SessionInv

\* When nothing is left to do the baseline is back.
LEMMA BackIs ==
  ASSUME NEW b, NEW w \in World, NEW S, NEW E, Completes(b, S, w, << >>, E)
  PROVE  /\ DOMAIN w.ctr = DOMAIN b.ctr /\ w.net = b.net
         /\ \A c \in DOMAIN b.ctr \ E : w.ctr[c] = b.ctr[c]
         /\ DOMAIN w.vol \ S \subseteq DOMAIN b.vol /\ DOMAIN b.vol \subseteq DOMAIN w.vol
         /\ \A v \in DOMAIN b.vol : w.vol[v] = b.vol[v]
<1>1. /\ \A do, x : ~Has(<< >>, do, x)
      /\ \A c : ~SetsRun(<< >>, c)
  BY DEF Has, SetsRun
<1>2. DOMAIN w.ctr = DOMAIN b.ctr
  BY <1>1 DEF Completes, Restores, Present, Clears
<1>3. w.net = b.net
  BY <1>1 DEF Completes, Restores, Networked, Clears
<1>4. \A c \in DOMAIN b.ctr \ E : w.ctr[c] = b.ctr[c]
  BY <1>1, <1>2 DEF Completes, Running
<1>5. DOMAIN w.vol \ S \subseteq DOMAIN b.vol
  BY <1>1 DEF Completes, Clears
<1>6. \A v \in DOMAIN b.vol : v \in DOMAIN w.vol /\ w.vol[v] = b.vol[v]
  <2>1. Housed(w)
    BY WorldIs
  <2>2. \A v : Owned(b, v) => v \in DOMAIN w.vol
    BY <1>2, <2>1 DEF Owned, Housed
  <2>3. QED
    BY <1>1, <2>2 DEF Completes, Restores, Filled
<1>7. QED
  BY <1>2, <1>3, <1>4, <1>5, <1>6

\* What Finish makes of the journal.
LEMMA FinishIs ==
  ASSUME SessionTyped, Finish
  PROVE  /\ journal' \in Seq(Entry) /\ DOMAIN journal' = DOMAIN journal
         /\ \A i \in DOMAIN journal : /\ journal'[i].undo = journal[i].undo /\ journal'[i].lost = journal[i].lost
                                      /\ journal[i].done => journal'[i].done
                                      /\ journal'[i].done \/ journal'[i].undo = << >>
<1> DEFINE Mark(e) == [e EXCEPT !.done = @ \/ e.undo # << >> \/ e.lost]
<1>1. journal' = [i \in DOMAIN journal |-> Mark(journal[i])]
  BY DEF Finish
<1>2. PICK jl : jl = journal /\ jl \in Seq(Entry)
  BY DEF SessionTyped
<1>3. PICK n \in Nat : n = Len(jl) /\ DOMAIN jl = 1..n /\ \A i \in 1..n : jl[i] \in Entry
  BY <1>2, LenProperties, ElementOfSeq
<1>4. ASSUME NEW e \in Entry
      PROVE  /\ Mark(e) \in Entry /\ Mark(e).undo = e.undo /\ Mark(e).lost = e.lost
             /\ e.done => Mark(e).done
             /\ Mark(e).done \/ Mark(e).undo = << >>
  BY DEF Entry
<1> HIDE DEF Mark
<1>5. journal' = [i \in 1..n |-> Mark(jl[i])]
  BY <1>1, <1>2, <1>3
<1>6. journal' \in Seq(Entry)
  BY <1>3, <1>4, <1>5
<1>7. QED
  BY <1>2, <1>3, <1>4, <1>5, <1>6

\* A rollback that ends has brought the baseline back, and leaves nothing to
\* undo.
LEMMA FinishKeeps ==
  ASSUME SessionInv, Finish
  PROVE  SessionInv'
<1>1. SessionTyped /\ (Sound /\ cmd = "rollback" => OnCourse)
  BY DEF SessionInv
<1>2. /\ cmd = "rollback" /\ todo = << >> /\ cmd' = "idle" /\ rolled' = TRUE
      /\ UNCHANGED <<world, base, active, todo, faults, failed, cut>>
  BY DEF Finish
<1>3. /\ journal' \in Seq(Entry) /\ DOMAIN journal' = DOMAIN journal
      /\ \A i \in DOMAIN journal : /\ journal'[i].undo = journal[i].undo /\ journal'[i].lost = journal[i].lost
                                   /\ journal[i].done => journal'[i].done
                                   /\ journal'[i].done \/ journal'[i].undo = << >>
  BY <1>1, FinishIs
<1>4. SessionTyped'
  <2>1. /\ world' \in World /\ base' \in World /\ active' \in BOOLEAN /\ failed' \in BOOLEAN /\ faults' \in Nat
    BY <1>1, <1>2 DEF SessionTyped
  <2>2. QED
    BY <1>2, <1>3, <2>1 DEF SessionTyped
<1>5. active' /\ ~Reported' => Sound
  <2>1. Reported => Reported'
    BY <1>2, <1>3 DEF Reported
  <2>2. QED
    BY <1>2, <2>1 DEF Sound
<1>6. Sound' => Sound
  <2>1. Reported => Reported'
    BY <1>2, <1>3 DEF Reported
  <2>2. QED
    BY <1>2, <2>1 DEF Sound
<1>7. Sound => Completes(base, Shadowed, world, << >>, cut)
  BY <1>1, <1>2 DEF OnCourse
<1>8. Booting' = {}
  BY <1>2 DEF Booting
<1>9. Sound => Recorded'
  <2>1. InversesOf(base, journal') = << >>
    BY <1>3, InversesNone
  <2>2. QED
    BY <1>2, <1>7, <1>8, <2>1 DEF Recorded, Completes
<1>10. Sound => IsBack(world)'
  <2> SUFFICES ASSUME Sound PROVE IsBack(world)'
    OBVIOUS
  <2>1. PICK S : S = Shadowed
    OBVIOUS
  <2>2. /\ DOMAIN world.ctr = DOMAIN base.ctr /\ world.net = base.net
        /\ \A c \in DOMAIN base.ctr \ cut : world.ctr[c] = base.ctr[c]
        /\ DOMAIN world.vol \ S \subseteq DOMAIN base.vol /\ DOMAIN base.vol \subseteq DOMAIN world.vol
        /\ \A v \in DOMAIN base.vol : world.vol[v] = base.vol[v]
    <3>1. world \in World /\ Completes(base, S, world, << >>, cut)
      BY <1>1, <1>7, <2>1 DEF SessionTyped
    <3>2. QED
      BY <3>1, BackIs
  <2>3. S \subseteq Shadowed' /\ Shadowed' \cap DOMAIN base.vol = {}
    <3>1. \A v \in S : v \in Shadowed'
      BY <1>2, <1>3, <2>1 DEF Shadowed
    <3>2. \A v \in Shadowed' : v \notin DOMAIN base.vol
      BY <1>2 DEF Shadowed
    <3>3. QED
      BY <3>1, <3>2
  <2>4. DOMAIN world.vol \ Shadowed' = DOMAIN base.vol
    BY <2>2, <2>3
  <2>5. QED
    BY <1>2, <1>8, <2>2, <2>4 DEF IsBack
<1>11. QED
  BY <1>2, <1>4, <1>5, <1>6, <1>9, <1>10 DEF SessionInv

\* What is cut can be undone: nothing has been taken from the journal.
LEMMA CrashKeeps ==
  ASSUME SessionInv, Crash
  PROVE  SessionInv'
<1>1. SessionTyped /\ (Sound => Recorded)
  BY DEF SessionInv
<1>2. /\ cmd # "idle" /\ cmd' = "idle" /\ todo' = << >> /\ cut' = cut \cup Booting
      /\ UNCHANGED <<world, base, active, journal, faults, rolled, failed>>
  BY DEF Crash
<1>3. SessionTyped'
  BY <1>1, <1>2 DEF SessionTyped
<1>4. (Sound' => Sound) /\ (Reported' <=> Reported)
  BY <1>2 DEF Sound, Reported
<1>5. Sound => Recorded'
  <2> SUFFICES ASSUME Sound PROVE Recorded'
    OBVIOUS
  <2>1. PICK p, E, F : p = InversesOf(base, journal) /\ E = cut /\ F = cut \cup Booting
    OBVIOUS
  <2>2. Restores(base, world, p, E) /\ Running(base, world, p, F) /\ E \subseteq F
    BY <1>1, <2>1 DEF Recorded
  <2>3. LastRuns(base, p, F)
    BY <2>2 DEF Restores, LastRuns
  <2>4. Restores(base, world, p, F)
    BY <2>2, <2>3 DEF Restores
  <2>5. Booting' = {}
    BY <1>2 DEF Booting
  <2>6. cut' \cup Booting' = F
    BY <1>2, <2>1, <2>5
  <2>7. QED
    BY <1>2, <2>1, <2>2, <2>4, <2>6 DEF Recorded
<1>6. QED
  BY <1>2, <1>3, <1>4, <1>5 DEF SessionInv

\* Without a session there is nothing to keep.
LEMMA EndKeeps ==
  ASSUME SessionInv, End
  PROVE  SessionInv'
<1>1. /\ SessionTyped /\ cmd = "idle" /\ active' = FALSE /\ rolled' = FALSE
      /\ UNCHANGED <<world, base, failed, cut, journal, cmd, todo, faults>>
  BY DEF SessionInv, End, Command
<1>2. SessionTyped'
  BY <1>1 DEF SessionTyped
<1>3. QED
  BY <1>1, <1>2 DEF SessionInv, Sound

\* With an empty journal, on the baseline itself, there is nothing to undo.
LEMMA NothingToUndo ==
  ASSUME NEW b \in World
  PROVE  Restores(b, b, << >>, {}) /\ Running(b, b, << >>, {})
<1>1. Housed(b)
  BY WorldIs
<1>2. QED
  BY <1>1 DEF Restores, Present, Joinable, Networked, LastRuns, LastFiles, Filled, Belongs, Running

\* An empty journal undoes nothing.
LEMMA NoInverses ==
  ASSUME NEW b
  PROVE  InversesOf(b, << >>) = << >>
<1>1. << >> \in Seq(Entry)
  OBVIOUS
<1>2. PICK jl : jl = << >> /\ jl \in Seq(Entry)
  BY <1>1
<1>3. InversesOf(b, jl) = << >>
  <2>1. \A i \in DOMAIN jl : jl[i].done \/ jl[i].undo = << >>
    BY <1>2
  <2>2. QED
    BY <1>2, <2>1, InversesNone
<1>4. QED
  BY <1>2, <1>3

\* A new session starts from what there is.
LEMMA BeginKeeps ==
  ASSUME SessionInv, Begin
  PROVE  SessionInv'
<1>1. /\ SessionTyped /\ cmd = "idle" /\ active' = TRUE /\ base' = world /\ journal' = << >>
      /\ rolled' = FALSE /\ failed' = FALSE /\ cut' = {} /\ UNCHANGED <<world, cmd, todo, faults>>
  BY DEF SessionInv, Begin
<1>2. SessionTyped'
  <2>1. << >> \in Seq(Entry)
    OBVIOUS
  <2>2. journal' \in Seq(Entry)
    BY <1>1, <2>1
  <2>3. QED
    BY <1>1, <2>2 DEF SessionTyped
<1>3. Booting' = {}
  BY <1>1 DEF Booting
<1>4. Recorded'
  <2>1. InversesOf(base', journal') = << >>
    BY <1>1, NoInverses
  <2>2. Restores(world, world, << >>, {}) /\ Running(world, world, << >>, {})
    BY <1>1, NothingToUndo DEF SessionTyped
  <2>3. QED
    BY <1>1, <1>3, <2>1, <2>2 DEF Recorded
<1>5. QED
  BY <1>1, <1>2, <1>4 DEF SessionInv

\* The invariant holds at the start.
LEMMA SessionStart ==
  ASSUME Init
  PROVE  SessionInv
<1>1. /\ world \in World /\ base = world /\ active = TRUE /\ journal = << >> /\ cmd = "idle" /\ todo = << >>
      /\ faults = 0 /\ rolled = FALSE /\ failed = FALSE /\ cut = {}
  BY DEF Init
<1>2. SessionTyped
  <2>1. << >> \in Seq(Entry)
    OBVIOUS
  <2>2. journal \in Seq(Entry)
    BY <1>1, <2>1
  <2>3. QED
    BY <1>1, <2>2 DEF SessionTyped
<1>3. Recorded
  <2>1. InversesOf(base, journal) = << >>
    BY <1>1, NoInverses
  <2>2. Restores(base, world, << >>, {}) /\ Running(base, world, << >>, {})
    BY <1>1, NothingToUndo
  <2>3. Booting = {}
    BY <1>1 DEF Booting
  <2>4. QED
    BY <1>1, <2>1, <2>2, <2>3 DEF Recorded
<1>4. QED
  BY <1>1, <1>2, <1>3 DEF SessionInv

\* And every step keeps it.
LEMMA SessionStep ==
  ASSUME SessionInv, [Next]_vars
  PROVE  SessionInv'
<1>1. world \in World /\ base \in World
  BY DEF SessionInv, SessionTyped
<1>2. CASE Recoverable
  BY <1>2, ChangeKeeps DEF Recoverable
<1>3. CASE UNCHANGED vars
  BY <1>3 DEF vars, SessionInv, SessionTyped, Sound, Reported, Recorded, Ahead, OnCourse, IsBack, Booting, Shadowed
<1>4. CASE \E c \in Container : \/ Run(c)
                                \/ \E b \in BOOLEAN : Rm(c, b)
                                \/ \E what \in {"start", "stop"} : StartStop(c, what)
  BY <1>1, <1>2, <1>4, RunUndoable, RmUndoable, StartStopUndoable
<1>5. CASE \E v \in Volume : CreateVolume(v) \/ VolumeRm(v) \/ \E f \in File : VolumeRestore(v, f)
  BY <1>1, <1>2, <1>5, CreateVolumeUndoable, VolumeRmUndoable, VolumeRestoreUndoable
<1>6. CASE \E n \in Network : CreateNetwork(n) \/ NetworkRm(n)
  BY <1>1, <1>2, <1>6, NetworkUndoable
<1>7. CASE \E S \in SUBSET Stack, b \in BOOLEAN : StackDown(S, b)
  BY <1>1, <1>2, <1>7, StackDownUndoable
<1>8. CASE OpCall \/ Rollback \/ UndoCall \/ UndoFails \/ Finish \/ Crash \/ End \/ Begin
  BY <1>8, OpCallKeeps, RollbackKeeps, UndoCallKeeps, UndoFailsKeeps, FinishKeeps, CrashKeeps, EndKeeps, BeginKeeps
<1>9. QED
  BY <1>3, <1>4, <1>5, <1>6, <1>7, <1>8 DEF Next

\* The invariant always holds.
LEMMA SessionHolds == Spec => []SessionInv
<1>1. Init => SessionInv
  BY SessionStart
<1>2. SessionInv /\ [Next]_vars => SessionInv'
  BY SessionStep
<1>3. QED
  BY <1>1, <1>2, PTL DEF Spec

----------------------------------------------------------------------------
(* The theorems.                                                           *)

\* What follows a first member.
LEMMA TailOfOne ==
  ASSUME NEW S, NEW s, s \in Seq(S), NEW x \in S
  PROVE  Tail(<<x>> \o s) = s
<1>1. <<x>> \o s \in Seq(S)
  OBVIOUS
<1>2. QED
  BY <1>1

\* A step of a rollback as a whole leaves what completes it.
LEMMA UndoCompletes ==
  ASSUME NEW b \in World, NEW S, NEW w \in World, NEW t, NEW E,
         t \in Seq(Backward(b)), t # << >>, Completes(b, S, w, t, E)
  PROVE  Undo(w, t[1]) \in World /\ Completes(b, S, Undo(w, t[1]), Tail(t), E)
<1>1. PICK s, r : s = t[1] /\ r = Tail(t)
  OBVIOUS
<1>2. r \in Seq(Backward(b)) /\ s \in Backward(b) /\ Follows(t, r, 0)
  BY <1>1, TailIs
<1>3. \A j \in DOMAIN t : t[j] \in Backward(b)
  BY LenProperties, ElementOfSeq
<1>4. CASE Settled(w, s) \/ ~Accepts(w, s)
  <2>1. Outcome(w, s, w, 0) /\ Undo(w, s) = w
    BY <1>4 DEF Outcome, Undo
  <2>2. Completes(b, S, w, r, E)
    BY <1>1, <1>2, <1>3, <2>1, StepCompletes
  <2>3. QED
    BY <1>1, <2>1, <2>2
<1>5. CASE ~Settled(w, s) /\ Accepts(w, s) /\ ~(s.do = "recreate" /\ s.run)
  <2>1. PICK v : v = Effect(w, s)
    OBVIOUS
  <2>2. Outcome(w, s, v, 0) /\ Undo(w, s) = v
    BY <1>5, <2>1 DEF Outcome, Undo
  <2>3. v \in World /\ Completes(b, S, v, r, E)
    BY <1>1, <1>2, <1>3, <2>2, StepCompletes
  <2>4. QED
    BY <1>1, <2>2, <2>3
<1>6. CASE ~Settled(w, s) /\ Accepts(w, s) /\ s.do = "recreate" /\ s.run
  <2>1. PICK v, boot : v = Effect(w, s) /\ boot = Step("boot", s.on)
    OBVIOUS
  <2>2. PICK u : u = Effect(v, boot)
    OBVIOUS
  <2>3. Undo(w, s) = u
    BY <1>6, <2>1, <2>2 DEF Undo
  <2>4. s \in Call /\ s.on \in DOMAIN b.ctr /\ s.on \in Container /\ s.run = TRUE
    BY <1>2, <1>6, BackwardIs, CallIs DEF OnContainer
  <2>5. boot \in Backward(b) /\ Is(boot, "boot", s.on) /\ boot.run = FALSE
    <3>1. boot \in Call /\ Is(boot, "boot", s.on) /\ boot.run = FALSE
      BY <2>1, <2>4, StepIs
    <3>2. QED
      BY <2>4, <3>1 DEF Backward, Is
  <2>6. PICK q : q = <<boot>> \o r
    OBVIOUS
  <2>7. q \in Seq(Backward(b)) /\ Follows(t, q, 1)
    BY <1>1, <1>6, <2>4, <2>5, <2>6, BootIs
  <2>8. v \in World /\ Completes(b, S, v, q, E)
    <3>1. Outcome(w, s, v, 1)
      BY <1>6, <2>1 DEF Outcome
    <3>2. QED
      BY <1>1, <1>3, <2>7, <3>1, StepCompletes
  <2>9. Outcome(v, boot, u, 0)
    <3>1. Does(w, s, v)
      BY <1>6, <2>1, <2>4, WorldKept
    <3>2. s.on \in DOMAIN v.ctr
      BY <1>6, <3>1 DEF Does, IsPut
    <3>3. Accepts(v, boot) /\ ~Settled(v, boot)
      BY <2>5, <3>2 DEF Accepts, Settled, Is
    <3>4. QED
      BY <2>2, <2>5, <3>3 DEF Outcome
  <2>10. q # << >> /\ q[1] = boot /\ Tail(q) = r /\ Follows(q, r, 0)
    <3>1. Tail(q) = r
      BY <1>2, <2>5, <2>6, TailOfOne
    <3>2. q # << >> /\ q[1] = boot
      BY <1>2, <2>5, <2>6
    <3>3. QED
      BY <2>7, <3>1, <3>2, TailIs
  <2>11. \A j \in DOMAIN q : q[j] \in Backward(b)
    BY <2>7, LenProperties, ElementOfSeq
  <2>12. u \in World /\ Completes(b, S, u, r, E)
    BY <2>8, <2>9, <2>10, <2>11, StepCompletes
  <2>13. QED
    BY <1>1, <2>3, <2>12
<1>7. QED
  BY <1>4, <1>5, <1>6

\* The worlds after the first steps of p, up to the m-th.
Afters(w, p, m, g) == g = [i \in 0..m |-> IF i = 0 THEN w ELSE Undo(g[i - 1], p[i])]

\* There are such worlds.
LEMMA AftersExist ==
  ASSUME NEW w, NEW p, NEW L \in Nat
  PROVE  \E g : Afters(w, p, L, g)
<1> DEFINE Bad == {n \in 0..L : ~\E g : Afters(w, p, n, g)}
<1> SUFFICES ASSUME Bad # {} PROVE FALSE
  OBVIOUS
<1>1. PICK n \in Bad : \A m \in Bad : n <= m
  <2>1. Bad \subseteq Nat
    OBVIOUS
  <2> HIDE DEF Bad
  <2>2. QED
    BY <2>1, HasLeast
<1>2. n \in 0..L /\ ~\E g : Afters(w, p, n, g)
  OBVIOUS
<1>3. n # 0
  <2>1. PICK g : g = [i \in {0} |-> w]
    OBVIOUS
  <2>2. Afters(w, p, 0, g)
    BY <2>1 DEF Afters
  <2>3. QED
    BY <1>2, <2>2
<1>4. PICK g : Afters(w, p, n - 1, g)
  <2>1. n - 1 \in 0..L /\ n - 1 \notin Bad
    BY <1>1, <1>2, <1>3
  <2>2. QED
    BY <2>1
<1> DEFINE h == [i \in 0..n |-> IF i < n THEN g[i] ELSE Undo(g[n - 1], p[n])]
<1>5. Afters(w, p, n, h)
  <2>1. ASSUME NEW i \in 0..n PROVE h[i] = IF i = 0 THEN w ELSE Undo(h[i - 1], p[i])
    <3>1. CASE i < n
      <4>1. i \in 0..(n - 1) /\ h[i] = g[i]
        BY <1>2, <3>1
      <4>2. g[i] = IF i = 0 THEN w ELSE Undo(g[i - 1], p[i])
        BY <1>4, <4>1 DEF Afters
      <4>3. i # 0 => h[i - 1] = g[i - 1]
        BY <1>2, <3>1
      <4>4. QED
        BY <4>1, <4>2, <4>3
    <3>2. CASE i = n
      <4>1. h[i] = Undo(g[n - 1], p[n]) /\ h[i - 1] = g[n - 1]
        BY <1>2, <1>3, <3>2
      <4>2. QED
        BY <1>3, <3>2, <4>1
    <3>3. QED
      BY <1>2, <3>1, <3>2
  <2>2. h = [i \in 0..n |-> IF i = 0 THEN w ELSE Undo(h[i - 1], p[i])]
    BY <2>1
  <2>3. QED
    BY <2>2 DEF Afters
<1>6. QED
  BY <1>2, <1>5

\* What is left of p after i steps completes the rollback in the world v.
Left(b, S, v, p, E, i) ==
  \E t \in Seq(Backward(b)) :
    /\ Len(t) = Len(p) - i /\ \A j \in 1..(Len(p) - i) : t[j] = p[i + j]
    /\ v \in World /\ Completes(b, S, v, t, E)

\* One step on, the rest completes it.
LEMMA LeftStays ==
  ASSUME NEW b \in World, NEW S, NEW v, NEW p, NEW E, p \in Seq(Backward(b)), NEW i \in Nat, i < Len(p),
         Left(b, S, v, p, E, i)
  PROVE  Left(b, S, Undo(v, p[i + 1]), p, E, i + 1)
<1>1. PICK n \in Nat : n = Len(p)
  BY LenProperties
<1>2. PICK t \in Seq(Backward(b)) : /\ Len(t) = n - i /\ \A j \in 1..(n - i) : t[j] = p[i + j]
                                    /\ v \in World /\ Completes(b, S, v, t, E)
  BY <1>1 DEF Left
<1>3. n - i \in Nat /\ n - i > 0
  BY <1>1
<1>4. t # << >> /\ t[1] = p[i + 1]
  BY <1>2, <1>3
<1>5. PICK r, u : r = Tail(t) /\ u = Undo(v, t[1])
  OBVIOUS
<1>6. r \in Seq(Backward(b)) /\ u \in World /\ Completes(b, S, u, r, E)
  BY <1>2, <1>4, <1>5, TailIs, UndoCompletes
<1>7. Len(r) = (n - i) - 1 /\ \A j \in 1..((n - i) - 1) : r[j] = t[j + 1]
  BY <1>2, <1>3, <1>4, <1>5
<1>8. n - (i + 1) = (n - i) - 1
  BY <1>1
<1>9. ASSUME NEW j \in 1..(n - (i + 1)) PROVE r[j] = p[(i + 1) + j]
  <2>1. j + 1 \in 1..(n - i) /\ i + (j + 1) = (i + 1) + j
    BY <1>1, <1>3
  <2>2. QED
    BY <1>2, <1>7, <1>8, <2>1
<1>10. Left(b, S, u, p, E, i + 1)
  BY <1>1, <1>6, <1>7, <1>8, <1>9 DEF Left
<1>11. QED
  BY <1>4, <1>5, <1>10

\* All steps, one after the other, leave nothing to do.
LEMMA UndoAllCompletes ==
  ASSUME NEW b \in World, NEW S, NEW w \in World, NEW p, NEW E, p \in Seq(Backward(b)), Completes(b, S, w, p, E)
  PROVE  UndoAll(w, p) \in World /\ Completes(b, S, UndoAll(w, p), << >>, E)
<1>1. PICK n \in Nat : n = Len(p)
  BY LenProperties
<1> DEFINE G == CHOOSE g : g = [i \in 0..Len(p) |-> IF i = 0 THEN w ELSE Undo(g[i - 1], p[i])]
<1>2. Afters(w, p, n, G)
  <2>1. \E g : Afters(w, p, n, g)
    BY AftersExist
  <2>2. \E g : g = [i \in 0..Len(p) |-> IF i = 0 THEN w ELSE Undo(g[i - 1], p[i])]
    BY <1>1, <2>1, Zenon DEF Afters
  <2>3. G = [i \in 0..Len(p) |-> IF i = 0 THEN w ELSE Undo(G[i - 1], p[i])]
    BY <2>2, Zenon
  <2>4. QED
    BY <1>1, <2>3, Zenon DEF Afters
<1>3. UndoAll(w, p) = G[n]
  BY <1>1 DEF UndoAll
<1> HIDE DEF G
<1> DEFINE Bad == {i \in 0..n : ~Left(b, S, G[i], p, E, i)}
<1>4. Bad = {}
  <2> SUFFICES ASSUME Bad # {} PROVE FALSE
    OBVIOUS
  <2>1. PICK i \in Bad : \A m \in Bad : i <= m
    <3>1. Bad \subseteq Nat
      OBVIOUS
    <3> HIDE DEF Bad
    <3>2. QED
      BY <3>1, HasLeast
  <2>2. i \in 0..n /\ ~Left(b, S, G[i], p, E, i)
    OBVIOUS
  <2>3. G[i] = IF i = 0 THEN w ELSE Undo(G[i - 1], p[i])
    BY <1>2, <2>2 DEF Afters
  <2>4. i # 0
    <3>1. Left(b, S, w, p, E, 0)
      BY <1>1 DEF Left
    <3>2. QED
      BY <2>2, <2>3, <3>1
  <2>5. Left(b, S, G[i - 1], p, E, i - 1)
    <3>1. i - 1 \in 0..n /\ i - 1 \notin Bad
      BY <2>1, <2>2, <2>4
    <3>2. QED
      BY <3>1
  <2>6. i - 1 \in Nat /\ i - 1 < n /\ (i - 1) + 1 = i
    BY <2>2, <2>4
  <2>7. PICK m \in Nat : m = i - 1
    BY <2>6
  <2>8. Left(b, S, Undo(G[m], p[m + 1]), p, E, m + 1)
    BY <1>1, <2>5, <2>6, <2>7, LeftStays
  <2>9. QED
    BY <2>2, <2>3, <2>4, <2>6, <2>7, <2>8
<1>5. Left(b, S, G[n], p, E, n)
  <2>1. n \in 0..n /\ n \notin Bad
    BY <1>4
  <2>2. QED
    BY <2>1
<1>6. PICK v : v = G[n]
  OBVIOUS
<1>7. Left(b, S, v, p, E, n)
  BY <1>5, <1>6
<1>8. PICK t \in Seq(Backward(b)) : Len(t) = Len(p) - n /\ v \in World /\ Completes(b, S, v, t, E)
  BY <1>7 DEF Left
<1>9. t = << >>
  <2>1. Len(t) = 0
    BY <1>1, <1>8
  <2>2. QED
    BY <1>8, <2>1, EmptySeq
<1>10. QED
  BY <1>3, <1>6, <1>8, <1>9

\* AlwaysUndoable.
LEMMA PlanUndoes ==
  ASSUME SessionInv
  PROVE  AlwaysUndoable
<1> SUFFICES ASSUME active, faults = 0 PROVE IsBack(UndoAll(world, Plan))
  BY DEF AlwaysUndoable
<1>1. SessionTyped /\ Recorded
  BY DEF SessionInv, Sound
<1>2. base \in World /\ world \in World
  BY <1>1 DEF SessionTyped
<1>3. PICK z, p, E, F, S : z = Plan /\ p = InversesOf(base, journal) /\ E = cut /\ F = cut \cup Booting /\ S = Shadowed
  OBVIOUS
<1>4. Restores(base, world, p, E) /\ Running(base, world, p, F) /\ E \subseteq F
  BY <1>1, <1>3 DEF Recorded
<1>5. z \in Seq(Backward(base)) /\ Completes(base, S, world, z, F)
  BY <1>1, <1>3, <1>4, PlanCompletes
<1>6. PICK w : w = UndoAll(world, z)
  OBVIOUS
<1>7. w \in World /\ Completes(base, S, w, << >>, F)
  BY <1>2, <1>5, <1>6, UndoAllCompletes
<1>8. /\ DOMAIN w.ctr = DOMAIN base.ctr /\ w.net = base.net
      /\ \A c \in DOMAIN base.ctr \ F : w.ctr[c] = base.ctr[c]
      /\ DOMAIN w.vol \ S \subseteq DOMAIN base.vol /\ DOMAIN base.vol \subseteq DOMAIN w.vol
      /\ \A v \in DOMAIN base.vol : w.vol[v] = base.vol[v]
  BY <1>7, BackIs
<1>9. S \cap DOMAIN base.vol = {}
  BY <1>3 DEF Shadowed
<1>10. DOMAIN w.vol \ S = DOMAIN base.vol
  BY <1>8, <1>9
<1>11. IsBack(w)
  BY <1>3, <1>8, <1>10 DEF IsBack
<1>12. QED
  BY <1>3, <1>6, <1>11

\* After any changes, whole or cut, and after a rollback that was cut, a
\* rollback brings the baseline back, unless a capture or a step has failed.
THEOREM RollbackRestores == Spec => []AlwaysUndoable
<1>1. SessionInv => AlwaysUndoable
  BY PlanUndoes
<1>2. QED
  BY <1>1, SessionHolds, PTL

\* When a rollback has ended and none of the session has reported a failed
\* step or a change that cannot be undone, the baseline is back.
THEOREM ReportIsTrusted == Spec => []ReportIsTrue
<1>1. SessionInv => ReportIsTrue
  BY DEF SessionInv, ReportIsTrue
<1>2. QED
  BY <1>1, SessionHolds, PTL

\* Only the calls of a rollback change the machine.
LEMMA OnlyCalls ==
  ASSUME Next, cmd = "rollback"
  PROVE  UndoCall \/ world' = world
<1>1. \A u, calls : ~Change(u, calls)
  BY DEF Change, Command
<1>2. ~\E c \in Container : \/ Run(c)
                            \/ \E b \in BOOLEAN : Rm(c, b)
                            \/ \E what \in {"start", "stop"} : StartStop(c, what)
  BY <1>1 DEF Run, Rm, StartStop
<1>3. ~\E v \in Volume : CreateVolume(v) \/ VolumeRm(v) \/ \E f \in File : VolumeRestore(v, f)
  BY <1>1 DEF CreateVolume, VolumeRm, VolumeRestore
<1>4. ~\E n \in Network : CreateNetwork(n) \/ NetworkRm(n)
  BY <1>1 DEF CreateNetwork, NetworkRm
<1>5. ~\E S \in SUBSET Stack, b \in BOOLEAN : StackDown(S, b)
  BY <1>1 DEF StackDown
<1>6. UndoCall \/ OpCall \/ Rollback \/ UndoFails \/ Finish \/ Crash \/ End \/ Begin
  BY <1>2, <1>3, <1>4, <1>5 DEF Next
<1>7. QED
  BY <1>6 DEF OpCall, Rollback, Command, UndoFails, Finish, Crash, End, Begin

\* A rollback brings back nothing that the baseline did not have.
THEOREM NothingComesBack == Spec => NothingResurrected
<1> DEFINE Old == cmd = "rollback" =>
                    /\ DOMAIN world'.ctr \subseteq DOMAIN world.ctr \cup DOMAIN base.ctr
                    /\ DOMAIN world'.vol \subseteq DOMAIN world.vol \cup DOMAIN base.vol
                    /\ world'.net \subseteq world.net \cup base.net
<1>1. ASSUME SessionInv, [Next]_vars PROVE [Old]_vars
  <2> SUFFICES ASSUME Next, cmd = "rollback", UndoCall PROVE Old
    BY <1>1, OnlyCalls
  <2>1. SessionTyped /\ base \in World /\ world \in World
    BY <1>1 DEF SessionInv, SessionTyped
  <2>2. PICK v, s : v = world' /\ s = todo[1]
    OBVIOUS
  <2>3. s \in Backward(base) /\ (v = world \/ (Accepts(world, s) /\ v = Effect(world, s)))
    BY <2>1, <2>2, UndoCallIs
  <2>4. CASE v = world
    BY <2>2, <2>4
  <2>5. CASE Accepts(world, s) /\ v = Effect(world, s)
    <3>1. s \in Call
      BY <2>3, BackwardIs
    <3>2. Does(world, s, v) /\ Housed(base)
      BY <2>1, <2>5, <3>1, WorldKept, WorldIs
    <3>3. s.do \in {"recreate", "start", "stop", "boot", "restore", "rm-volume", "add-network", "remove-v",
                    "drop-volume", "rm-network"}
      BY <2>3, BackwardIs
    <3>4. DOMAIN v.ctr \subseteq DOMAIN world.ctr \cup DOMAIN base.ctr
      <4>1. s.do \in {"recreate", "start", "stop", "boot"} => s.on \in DOMAIN base.ctr
        BY <2>3, BackwardIs
      <4>2. QED
        BY <3>2, <3>3, <4>1 DEF Does, IsPut, IsCut
    <3>5. DOMAIN v.vol \subseteq DOMAIN world.vol \cup DOMAIN base.vol
      <4>1. s.do = "recreate" => VolOf[s.on] \in DOMAIN base.vol
        BY <2>3, <3>2, BackwardIs DEF Housed
      <4>2. s.do = "restore" => s.on \in DOMAIN base.vol
        BY <2>3, BackwardIs
      <4>3. QED
        BY <3>2, <3>3, <4>1, <4>2 DEF Does, IsPut, IsCut
    <3>6. v.net \subseteq world.net \cup base.net
      <4>1. s.do = "add-network" => s.on \in base.net
        BY <2>3, BackwardIs
      <4>2. QED
        BY <3>2, <3>3, <4>1 DEF Does
    <3>7. QED
      BY <2>2, <3>4, <3>5, <3>6
  <2>6. QED
    BY <2>3, <2>4, <2>5
<1>2. QED
  BY <1>1, SessionHolds, PTL DEF Spec, NothingResurrected

----------------------------------------------------------------------------
(* The recorder: sequences of messages, and their stream.                  *)

\* If a property of numbers is handed on, all numbers have it.
LEMMA UpTo ==
  ASSUME NEW n \in Nat, NEW S, 0 \in S, \A i \in 0 .. n - 1 : i \in S => i + 1 \in S
  PROVE  \A i \in 0 .. n : i \in S
<1> DEFINE Bad == {i \in 0 .. n : i \notin S}
<1> SUFFICES ASSUME Bad # {} PROVE FALSE
  OBVIOUS
<1>1. PICK i \in Bad : \A j \in Bad : i <= j
  <2>1. Bad \subseteq Nat
    OBVIOUS
  <2> HIDE DEF Bad
  <2>2. QED BY <2>1, HasLeast
<1>2. i \in 0 .. n /\ i \notin S /\ i # 0
  OBVIOUS
<1>3. i - 1 \in 0 .. n - 1 /\ i - 1 \notin Bad
  BY <1>1, <1>2
<1>4. i - 1 \in S
  BY <1>3
<1>5. QED BY <1>2, <1>3, <1>4

TokenPart == {"head", "body", "chunk", "last"}
Token == [msg : Nat, part : TokenPart]

\* The a-th to the b-th of a sequence.
LEMMA PartOf ==
  ASSUME NEW S, NEW ms \in Seq(S), NEW a \in Nat \ {0}, NEW b \in Nat, b <= Len(ms)
  PROVE  /\ SubSeq(ms, a, b) \in Seq(S) /\ Len(SubSeq(ms, a, b)) = (IF a <= b THEN b - a + 1 ELSE 0)
         /\ \A i \in 1 .. b - a + 1 : SubSeq(ms, a, b)[i] = ms[a + i - 1]
<1>1. Len(ms) \in Nat /\ \A i \in 1 .. Len(ms) : ms[i] \in S
  BY LenProperties, ElementOfSeq
<1>2. a \in Int /\ b \in Int /\ \A i \in a .. b : ms[i] \in S
  BY <1>1
<1>3. QED BY <1>2, SubSeqProperties

\* The stream of the first n of some messages.
Together(ms, n) == FlattenSeq(SubSeq(ms, 1, n))

\* The first messages' stream is what that of more of them begins with.
LEMMA TogetherConcat ==
  ASSUME NEW ms, ms \in Seq(Seq(Token)), NEW n \in 0 .. Len(ms), NEW k \in 0 .. n
  PROVE  /\ Together(ms, k) \in Seq(Token) /\ FlattenSeq(SubSeq(ms, k + 1, n)) \in Seq(Token)
         /\ Together(ms, n) = Together(ms, k) \o FlattenSeq(SubSeq(ms, k + 1, n))
<1>1. Len(ms) \in Nat /\ n \in Nat /\ k \in Nat /\ k <= n /\ n <= Len(ms)
  BY LenProperties
<1>2. PICK A, B, C : A = SubSeq(ms, 1, k) /\ B = SubSeq(ms, k + 1, n) /\ C = SubSeq(ms, 1, n)
  OBVIOUS
<1>3. A \in Seq(Seq(Token)) /\ B \in Seq(Seq(Token))
  <2>1. k <= Len(ms) /\ 1 \in Nat \ {0} /\ k + 1 \in Nat \ {0}
    BY <1>1
  <2>2. SubSeq(ms, 1, k) \in Seq(Seq(Token)) /\ SubSeq(ms, k + 1, n) \in Seq(Seq(Token))
    BY <1>1, <2>1, PartOf
  <2>3. QED BY <1>2, <2>2
<1>4. A \o B = C
  <2>1. 1 \in 1 .. Len(ms) + 1 /\ k \in 1 - 1 .. Len(ms) /\ n \in k .. Len(ms)
    BY <1>1
  <2>2. QED BY <1>2, <2>1, ConcatAdjacentSubSeq
<1>5. FlattenSeq(C) = FlattenSeq(A) \o FlattenSeq(B)
  <2>1. FlattenSeq(A \o B) = FlattenSeq(A) \o FlattenSeq(B)
    BY <1>3, FlattenConcat
  <2>2. QED BY <1>4, <2>1
<1>6. FlattenSeq(A) \in Seq(Token) /\ FlattenSeq(B) \in Seq(Token)
  BY <1>3, FlattenType
<1>7. QED BY <1>2, <1>5, <1>6 DEF Together

\* What that says of its members.
Begins(p, q) == Len(p) <= Len(q) /\ \A i \in 1 .. Len(p) : q[i] = p[i]

\* The stream of more messages begins with that of fewer.
LEMMA TogetherGrows ==
  ASSUME NEW ms, ms \in Seq(Seq(Token)), NEW n \in 0 .. Len(ms), NEW k \in 0 .. n
  PROVE  Together(ms, k) \in Seq(Token) /\ Together(ms, n) \in Seq(Token) /\ Begins(Together(ms, k), Together(ms, n))
<1>1. PICK a, b, c : a = Together(ms, k) /\ b = FlattenSeq(SubSeq(ms, k + 1, n)) /\ c = Together(ms, n)
  OBVIOUS
<1>2. a \in Seq(Token) /\ b \in Seq(Token) /\ c = a \o b
  BY <1>1, TogetherConcat
<1>3. c \in Seq(Token) /\ Len(c) = Len(a) + Len(b) /\ Len(a) \in Nat /\ Len(b) \in Nat
      /\ \A i \in 1 .. Len(a) + Len(b) : c[i] = IF i <= Len(a) THEN a[i] ELSE b[i - Len(a)]
  BY <1>2, ConcatProperties, LenProperties
<1>4. Begins(a, c)
  BY <1>3 DEF Begins
<1>5. QED BY <1>1, <1>2, <1>3, <1>4

\* The k-th message comes after the first k - 1.
LEMMA TogetherNext ==
  ASSUME NEW ms, ms \in Seq(Seq(Token)), NEW k \in 1 .. Len(ms)
  PROVE  /\ ms[k] \in Seq(Token) /\ Together(ms, k - 1) \in Seq(Token)
         /\ Together(ms, k) = Together(ms, k - 1) \o ms[k]
<1>1. Len(ms) \in Nat /\ k \in Nat /\ 1 <= k /\ k <= Len(ms) /\ ms[k] \in Seq(Token)
  BY LenProperties, ElementOfSeq
<1>2. k \in 0 .. Len(ms) /\ k - 1 \in 0 .. k /\ (k - 1) + 1 = k
  BY <1>1
<1>3. /\ Together(ms, k - 1) \in Seq(Token)
      /\ Together(ms, k) = Together(ms, k - 1) \o FlattenSeq(SubSeq(ms, k, k))
  <2>1. Together(ms, k) = Together(ms, k - 1) \o FlattenSeq(SubSeq(ms, (k - 1) + 1, k)) /\ Together(ms, k - 1) \in Seq(Token)
    BY <1>2, TogetherConcat
  <2>2. QED BY <1>2, <2>1
<1>4. SubSeq(ms, k, k) = <<ms[k]>>
  <2>1. PICK o : o = SubSeq(ms, k, k)
    OBVIOUS
  <2>2. /\ o \in Seq(Seq(Token)) /\ Len(o) = (IF k <= k THEN k - k + 1 ELSE 0)
        /\ \A i \in 1 .. k - k + 1 : o[i] = ms[k + i - 1]
    BY <1>1, <2>1, PartOf
  <2>3. o \in Seq(Seq(Token)) /\ Len(o) = 1 /\ o[1] = ms[k]
    BY <1>1, <2>2
  <2>4. <<ms[k]>> \in Seq(Seq(Token)) /\ Len(<<ms[k]>>) = 1 /\ <<ms[k]>>[1] = ms[k]
    BY <1>1
  <2>5. o = <<ms[k]>>
    BY <2>3, <2>4, SeqEqual
  <2>6. QED BY <2>1, <2>5
<1>5. FlattenSeq(<<ms[k]>>) = ms[k]
  BY <1>1, FlattenOne
<1>6. QED BY <1>1, <1>3, <1>4, <1>5

\* Where each of the first n messages begins in their stream, less one.
Layout(ms, n, q, start) ==
  /\ q \in Seq(Token) /\ start \in [1 .. n + 1 -> Nat] /\ start[1] = 0 /\ start[n + 1] = Len(q)
  /\ \A k \in 1 .. n : /\ start[k + 1] = start[k] + Len(ms[k])
                       /\ \A i \in 1 .. Len(ms[k]) : q[start[k] + i] = ms[k][i]

\* Where the messages begin is how long the stream of those before is.
LEMMA TogetherLayout ==
  ASSUME NEW ms, ms \in Seq(Seq(Token)), NEW n \in 0 .. Len(ms)
  PROVE  Layout(ms, n, Together(ms, n), [k \in 1 .. n + 1 |-> Len(Together(ms, k - 1))])
<1>1. PICK q, start : q = Together(ms, n) /\ start = [k \in 1 .. n + 1 |-> Len(Together(ms, k - 1))]
  OBVIOUS
<1>2. Len(ms) \in Nat /\ n \in Nat /\ n <= Len(ms)
  BY LenProperties
<1>3. ASSUME NEW k \in 0 .. n PROVE Together(ms, k) \in Seq(Token) /\ Len(Together(ms, k)) \in Nat
  BY TogetherGrows, LenProperties
<1>4. q \in Seq(Token)
  BY <1>1, <1>2, <1>3
<1>5. start \in [1 .. n + 1 -> Nat]
  <2>1. \A k \in 1 .. n + 1 : k - 1 \in 0 .. n
    BY <1>2
  <2>2. QED BY <1>1, <1>3, <2>1
<1>6. start[1] = 0
  <2>1. start[1] = Len(Together(ms, 0))
    BY <1>1, <1>2
  <2>2. SubSeq(ms, 1, 0) = << >>
    BY SubSeqEmpty
  <2>3. Together(ms, 0) = << >>
    BY <2>2 DEF Together, FlattenSeq
  <2>4. QED BY <2>1, <2>3
<1>7. start[n + 1] = Len(q)
  <2>1. start[n + 1] = Len(Together(ms, (n + 1) - 1)) /\ (n + 1) - 1 = n
    BY <1>1, <1>2
  <2>2. QED BY <1>1, <2>1
<1>8. ASSUME NEW k \in 1 .. n
      PROVE  start[k + 1] = start[k] + Len(ms[k]) /\ \A i \in 1 .. Len(ms[k]) : q[start[k] + i] = ms[k][i]
  <2>1. k \in 1 .. Len(ms) /\ k \in 0 .. n /\ k - 1 \in 0 .. n /\ k \in 1 .. n + 1 /\ k + 1 \in 1 .. n + 1 /\ (k + 1) - 1 = k
    BY <1>2
  <2>2. PICK a, b, m : a = Together(ms, k - 1) /\ b = Together(ms, k) /\ m = ms[k]
    OBVIOUS
  <2>3. m \in Seq(Token) /\ a \in Seq(Token) /\ b = a \o m
    BY <2>1, <2>2, TogetherNext
  <2>4. start[k] = Len(a) /\ start[k + 1] = Len(b)
    BY <1>1, <2>1, <2>2
  <2>5. /\ Len(b) = Len(a) + Len(m) /\ Len(a) \in Nat /\ Len(m) \in Nat
        /\ \A i \in 1 .. Len(a) + Len(m) : b[i] = IF i <= Len(a) THEN a[i] ELSE m[i - Len(a)]
    BY <2>3, ConcatProperties, LenProperties
  <2>6. Len(b) <= Len(q) /\ \A i \in 1 .. Len(b) : q[i] = b[i]
    <3>1. Begins(Together(ms, k), Together(ms, n))
      BY <2>1, TogetherGrows
    <3>2. QED BY <1>1, <2>2, <3>1 DEF Begins
  <2>7. ASSUME NEW i \in 1 .. Len(m) PROVE q[start[k] + i] = m[i]
    <3>1. PICK j : j = Len(a) + i
      OBVIOUS
    <3>2. j \in 1 .. Len(a) + Len(m) /\ j \in 1 .. Len(b) /\ ~(j <= Len(a)) /\ j - Len(a) = i
      BY <2>5, <3>1
    <3>3. q[j] = b[j] /\ b[j] = m[j - Len(a)]
      BY <2>5, <2>6, <3>2
    <3>4. QED BY <2>4, <3>1, <3>2, <3>3
  <2>8. QED BY <2>2, <2>4, <2>5, <2>7
<1>9. QED BY <1>1, <1>4, <1>5, <1>6, <1>7, <1>8 DEF Layout

\* Every token is in one of the messages.
LEMMA LayoutCovers ==
  ASSUME NEW ms, ms \in Seq(Seq(Token)), NEW n \in 0 .. Len(ms), NEW q, NEW start, Layout(ms, n, q, start),
         NEW p \in 1 .. Len(q)
  PROVE  \E k \in 1 .. n : start[k] < p /\ p <= start[k + 1]
<1>1. Len(ms) \in Nat /\ n \in Nat /\ n <= Len(ms) /\ Len(q) \in Nat
  BY LenProperties DEF Layout
<1>2. \A k \in 1 .. n + 1 : start[k] \in Nat
  BY DEF Layout
<1> DEFINE T == {k \in 1 .. n + 1 : p <= start[k]}
<1>3. n + 1 \in T /\ T \subseteq Nat
  BY <1>1 DEF Layout
<1>4. PICK k \in T : \A j \in T : k <= j
  <2> HIDE DEF T
  <2>1. QED BY <1>3, HasLeast
<1>5. k \in 1 .. n + 1 /\ p <= start[k] /\ k # 1
  BY <1>1 DEF Layout
<1>6. k - 1 \in 1 .. n /\ k - 1 \notin T /\ (k - 1) + 1 = k
  <2>1. k - 1 \in 1 .. n /\ (k - 1) + 1 = k
    BY <1>1, <1>5
  <2>2. ~(k <= k - 1)
    BY <1>5
  <2>3. QED BY <1>4, <2>1, <2>2
<1>7. start[k - 1] < p
  BY <1>1, <1>2, <1>6
<1>8. QED BY <1>5, <1>6, <1>7

----------------------------------------------------------------------------
(* The messages of a connection.                                           *)

\* The exchanges are some that a connection may carry.
Talked == talk \in Talks

\* What the exchanges are.
LEMMA TalkType ==
  ASSUME Talked
  PROVE  /\ Len(talk) \in Nat /\ DOMAIN talk = 1 .. Len(talk)
         /\ \A k \in DOMAIN talk : talk[k].sent \in Nat /\ talk[k].answered \in Nat /\ talk[k].chunked \in BOOLEAN
<1>1. talk \in Seq(Exchange)
  BY RecordingAssumption DEF Talked
<1>2. ASSUME NEW k \in DOMAIN talk PROVE talk[k].sent \in Nat /\ talk[k].answered \in Nat /\ talk[k].chunked \in BOOLEAN
  <2>1. talk[k] \in Exchange
    BY <1>1, <1>2, ElementOfSeq
  <2>2. QED BY <2>1 DEF Exchange
<1>3. QED BY <1>1, <1>2, LenProperties

\* The messages that will have been written in one direction.
Messages(d) == [k \in 1 .. Len(talk) |-> Message(d, k)]

\* m is the k-th message in direction d, and b its body.
IsMessage(d, k, m, b) ==
  LET last == d = "responses" /\ talk[k].chunked /\ talk[k].method # "HEAD" IN
  /\ m \in Seq(Token) /\ b \in Seq(Token) /\ Len(m) = 1 + Len(b) + (IF last THEN 1 ELSE 0)
  /\ Len(b) = (IF d = "requests" THEN talk[k].sent ELSE IF talk[k].method = "HEAD" THEN 0 ELSE talk[k].answered)
  /\ m[1] = [msg |-> k, part |-> "head"]
  /\ \A i \in 1 .. Len(b) : m[1 + i] = b[i] /\ b[i].part = (IF d = "responses" /\ talk[k].chunked THEN "chunk" ELSE "body")
  /\ last => m[2 + Len(b)].part = "last"

\* n tokens of one kind.
LEMMA UnitsAre ==
  ASSUME NEW k \in Nat, NEW part \in TokenPart, NEW n \in Nat
  PROVE  Units(k, part, n) \in Seq(Token) /\ Len(Units(k, part, n)) = n
         /\ \A i \in 1 .. n : Units(k, part, n)[i] = [msg |-> k, part |-> part]
BY DEF Units, Token

\* A message is its head, its body and, when chunked, the last chunk.
LEMMA MessageIs ==
  ASSUME Talked, NEW d \in Directions, NEW k \in DOMAIN talk
  PROVE  IsMessage(d, k, Message(d, k), Body(d, k))
<1>1. k \in Nat /\ talk[k].sent \in Nat /\ talk[k].answered \in Nat /\ talk[k].chunked \in BOOLEAN
  BY TalkType
<1>2. PICK b, h : b = Body(d, k) /\ h = Units(k, "head", 1)
  OBVIOUS
<1>3. PICK last \in BOOLEAN : last <=> (d = "responses" /\ talk[k].chunked /\ talk[k].method # "HEAD")
  OBVIOUS
<1>4. PICK z : z = IF last THEN Units(k, "last", 1) ELSE << >>
  OBVIOUS
<1>5. h \in Seq(Token) /\ Len(h) = 1 /\ h[1] = [msg |-> k, part |-> "head"]
  <2>1. "head" \in TokenPart /\ 1 \in Nat
    BY DEF TokenPart
  <2>2. /\ Units(k, "head", 1) \in Seq(Token) /\ Len(Units(k, "head", 1)) = 1
        /\ \A i \in 1 .. 1 : Units(k, "head", 1)[i] = [msg |-> k, part |-> "head"]
    BY <1>1, <2>1, UnitsAre
  <2>3. QED BY <1>2, <2>2
<1>6. z \in Seq(Token) /\ Len(z) = (IF last THEN 1 ELSE 0) /\ (last => z[1].part = "last")
  <2>1. CASE last
    <3>1. z = Units(k, "last", 1)
      BY <1>4, <2>1
    <3>2. z \in Seq(Token) /\ Len(z) = 1 /\ z[1] = [msg |-> k, part |-> "last"]
      <4>1. "last" \in TokenPart /\ 1 \in Nat
        BY DEF TokenPart
      <4>2. /\ Units(k, "last", 1) \in Seq(Token) /\ Len(Units(k, "last", 1)) = 1
            /\ \A i \in 1 .. 1 : Units(k, "last", 1)[i] = [msg |-> k, part |-> "last"]
        BY <1>1, <4>1, UnitsAre
      <4>3. QED BY <3>1, <4>2
    <3>3. QED BY <2>1, <3>2
  <2>2. CASE ~last
    <3>1. z = << >>
      BY <1>4, <2>2
    <3>2. QED BY <2>2, <3>1, EmptySeq
  <2>3. QED BY <2>1, <2>2
<1>7. /\ b \in Seq(Token) /\ Len(b) \in Nat
      /\ Len(b) = (IF d = "requests" THEN talk[k].sent ELSE IF talk[k].method = "HEAD" THEN 0 ELSE talk[k].answered)
      /\ \A i \in 1 .. Len(b) : b[i].part = (IF d = "responses" /\ talk[k].chunked THEN "chunk" ELSE "body")
  <2>1. CASE d = "requests"
    <3>1. b = Units(k, "body", talk[k].sent)
      BY <1>2, <2>1 DEF Body
    <3>2. b \in Seq(Token) /\ Len(b) = talk[k].sent /\ \A i \in 1 .. talk[k].sent : b[i] = [msg |-> k, part |-> "body"]
      <4>1. "body" \in TokenPart /\ talk[k].sent \in Nat
        BY <1>1 DEF TokenPart
      <4>2. /\ Units(k, "body", talk[k].sent) \in Seq(Token) /\ Len(Units(k, "body", talk[k].sent)) = talk[k].sent
            /\ \A i \in 1 .. talk[k].sent : Units(k, "body", talk[k].sent)[i] = [msg |-> k, part |-> "body"]
        BY <1>1, <4>1, UnitsAre
      <4>3. QED BY <3>1, <4>2
    <3>3. QED BY <1>1, <2>1, <3>2
  <2>2. CASE d # "requests" /\ talk[k].method = "HEAD"
    <3>1. b = << >>
      BY <1>2, <2>2 DEF Body
    <3>2. b \in Seq(Token) /\ Len(b) = 0
      BY <3>1, EmptySeq
    <3>3. QED BY <2>2, <3>2
  <2>3. CASE d # "requests" /\ talk[k].method # "HEAD"
    <3>1. PICK part : part = (IF talk[k].chunked THEN "chunk" ELSE "body") /\ part \in TokenPart
      <4>1. (IF talk[k].chunked THEN "chunk" ELSE "body") \in TokenPart
        BY DEF TokenPart
      <4>2. QED BY <4>1
    <3>2. b = Units(k, part, talk[k].answered)
      BY <1>2, <2>3, <3>1 DEF Body
    <3>3. b \in Seq(Token) /\ Len(b) = talk[k].answered /\ \A i \in 1 .. talk[k].answered : b[i] = [msg |-> k, part |-> part]
      <4>1. talk[k].answered \in Nat
        BY <1>1
      <4>2. /\ Units(k, part, talk[k].answered) \in Seq(Token) /\ Len(Units(k, part, talk[k].answered)) = talk[k].answered
            /\ \A i \in 1 .. talk[k].answered : Units(k, part, talk[k].answered)[i] = [msg |-> k, part |-> part]
        BY <1>1, <3>1, <4>1, UnitsAre
      <4>3. QED BY <3>2, <4>2
    <3>4. d = "responses"
      BY <2>3 DEF Directions
    <3>5. \A i \in 1 .. Len(b) : b[i].part = part
      BY <3>3
    <3>6. Len(b) \in Nat /\ b \in Seq(Token)
      BY <1>1, <3>3
    <3>7. QED BY <2>3, <3>1, <3>3, <3>4, <3>5, <3>6
  <2>4. QED BY <2>1, <2>2, <2>3
<1>8. PICK hb : hb = h \o b
  OBVIOUS
<1>9. hb \in Seq(Token) /\ Len(hb) = 1 + Len(b) /\ hb[1] = h[1] /\ \A i \in 1 .. Len(b) : hb[1 + i] = b[i]
  <2>1. /\ hb \in Seq(Token) /\ Len(hb) = Len(h) + Len(b)
        /\ \A i \in 1 .. Len(h) + Len(b) : hb[i] = IF i <= Len(h) THEN h[i] ELSE b[i - Len(h)]
    BY <1>5, <1>7, <1>8, ConcatProperties
  <2>2. PICK nb \in Nat : nb = Len(b)
    BY <1>7
  <2>3. \A i \in 1 .. 1 + nb : hb[i] = IF i <= 1 THEN h[i] ELSE b[i - 1]
    BY <1>5, <2>1, <2>2
  <2>4. hb[1] = h[1]
    BY <2>2, <2>3
  <2>5. ASSUME NEW i \in 1 .. nb PROVE hb[1 + i] = b[i]
    <3>1. 1 + i \in 1 .. 1 + nb /\ ~(1 + i <= 1) /\ (1 + i) - 1 = i
      OBVIOUS
    <3>2. QED BY <2>3, <3>1
  <2>6. QED BY <1>5, <2>1, <2>2, <2>4, <2>5
<1>10. PICK m : m = hb \o z
  OBVIOUS
<1>11. m = Message(d, k)
  <2>1. CASE last
    BY <1>2, <1>3, <1>4, <1>8, <1>10, <2>1 DEF Message
  <2>2. CASE ~last
    BY <1>2, <1>3, <1>4, <1>8, <1>10, <2>2 DEF Message
  <2>3. QED BY <2>1, <2>2
<1>12. /\ m \in Seq(Token) /\ Len(m) = Len(hb) + Len(z)
       /\ \A i \in 1 .. Len(hb) + Len(z) : m[i] = IF i <= Len(hb) THEN hb[i] ELSE z[i - Len(hb)]
  <2>1. hb \in Seq(Token) /\ z \in Seq(Token)
    BY <1>6, <1>9
  <2>2. QED BY <1>10, <2>1, ConcatProperties
<1>13. Len(m) = 1 + Len(b) + (IF last THEN 1 ELSE 0)
  BY <1>6, <1>7, <1>9, <1>12
<1>14. m[1] = h[1] /\ \A i \in 1 .. Len(b) : m[1 + i] = b[i]
  <2>1. ASSUME NEW i \in 0 .. Len(b) PROVE m[1 + i] = hb[1 + i]
    <3>1. PICK nb \in Nat, nz \in Nat : nb = Len(b) /\ nz = Len(z)
      BY <1>6, <1>7
    <3>2. Len(hb) = 1 + nb
      BY <1>9, <3>1
    <3>3. \A j \in 1 .. (1 + nb) + nz : m[j] = IF j <= 1 + nb THEN hb[j] ELSE z[j - (1 + nb)]
      BY <1>12, <3>1, <3>2
    <3>4. 1 + i \in 1 .. (1 + nb) + nz /\ 1 + i <= 1 + nb
      BY <3>1
    <3>5. QED BY <3>3, <3>4
  <2>2. m[1 + 0] = hb[1 + 0] /\ 1 + 0 = 1
    BY <1>7, <2>1
  <2>3. \A i \in 1 .. Len(b) : i \in 0 .. Len(b)
    BY <1>7
  <2>4. QED BY <1>9, <2>1, <2>2, <2>3
<1>15. last => m[2 + Len(b)].part = "last"
  <2>1. SUFFICES ASSUME last PROVE m[2 + Len(b)] = z[1]
    BY <1>6
  <2>2. PICK j : j = 2 + Len(b)
    OBVIOUS
  <2>3. j \in 1 .. Len(hb) + Len(z) /\ ~(j <= Len(hb)) /\ j - Len(hb) = 1
    <3>1. PICK nb \in Nat : nb = Len(b)
      BY <1>7
    <3>2. Len(hb) = 1 + nb /\ Len(z) = 1 /\ j = 2 + nb
      BY <1>6, <1>9, <2>1, <2>2, <3>1
    <3>3. QED BY <3>2
  <2>4. QED BY <1>12, <2>2, <2>3
<1>16. IsMessage(d, k, m, b)
  <2>1. \A i \in 1 .. Len(b) : m[1 + i] = b[i] /\ b[i].part = (IF d = "responses" /\ talk[k].chunked THEN "chunk" ELSE "body")
    BY <1>7, <1>14
  <2>2. Len(m) = 1 + Len(b) + (IF d = "responses" /\ talk[k].chunked /\ talk[k].method # "HEAD" THEN 1 ELSE 0)
    BY <1>3, <1>13
  <2>3. m[1] = [msg |-> k, part |-> "head"]
    BY <1>5, <1>14
  <2>4. d = "responses" /\ talk[k].chunked /\ talk[k].method # "HEAD" => m[2 + Len(b)].part = "last"
    BY <1>3, <1>15
  <2>5. QED BY <1>7, <1>12, <2>1, <2>2, <2>3, <2>4 DEF IsMessage
<1>17. QED BY <1>2, <1>11, <1>16

----------------------------------------------------------------------------
(* Reading one message: what is read of its body is what was written.      *)

\* A part of some tokens is what another sequence begins with, when they agree.
LEMMA PartBegins ==
  ASSUME NEW data \in Seq(Token), NEW b \in Seq(Token), NEW at \in Nat \ {0}, NEW e \in Nat, e <= Len(data),
         at <= e => e - at + 1 <= Len(b), \A i \in 1 .. Len(b) : at + i - 1 <= Len(data) => data[at + i - 1] = b[i]
  PROVE  SubSeq(data, at, e) \in Seq(Token) /\ Begins(SubSeq(data, at, e), b)
<1>1. PICK p : p = SubSeq(data, at, e)
  OBVIOUS
<1>2. PICK m \in Nat, nb \in Nat : m = Len(data) /\ nb = Len(b)
  BY LenProperties
<1>3. /\ p \in Seq(Token) /\ Len(p) = (IF at <= e THEN e - at + 1 ELSE 0)
      /\ \A i \in 1 .. e - at + 1 : p[i] = data[at + i - 1]
  BY <1>1, PartOf
<1>4. Len(p) <= nb
  BY <1>2, <1>3
<1>5. ASSUME NEW i \in 1 .. Len(p) PROVE b[i] = p[i]
  <2>1. i \in 1 .. e - at + 1 /\ i \in 1 .. nb /\ at + i - 1 <= m
    BY <1>2, <1>3, <1>4
  <2>2. QED BY <1>2, <1>3, <2>1
<1>6. QED BY <1>1, <1>2, <1>3, <1>4, <1>5 DEF Begins

\* A body of known length ends there, or is not there to its end.
LEMMA SizedIs ==
  ASSUME NEW data \in Seq(Token), NEW at \in Nat \ {0}, NEW n \in Nat
  PROVE  /\ Sized(data, at, n).at = at + n /\ Sized(data, at, n).body \in Seq(Token)
         /\ \A b \in Seq(Token) :
              n = Len(b) /\ (\A i \in 1 .. Len(b) : at + i - 1 <= Len(data) => data[at + i - 1] = b[i])
              => Begins(Sized(data, at, n).body, b)
<1>1. PICK m \in Nat : m = Len(data)
  BY LenProperties
<1>2. PICK e : e = IF at + n - 1 < m THEN at + n - 1 ELSE m
  OBVIOUS
<1>3. e \in Nat /\ e <= m /\ e <= at + n - 1
  BY <1>1, <1>2
<1>4. Sized(data, at, n) = [at |-> at + n, body |-> SubSeq(data, at, e)]
  BY <1>1, <1>2 DEF Sized
<1>5. Sized(data, at, n).at = at + n /\ Sized(data, at, n).body = SubSeq(data, at, e)
  <2>1. PICK r, x, y : r = Sized(data, at, n) /\ x = at + n /\ y = SubSeq(data, at, e)
    OBVIOUS
  <2>2. r = [at |-> x, body |-> y]
    BY <1>4, <2>1, Zenon
  <2>3. r.at = x /\ r.body = y
    BY <2>2
  <2>4. QED BY <2>1, <2>3
<1>6. SubSeq(data, at, e) \in Seq(Token)
  BY <1>1, <1>3, PartOf
<1>7. ASSUME NEW b \in Seq(Token), n = Len(b), \A i \in 1 .. Len(b) : at + i - 1 <= Len(data) => data[at + i - 1] = b[i]
      PROVE  Begins(SubSeq(data, at, e), b)
  <2>1. e - at + 1 <= Len(b)
    BY <1>3, <1>7
  <2>2. QED BY <1>1, <1>3, <1>7, <2>1, PartBegins
<1>8. QED BY <1>5, <1>6, <1>7

\* The chunks end with the last chunk, or are not there to their end.
LEMMA ChunksAre ==
  ASSUME NEW data \in Seq(Token), NEW at \in Nat \ {0}, NEW b \in Seq(Token),
         \A i \in 1 .. Len(b) : at + i - 1 <= Len(data) => data[at + i - 1] = b[i] /\ b[i].part = "chunk",
         at + Len(b) <= Len(data) => data[at + Len(b)].part = "last"
  PROVE  /\ Chunks(data, at).at \in Nat \ {0} /\ Chunks(data, at).body \in Seq(Token)
         /\ Begins(Chunks(data, at).body, b)
         /\ Chunks(data, at).at > Len(data) \/ Chunks(data, at).at = at + Len(b) + 1
<1>1. PICK m \in Nat, nb \in Nat : m = Len(data) /\ nb = Len(b)
  BY LenProperties
<1>2. PICK c : c = Chunks(data, at)
  OBVIOUS
<1>3. PICK after : after = {i \in at .. m : data[i].part # "chunk"}
  OBVIOUS
<1>4. ASSUME NEW i \in at .. m, i < at + nb PROVE i \notin after
  <2>1. PICK j : j = (i - at) + 1
    OBVIOUS
  <2>2. j \in 1 .. nb /\ at + j - 1 = i /\ i <= m
    BY <1>4, <2>1
  <2>3. data[i].part = "chunk"
    BY <1>1, <2>2
  <2>4. QED BY <1>3, <2>3
<1>5. CASE after = {}
  <2>1. c = [at |-> m + 1, body |-> SubSeq(data, at, m)]
    BY <1>1, <1>2, <1>3, <1>5 DEF Chunks
  <2>2. m < at + nb
    <3>1. SUFFICES ASSUME at + nb <= m PROVE FALSE
      BY <1>1
    <3>2. at + nb \in at .. m
      BY <1>1, <3>1
    <3>3. data[at + nb].part = "last"
      BY <1>1, <3>1
    <3>4. data[at + nb].part # "chunk"
      BY <3>3
    <3>5. QED BY <1>3, <1>5, <3>2, <3>4
  <2>3. at <= m => m - at + 1 <= nb
    BY <1>1, <2>2
  <2>4. SubSeq(data, at, m) \in Seq(Token) /\ Begins(SubSeq(data, at, m), b)
    BY <1>1, <2>3, PartBegins
  <2>5. c.at = m + 1 /\ c.body = SubSeq(data, at, m)
    BY <2>1
  <2>6. QED BY <1>1, <1>2, <2>4, <2>5
<1>6. CASE after # {}
  <2>1. PICK stop : stop = CHOOSE i \in after : \A j \in after : i <= j
    OBVIOUS
  <2>2. stop \in after /\ \A j \in after : stop <= j
    <3>1. after \subseteq Nat
      BY <1>3
    <3>2. \E i \in after : \A j \in after : i <= j
      BY <1>6, <3>1, HasLeast
    <3>3. QED BY <2>1, <3>2
  <2>3. stop \in at .. m /\ ~(stop < at + nb)
    BY <1>3, <1>4, <2>2
  <2>4. at + nb \in after
    <3>1. at + nb \in at .. m
      BY <1>1, <2>3
    <3>2. data[at + nb].part = "last"
      BY <1>1, <3>1
    <3>3. data[at + nb].part # "chunk"
      BY <3>2
    <3>4. QED BY <1>3, <3>1, <3>3
  <2>5. stop = at + nb
    BY <1>1, <2>2, <2>3, <2>4
  <2>6. data[stop].part = "last"
    BY <1>1, <2>3, <2>5
  <2>7. c = [at |-> stop + 1, body |-> SubSeq(data, at, stop - 1)]
    BY <1>1, <1>2, <1>3, <1>6, <2>1, <2>6 DEF Chunks
  <2>8. stop - 1 \in Nat /\ stop - 1 <= m /\ (at <= stop - 1 => (stop - 1) - at + 1 <= nb)
    BY <1>1, <2>3, <2>5
  <2>9. SubSeq(data, at, stop - 1) \in Seq(Token) /\ Begins(SubSeq(data, at, stop - 1), b)
    BY <1>1, <2>8, PartBegins
  <2>10. c.at = stop + 1 /\ c.body = SubSeq(data, at, stop - 1)
    BY <2>7
  <2>11. QED BY <1>1, <1>2, <2>3, <2>5, <2>9, <2>10
<1>7. QED BY <1>5, <1>6

\* All of them are messages.
LEMMA MessagesAre ==
  ASSUME Talked, NEW d \in Directions
  PROVE  Messages(d) \in Seq(Seq(Token)) /\ Len(Messages(d)) = Len(talk)
         /\ \A k \in 1 .. Len(talk) : Messages(d)[k] = Message(d, k)
<1>1. PICK t \in Nat : t = Len(talk) /\ DOMAIN talk = 1 .. t
  BY TalkType
<1>2. PICK ms : ms = [k \in 1 .. t |-> Message(d, k)]
  OBVIOUS
<1>3. ASSUME NEW k \in 1 .. t PROVE Message(d, k) \in Seq(Token)
  BY <1>1, MessageIs DEF IsMessage
<1>4. ms \in Seq(Seq(Token)) /\ Len(ms) = t /\ \A k \in 1 .. t : ms[k] = Message(d, k)
  BY <1>2, <1>3
<1>5. QED BY <1>1, <1>2, <1>4 DEF Messages

\* How far a head is from what was written, in a prefix of the stream.
Reads(d, k, b, data, head, next) ==
  /\ \A i \in 1 .. Len(b) : head + i <= Len(data) =>
        data[head + i] = b[i] /\ b[i].part = (IF d = "responses" /\ talk[k].chunked THEN "chunk" ELSE "body")
  /\ IF d = "responses" /\ talk[k].chunked /\ talk[k].method # "HEAD"
     THEN next = head + Len(b) + 2 /\ (head + Len(b) + 1 <= Len(data) => data[head + Len(b) + 1].part = "last")
     ELSE next = head + Len(b) + 1

\* A prefix of the stream, about the k-th message.
Situated(d, k, start, data) ==
  /\ k \in DOMAIN talk /\ start[k] \in Nat /\ start[k + 1] \in Nat /\ start[k] + 1 <= start[k + 1]
  /\ start[k] + 1 <= Len(data) => data[start[k] + 1] = [msg |-> k, part |-> "head"]
  /\ \A i \in 2 .. start[k + 1] - start[k] : start[k] + i <= Len(data) => data[start[k] + i].part # "head"
  /\ Reads(d, k, Body(d, k), data, start[k] + 1, start[k + 1] + 1)

\* What there is of the stream from its start has each message in its place.
LEMMA ReadsStream ==
  ASSUME Talked, NEW d \in Directions, NEW n \in 0 .. Len(talk), NEW q, NEW start, Layout(Messages(d), n, q, start),
         NEW data \in Seq(Token), Begins(data, q), NEW k \in 1 .. n
  PROVE  Situated(d, k, start, data)
<1>1. k \in DOMAIN talk /\ k \in 1 .. Len(talk) /\ k \in 1 .. n + 1 /\ k + 1 \in 1 .. n + 1 /\ n \in Nat
  BY TalkType
<1>2. start[k] \in Nat /\ start[k + 1] \in Nat
  BY <1>1 DEF Layout
<1>3. PICK b, ms : b = Body(d, k) /\ ms = Message(d, k)
  OBVIOUS
<1>4. IsMessage(d, k, ms, b)
  BY <1>1, <1>3, MessageIs
<1>5. Messages(d)[k] = ms
  BY <1>1, <1>3, MessagesAre
<1>6. PICK s \in Nat : s = start[k]
  BY <1>2
<1>7. start[k + 1] = s + Len(ms) /\ \A i \in 1 .. Len(ms) : q[s + i] = ms[i]
  BY <1>5, <1>6 DEF Layout
<1>8. PICK nb \in Nat, nm \in Nat, m \in Nat : nb = Len(b) /\ nm = Len(ms) /\ m = Len(data)
  BY <1>4, LenProperties DEF IsMessage
<1>9. PICK last \in BOOLEAN : last <=> (d = "responses" /\ talk[k].chunked /\ talk[k].method # "HEAD")
  OBVIOUS
<1>10. /\ nm = 1 + nb + (IF last THEN 1 ELSE 0) /\ ms[1] = [msg |-> k, part |-> "head"]
       /\ \A i \in 1 .. nb : ms[1 + i] = b[i] /\ b[i].part = (IF d = "responses" /\ talk[k].chunked THEN "chunk" ELSE "body")
       /\ last => ms[2 + nb].part = "last"
       /\ b \in Seq(Token)
  BY <1>4, <1>8, <1>9 DEF IsMessage
<1>11. ASSUME NEW i \in 1 .. nm, s + i <= m PROVE data[s + i] = ms[i]
  <2>1. s + i \in 1 .. Len(data)
    BY <1>8, <1>11
  <2>2. data[s + i] = q[s + i]
    BY <2>1 DEF Begins
  <2>3. QED BY <1>7, <1>8, <2>2
<1>12. s + 1 <= m => data[s + 1] = [msg |-> k, part |-> "head"]
  <2>1. 1 \in 1 .. nm
    BY <1>10
  <2>2. QED BY <1>10, <1>11, <2>1
<1>13. ASSUME NEW i \in 1 .. nb, (s + 1) + i <= m PROVE data[(s + 1) + i] = b[i]
  <2>1. 1 + i \in 1 .. nm /\ s + (1 + i) <= m /\ s + (1 + i) = (s + 1) + i
    <3>1. nm >= 1 + nb
      BY <1>10
    <3>2. QED BY <1>13, <3>1
  <2>2. QED BY <1>10, <1>11, <2>1
<1>14. last /\ (s + 1) + nb + 1 <= m => data[(s + 1) + nb + 1].part = "last"
  <2>1. SUFFICES ASSUME last, (s + 1) + nb + 1 <= m PROVE data[(s + 1) + nb + 1].part = "last"
    OBVIOUS
  <2>2. 2 + nb \in 1 .. nm /\ s + (2 + nb) <= m /\ s + (2 + nb) = (s + 1) + nb + 1
    BY <1>10, <2>1
  <2>3. QED BY <1>10, <1>11, <2>1, <2>2
<1>15. Reads(d, k, b, data, s + 1, start[k + 1] + 1)
  <2>1. last => start[k + 1] + 1 = (s + 1) + nb + 2
    <3>1. last => nm = 2 + nb
      BY <1>10
    <3>2. start[k + 1] = s + nm
      BY <1>7, <1>8
    <3>3. QED BY <3>1, <3>2
  <2>2. ~last => start[k + 1] + 1 = (s + 1) + nb + 1
    BY <1>7, <1>8, <1>10
  <2>3. \A i \in 1 .. nb : (s + 1) + i <= m =>
        data[(s + 1) + i] = b[i] /\ b[i].part = (IF d = "responses" /\ talk[k].chunked THEN "chunk" ELSE "body")
    BY <1>10, <1>13
  <2>4. QED BY <1>8, <1>9, <1>14, <2>1, <2>2, <2>3 DEF Reads
<1>16. ASSUME NEW i \in 2 .. start[k + 1] - start[k], start[k] + i <= Len(data) PROVE data[start[k] + i].part # "head"
  <2>1. i \in 2 .. nm /\ i \in 1 .. nm /\ s + i <= m
    BY <1>6, <1>7, <1>8, <1>16
  <2>2. data[s + i] = ms[i]
    BY <1>11, <2>1
  <2>3. PICK j : j = i - 1
    OBVIOUS
  <2>4. CASE j <= nb
    <3>1. j \in 1 .. nb /\ 1 + j = i
      BY <2>1, <2>3, <2>4
    <3>2. ms[i].part = (IF d = "responses" /\ talk[k].chunked THEN "chunk" ELSE "body")
      BY <1>10, <3>1
    <3>3. ms[i].part # "head"
      BY <3>2
    <3>4. QED BY <1>6, <2>2, <3>3
  <2>5. CASE ~(j <= nb)
    <3>1. last /\ i = 2 + nb
      BY <1>10, <2>1, <2>3, <2>5
    <3>2. ms[i].part = "last"
      BY <1>10, <3>1
    <3>3. ms[i].part # "head"
      BY <3>2
    <3>4. QED BY <1>6, <2>2, <3>3
  <2>6. QED BY <2>4, <2>5
<1>17. start[k] + 1 <= start[k + 1]
  BY <1>6, <1>7, <1>8, <1>10
<1>18. QED BY <1>1, <1>2, <1>3, <1>6, <1>8, <1>12, <1>15, <1>16, <1>17 DEF Situated

\* A message of the stream is read without an error, and rightly if the
\* reader knows whether it answers a HEAD.
LEMMA PayloadIs ==
  ASSUME Talked, NEW d \in Directions, NEW k \in DOMAIN talk, ~ChunkedHead(k), NEW data \in Seq(Token),
         NEW head \in Nat \ {0}, NEW next \in Nat, Reads(d, k, Body(d, k), data, head, next), NEW isHead \in BOOLEAN
  PROVE  /\ Payload(d, data, head + 1, k, isHead).at \in Nat \ {0}
         /\ Payload(d, data, head + 1, k, isHead).body \in Seq(Token)
         /\ d = "requests" \/ (isHead <=> talk[k].method = "HEAD") =>
              /\ Begins(Payload(d, data, head + 1, k, isHead).body, Body(d, k))
              /\ \/ Payload(d, data, head + 1, k, isHead).at > Len(data)
                 \/ Payload(d, data, head + 1, k, isHead).at = next
<1>1. PICK m \in Nat : m = Len(data)
  BY LenProperties
<1>2. PICK b : b = Body(d, k)
  OBVIOUS
<1>3. b \in Seq(Token) /\ Len(b) = (IF d = "requests" THEN talk[k].sent ELSE IF talk[k].method = "HEAD" THEN 0 ELSE talk[k].answered)
  BY <1>2, MessageIs DEF IsMessage
<1>4. PICK nb \in Nat : nb = Len(b)
  BY <1>3, LenProperties
<1>5. talk[k].sent \in Nat /\ talk[k].answered \in Nat /\ talk[k].chunked \in BOOLEAN
  BY TalkType
<1>6. PICK p : p = Payload(d, data, head + 1, k, isHead)
  OBVIOUS
<1>7. head + 1 \in Nat \ {0} /\ \A i \in 1 .. nb : (head + 1) + i - 1 = head + i
  OBVIOUS
<1>8. \A i \in 1 .. Len(b) : (head + 1) + i - 1 <= Len(data) => data[(head + 1) + i - 1] = b[i]
  BY <1>2, <1>4, <1>7 DEF Reads
<1>9. ASSUME NEW n \in Nat, p = Sized(data, head + 1, n)
      PROVE  /\ p.at \in Nat \ {0} /\ p.body \in Seq(Token)
             /\ n = nb => Begins(p.body, b) /\ p.at = head + nb + 1
  <2>1. p.at = (head + 1) + n /\ p.body \in Seq(Token)
    BY <1>7, <1>9, SizedIs
  <2>2. n = Len(b) => Begins(p.body, b)
    <3>1. PICK z : z = Sized(data, head + 1, n)
      OBVIOUS
    <3>2. n = Len(b) /\ (\A i \in 1 .. Len(b) : (head + 1) + i - 1 <= Len(data) => data[(head + 1) + i - 1] = b[i])
          => Begins(z.body, b)
      <4>1. \A y \in Seq(Token) :
              n = Len(y) /\ (\A i \in 1 .. Len(y) : (head + 1) + i - 1 <= Len(data) => data[(head + 1) + i - 1] = y[i])
              => Begins(Sized(data, head + 1, n).body, y)
        BY <1>7, SizedIs
      <4>2. QED BY <1>3, <3>1, <4>1, Zenon
    <3>3. QED BY <1>8, <1>9, <3>1, <3>2
  <2>3. QED BY <1>4, <2>1, <2>2
<1>10. CASE d = "responses" /\ talk[k].chunked
  <2>1. talk[k].method # "HEAD"
    BY <1>10 DEF ChunkedHead
  <2>2. p = Chunks(data, head + 1)
    BY <1>6, <1>10 DEF Payload
  <2>3. next = head + nb + 2 /\ (head + nb + 1 <= m => data[head + nb + 1].part = "last")
    BY <1>1, <1>2, <1>4, <1>10, <2>1 DEF Reads
  <2>4. \A i \in 1 .. Len(b) : (head + 1) + i - 1 <= Len(data) => data[(head + 1) + i - 1] = b[i] /\ b[i].part = "chunk"
    BY <1>2, <1>4, <1>7, <1>10 DEF Reads
  <2>5. (head + 1) + Len(b) <= Len(data) => data[(head + 1) + Len(b)].part = "last"
    <3>1. (head + 1) + nb = head + nb + 1
      OBVIOUS
    <3>2. QED BY <1>1, <1>4, <2>3, <3>1
  <2>6. /\ p.at \in Nat \ {0} /\ p.body \in Seq(Token) /\ Begins(p.body, b)
        /\ p.at > Len(data) \/ p.at = (head + 1) + Len(b) + 1
    BY <1>3, <1>7, <2>2, <2>4, <2>5, ChunksAre
  <2>7. (head + 1) + Len(b) + 1 = next
    BY <1>4, <2>3
  <2>8. QED BY <1>2, <1>6, <2>6, <2>7
<1>11. CASE d = "requests"
  <2>1. p = Sized(data, head + 1, talk[k].sent) /\ nb = talk[k].sent
    BY <1>3, <1>4, <1>6, <1>11 DEF Payload
  <2>2. next = head + nb + 1
    BY <1>2, <1>4, <1>11 DEF Reads
  <2>3. QED BY <1>2, <1>5, <1>6, <1>9, <2>1, <2>2
<1>12. CASE d = "responses" /\ ~talk[k].chunked
  <2>1. PICK n : n = IF isHead THEN 0 ELSE talk[k].answered
    OBVIOUS
  <2>2. n \in Nat
    BY <1>5, <2>1
  <2>3. p = Sized(data, head + 1, n)
    BY <1>6, <1>12, <2>1 DEF Payload
  <2>4. next = head + nb + 1
    BY <1>2, <1>4, <1>12 DEF Reads
  <2>5. (isHead <=> talk[k].method = "HEAD") => n = nb
    BY <1>3, <1>4, <1>12, <2>1
  <2>6. d # "requests"
    BY <1>12
  <2>7. QED BY <1>2, <1>6, <1>9, <2>2, <2>3, <2>4, <2>5, <2>6
<1>13. QED BY <1>5, <1>10, <1>11, <1>12 DEF Directions

----------------------------------------------------------------------------
(* Reading a stream, or what there is of it from its start.                *)

Msg == [msg : Nat, clean : BOOLEAN, body : Seq(Token)]

\* The i-th message that was read is the i-th that was written.
IsReal(d, i, m) == m.msg = i /\ m.clean /\ Begins(m.body, Body(d, i))

\* After some messages: those up to the limit are real, and the reader is
\* where the next one begins, or beyond what there is.
Reading(d, n, start, data, limit, acc) ==
  /\ acc.ok /\ acc.off \in Nat \ {0} /\ acc.msgs \in Seq(Msg)
  /\ \A i \in 1 .. Len(acc.msgs) : i <= limit => i <= n /\ IsReal(d, i, acc.msgs[i])
  /\ Len(acc.msgs) < limit =>
       acc.off > Len(data) \/ (Len(acc.msgs) + 1 <= n + 1 /\ acc.off = start[Len(acc.msgs) + 1] + 1)

\* The reader knows of the messages up to the limit which answer a HEAD.
Knows(d, n, heads, limit) ==
  d = "requests" \/ \A i \in 1 .. n : i <= limit => ((i <= Len(heads) /\ heads[i]) <=> talk[i].method = "HEAD")

\* One more message is read as it was written.
LEMMA ReadOne ==
  ASSUME Talked, \A k \in DOMAIN talk : ~ChunkedHead(k), NEW d \in Directions, NEW n \in 0 .. Len(talk),
         NEW q, NEW start, Layout(Messages(d), n, q, start), NEW data \in Seq(Token), Begins(data, q),
         NEW limit \in Nat, NEW heads, Knows(d, n, heads, limit), NEW acc, Reading(d, n, start, data, limit, acc)
  PROVE  Reading(d, n, start, data, limit, ParseOne(d, data, heads, acc))
<1>1. PICK m \in Nat, N \in Nat : m = Len(data) /\ N = Len(acc.msgs)
  BY LenProperties DEF Reading
<1>2. PICK after, idx : after = {i \in acc.off .. m : data[i].part = "head"} /\ idx = N + 1
  OBVIOUS
<1>3. n \in Nat /\ Len(talk) \in Nat /\ n <= Len(talk)
  BY TalkType
<1>7. ASSUME NEW k \in 1 .. n PROVE Situated(d, k, start, data)
  BY ReadsStream
<1>4. CASE after = {}
  <2>1. ParseOne(d, data, heads, acc) = acc
    BY <1>1, <1>2, <1>4 DEF ParseOne
  <2>2. QED BY <2>1
<1>5. CASE after # {}
  <2>1. PICK h : h = CHOOSE i \in after : \A j \in after : i <= j
    OBVIOUS
  <2>2. h \in after /\ \A j \in after : h <= j
    <3>1. after \subseteq Nat
      BY <1>2 DEF Reading
    <3>2. \E i \in after : \A j \in after : i <= j
      BY <1>5, <3>1, HasLeast
    <3>3. QED BY <2>1, <3>2
  <2>3. h \in Nat \ {0} /\ acc.off <= h /\ h <= m /\ data[h].part = "head" /\ acc.off \in Nat \ {0}
    BY <1>2, <2>2 DEF Reading
  <2>4. h \in 1 .. Len(q) /\ q \in Seq(Token) /\ m <= Len(q) /\ Len(q) \in Nat
    BY <1>1, <2>3, LenProperties DEF Begins, Layout
  <2>5. PICK k \in 1 .. n : start[k] < h /\ h <= start[k + 1]
    <3>1. Messages(d) \in Seq(Seq(Token)) /\ n \in 0 .. Len(Messages(d))
      BY MessagesAre
    <3>2. QED BY <2>4, <3>1, LayoutCovers
  <2>6. /\ k \in DOMAIN talk /\ start[k] \in Nat /\ start[k + 1] \in Nat
        /\ start[k] + 1 <= Len(data) => data[start[k] + 1] = [msg |-> k, part |-> "head"]
        /\ \A i \in 2 .. start[k + 1] - start[k] : start[k] + i <= Len(data) => data[start[k] + i].part # "head"
        /\ Reads(d, k, Body(d, k), data, start[k] + 1, start[k + 1] + 1)
    BY <1>7 DEF Situated
  <2>7. h = start[k] + 1
    <3>1. SUFFICES ASSUME h # start[k] + 1 PROVE FALSE
      OBVIOUS
    <3>2. h - start[k] \in 2 .. start[k + 1] - start[k] /\ start[k] + (h - start[k]) = h
      <4>1. PICK a \in Nat, b \in Nat : a = start[k] /\ b = start[k + 1]
        BY <2>6
      <4>2. h \in Nat /\ a < h /\ h <= b /\ h # a + 1
        BY <2>3, <2>5, <3>1, <4>1
      <4>3. h - a \in 2 .. b - a /\ a + (h - a) = h
        BY <4>2
      <4>4. QED BY <4>1, <4>3
    <3>3. data[h].part # "head"
      BY <1>1, <2>3, <2>6, <3>2
    <3>4. QED BY <2>3, <3>3
  <2>8. data[h] = [msg |-> k, part |-> "head"]
    BY <1>1, <2>3, <2>6, <2>7
  <2>9. PICK isHead \in BOOLEAN : isHead = (idx <= Len(heads) /\ heads[idx])
    OBVIOUS
  <2>10. PICK read : read = Payload(d, data, h + 1, k, isHead)
    OBVIOUS
  <2>11. /\ read.at \in Nat \ {0} /\ read.body \in Seq(Token)
         /\ d = "requests" \/ (isHead <=> talk[k].method = "HEAD") =>
              Begins(read.body, Body(d, k)) /\ (read.at > m \/ read.at = start[k + 1] + 1)
    <3>1. ~ChunkedHead(k) /\ h \in Nat \ {0} /\ start[k + 1] + 1 \in Nat /\ Reads(d, k, Body(d, k), data, h, start[k + 1] + 1)
      BY <2>3, <2>6, <2>7
    <3>2. QED BY <1>1, <2>6, <2>10, <3>1, PayloadIs
  <2>12. PICK c \in BOOLEAN : c = (h = acc.off)
    OBVIOUS
  <2>24. PICK e : e = [msg |-> k, clean |-> c, body |-> read.body]
    OBVIOUS
  <2>13. e \in Msg /\ e.msg = k /\ e.body = read.body /\ (e.clean <=> h = acc.off)
    <3>1. k \in Nat /\ read.body \in Seq(Token)
      BY <1>3, <2>11
    <3>2. e \in Msg /\ e.msg = k /\ e.body = read.body /\ e.clean = c
      BY <2>24, <3>1 DEF Msg
    <3>3. QED BY <2>12, <3>2
  <2>14. PICK res : res = ParseOne(d, data, heads, acc)
    OBVIOUS
  <2>15. res = [ok |-> TRUE, off |-> read.at, msgs |-> Append(acc.msgs, e)]
    <3>1. acc.ok /\ data[h].msg = k /\ read.at # 0
      BY <2>8, <2>11 DEF Reading
    <3>2. QED BY <1>1, <1>2, <1>5, <2>1, <2>9, <2>10, <2>12, <2>24, <2>14, <3>1 DEF ParseOne
  <2>16. PICK old, new : old = acc.msgs /\ new = Append(acc.msgs, e)
    OBVIOUS
  <2>17. new \in Seq(Msg) /\ Len(new) = N + 1 /\ new[N + 1] = e /\ \A i \in 1 .. N : new[i] = old[i]
    BY <1>1, <2>13, <2>16 DEF Reading
  <2>18. res.ok /\ res.off = read.at /\ res.msgs = new
    BY <2>15, <2>16
  <2>19. N < limit => k = N + 1 /\ h = acc.off /\ (d = "requests" \/ (isHead <=> talk[k].method = "HEAD"))
    <3>1. SUFFICES ASSUME N < limit
                   PROVE  k = N + 1 /\ h = acc.off /\ (d = "requests" \/ (isHead <=> talk[k].method = "HEAD"))
      OBVIOUS
    <3>2. N + 1 <= n + 1 /\ acc.off = start[N + 1] + 1
      BY <1>1, <2>3, <3>1 DEF Reading
    <3>3. N + 1 \in 1 .. n
      <4>1. SUFFICES ASSUME N + 1 = n + 1 PROVE FALSE
        BY <1>3, <3>2
      <4>2. start[N + 1] = Len(q)
        BY <4>1 DEF Layout
      <4>3. QED BY <2>3, <2>4, <3>2, <4>2
    <3>4. /\ start[N + 1] \in Nat
          /\ start[N + 1] + 1 <= Len(data) => data[start[N + 1] + 1] = [msg |-> N + 1, part |-> "head"]
      BY <3>3, <1>7 DEF Situated
    <3>5. data[acc.off] = [msg |-> N + 1, part |-> "head"] /\ acc.off \in acc.off .. m
      BY <1>1, <2>3, <3>2, <3>4
    <3>6. data[acc.off].part = "head" /\ data[acc.off].msg = N + 1
      BY <3>5
    <3>7. acc.off \in after
      BY <1>2, <3>5, <3>6
    <3>8. h = acc.off
      BY <2>2, <2>3, <3>7
    <3>9. k = N + 1
      <4>1. data[h].msg = k
        BY <2>8
      <4>2. QED BY <3>6, <3>8, <4>1
    <3>10. d = "requests" \/ (isHead <=> talk[k].method = "HEAD")
      <4>1. idx = k /\ k <= limit
        BY <1>2, <3>1, <3>9
      <4>2. QED BY <2>9, <4>1 DEF Knows
    <3>11. QED BY <3>8, <3>9, <3>10
  <2>20. ASSUME NEW i \in 1 .. N + 1, i <= limit PROVE i <= n /\ IsReal(d, i, new[i])
    <3>1. CASE i <= N
      <4>1. i \in 1 .. N
        BY <3>1
      <4>2. i <= n /\ IsReal(d, i, old[i])
        BY <1>1, <2>16, <2>20, <4>1 DEF Reading
      <4>3. QED BY <2>17, <4>1, <4>2
    <3>2. CASE i = N + 1
      <4>1. k = i /\ e.clean /\ Begins(e.body, Body(d, k)) /\ e.msg = k
        BY <2>11, <2>13, <2>19, <2>20, <3>2
      <4>2. new[i] = e
        BY <2>17, <3>2
      <4>3. QED BY <1>3, <4>1, <4>2 DEF IsReal
    <3>3. QED BY <3>1, <3>2
  <2>21. N + 1 < limit => read.at > m \/ ((N + 1) + 1 <= n + 1 /\ read.at = start[(N + 1) + 1] + 1)
    BY <1>3, <2>11, <2>19
  <2>22. Reading(d, n, start, data, limit, res)
    BY <1>1, <2>11, <2>17, <2>18, <2>20, <2>21 DEF Reading
  <2>23. QED BY <2>14, <2>22
<1>6. QED BY <1>4, <1>5

\* The reader after each number of messages.
Unread == [ok |-> TRUE, off |-> 1, msgs |-> << >>]
Readers(d, data, heads, L, f) ==
  f = [n \in 0 .. L |-> IF n = 0 THEN Unread ELSE ParseOne(d, data, heads, f[n - 1])]

\* There is such a function.
LEMMA ReadersExist ==
  ASSUME NEW d, NEW data, NEW heads, NEW L \in Nat
  PROVE  \E f : Readers(d, data, heads, L, f)
<1> DEFINE S == {l \in Nat : \E f : Readers(d, data, heads, l, f)}
<1>1. 0 \in S
  <2>1. PICK f : f = [n \in 0 .. 0 |-> Unread]
    OBVIOUS
  <2>2. \A n \in 0 .. 0 : n = 0
    OBVIOUS
  <2>3. f = [n \in 0 .. 0 |-> IF n = 0 THEN Unread ELSE ParseOne(d, data, heads, f[n - 1])]
    BY <2>1, <2>2
  <2>4. Readers(d, data, heads, 0, f)
    BY <2>3 DEF Readers
  <2>5. QED BY <2>4
<1>2. ASSUME NEW i \in 0 .. L - 1, i \in S PROVE i + 1 \in S
  <2>1. PICK f : Readers(d, data, heads, i, f)
    BY <1>2
  <2>2. PICK g : g = [n \in 0 .. i + 1 |-> IF n <= i THEN f[n] ELSE ParseOne(d, data, heads, f[i])]
    OBVIOUS
  <2>3. ASSUME NEW n \in 0 .. i + 1 PROVE g[n] = IF n = 0 THEN Unread ELSE ParseOne(d, data, heads, g[n - 1])
    <3>1. CASE n = i + 1
      <4>1. n \in 0 .. i + 1 /\ ~(n <= i) /\ n # 0 /\ n - 1 = i /\ i \in 0 .. i + 1 /\ i <= i
        BY <1>2, <3>1
      <4>2. g[n] = ParseOne(d, data, heads, f[i]) /\ g[i] = f[i]
        BY <2>2, <4>1
      <4>3. QED BY <4>1, <4>2
    <3>2. CASE n # i + 1
      <4>1. n \in 0 .. i /\ n <= i /\ (n # 0 => n - 1 \in 0 .. i + 1 /\ n - 1 <= i)
        BY <1>2, <3>2
      <4>2. g[n] = f[n] /\ (n # 0 => g[n - 1] = f[n - 1])
        BY <2>2, <4>1
      <4>3. f[n] = IF n = 0 THEN Unread ELSE ParseOne(d, data, heads, f[n - 1])
        BY <2>1, <4>1 DEF Readers
      <4>4. QED BY <4>2, <4>3
    <3>3. QED BY <3>1, <3>2
  <2>4. g = [n \in 0 .. i + 1 |-> IF n = 0 THEN Unread ELSE ParseOne(d, data, heads, g[n - 1])]
    <3>1. PICK h : h = [n \in 0 .. i + 1 |-> IF n = 0 THEN Unread ELSE ParseOne(d, data, heads, g[n - 1])]
      OBVIOUS
    <3>2. \A n \in 0 .. i + 1 : g[n] = h[n]
      BY <2>3, <3>1
    <3>3. g = h
      BY <2>2, <3>1, <3>2
    <3>4. QED BY <3>1, <3>3
  <2>5. Readers(d, data, heads, i + 1, g)
    BY <2>4 DEF Readers
  <2>6. i + 1 \in Nat
    BY <1>2
  <2>7. QED BY <2>5, <2>6
<1> HIDE DEF S
<1>3. \A i \in 0 .. L : i \in S
  BY <1>1, <1>2, UpTo
<1>4. L \in S
  BY <1>3
<1>5. QED BY <1>4 DEF S

\* All that there is is read as it was written.
LEMMA ParseIs ==
  ASSUME Talked, \A k \in DOMAIN talk : ~ChunkedHead(k), NEW d \in Directions, NEW n \in 0 .. Len(talk),
         NEW q, NEW start, Layout(Messages(d), n, q, start), NEW data \in Seq(Token), Begins(data, q),
         NEW limit \in Nat, NEW heads, Knows(d, n, heads, limit)
  PROVE  Reading(d, n, start, data, limit, Parse(d, data, heads))
<1>1. PICK m \in Nat : m = Len(data)
  BY LenProperties
<1>2. n \in Nat /\ start[1] = 0
  BY TalkType DEF Layout
<1> DEFINE F == CHOOSE f : Readers(d, data, heads, m, f)
<1>3. Readers(d, data, heads, m, F)
  BY ReadersExist
<1>4. Parse(d, data, heads) = F[m]
  BY <1>1 DEF Parse, Readers, Unread
<1> HIDE DEF F
<1>5. ASSUME NEW i \in 0 .. m PROVE F[i] = IF i = 0 THEN Unread ELSE ParseOne(d, data, heads, F[i - 1])
  BY <1>3 DEF Readers
<1> DEFINE S == {i \in 0 .. m : Reading(d, n, start, data, limit, F[i])}
<1>6. 0 \in S
  <2>1. F[0] = Unread /\ 0 \in 0 .. m
    BY <1>5
  <2>2. Unread.ok /\ Unread.off = 1 /\ Unread.msgs = << >> /\ << >> \in Seq(Msg) /\ Len(<< >>) = 0
    BY DEF Unread
  <2>3. Reading(d, n, start, data, limit, Unread)
    BY <1>2, <2>2 DEF Reading
  <2>4. QED BY <2>1, <2>3
<1>7. ASSUME NEW i \in 0 .. m - 1, i \in S PROVE i + 1 \in S
  <2>1. i + 1 \in 0 .. m /\ i + 1 # 0 /\ (i + 1) - 1 = i
    BY <1>7
  <2>2. F[i + 1] = ParseOne(d, data, heads, F[i])
    BY <1>5, <2>1
  <2>3. Reading(d, n, start, data, limit, F[i])
    BY <1>7
  <2>4. Reading(d, n, start, data, limit, ParseOne(d, data, heads, F[i]))
    BY <2>3, ReadOne
  <2>5. QED BY <2>1, <2>2, <2>4
<1> HIDE DEF S
<1>8. \A i \in 0 .. m : i \in S
  BY <1>6, <1>7, UpTo
<1>9. m \in S
  BY <1>8
<1>10. QED BY <1>4, <1>9 DEF S

----------------------------------------------------------------------------
(* Putting a stream together again.                                        *)

\* Segments of a stream that was numbered from origin on.
Segmented(q, origin, segs) ==
  \A s \in DOMAIN segs :
    /\ s \in origin .. Modulus - 1 /\ segs[s] \in Seq(Token) /\ Len(segs[s]) \in 1 .. MaxSegment
    /\ (s - origin) + Len(segs[s]) <= Len(q)
    /\ \A i \in 1 .. Len(segs[s]) : segs[s][i] = q[(s - origin) + i]

\* What comes before one of them is in one of them too.
Gapless(origin, segs) ==
  \A t \in DOMAIN segs, e \in Nat : origin <= e /\ e <= t => \E s \in DOMAIN segs : s <= e /\ e < s + Len(segs[s])

\* The modulus, and what it does to numbers that are near zero.
LEMMA Moduli ==
  /\ Modulus \in Nat \ {0} /\ MaxSegment \in Nat \ {0} /\ MaxSegment <= Modulus \div 2 /\ 2 * MaxSegment <= Modulus
  /\ \A x \in Nat : x < Modulus => x % Modulus = x
  /\ \A x \in Nat : 0 < x /\ x <= Modulus => (-x) % Modulus = Modulus - x
<1>1. Modulus \in Nat \ {0} /\ MaxSegment \in 1 .. Modulus \div 2
  BY RecordingAssumption
<1>2. Modulus \div 2 \in Nat /\ 2 * (Modulus \div 2) <= Modulus
  BY <1>1
<1>3. MaxSegment \in Nat \ {0} /\ MaxSegment <= Modulus \div 2 /\ 2 * MaxSegment <= Modulus
  BY <1>1, <1>2
<1>4. \A x \in Nat : x < Modulus => x % Modulus = x
  BY <1>1
<1>5. \A x \in Nat : 0 < x /\ x <= Modulus => (-x) % Modulus = Modulus - x
  BY <1>1
<1>6. QED BY <1>1, <1>3, <1>4, <1>5

\* A segment that begins a little before what there is ends, or right there.
LEMMA Behind ==
  ASSUME NEW s \in Nat, NEW e \in Nat, s <= e, e - s < MaxSegment
  PROVE  (Beyond(s, e) <=> s = e) /\ (e - s) % Modulus = e - s
<1>1. PICK x \in Nat : x = e - s
  OBVIOUS
<1>2. x < Modulus /\ x % Modulus = x /\ MaxSegment \in Nat
  BY <1>1, Moduli
<1>3. CASE x = 0
  <2>1. s = e /\ s - e = 0 /\ 0 % Modulus = 0 /\ 0 < Modulus \div 2
    BY <1>1, <1>3, Moduli
  <2>2. QED BY <1>1, <1>2, <2>1 DEF Beyond
<1>4. CASE x # 0
  <2>1. s - e = -x /\ (-x) % Modulus = Modulus - x
    <3>1. s - e = -x /\ 0 < x /\ x <= Modulus
      BY <1>1, <1>2, <1>4, Moduli
    <3>2. QED BY <3>1, Moduli
  <2>2. ~(Modulus - x < Modulus \div 2)
    <3>1. PICK half \in Nat : half = Modulus \div 2
      BY Moduli
    <3>2. x < half /\ 2 * half <= Modulus
      BY <1>1, <3>1, Moduli
    <3>3. QED BY <3>1, <3>2, Moduli
  <2>3. ~Beyond(s, e) /\ s # e
    BY <1>1, <1>4, <2>1, <2>2 DEF Beyond
  <2>4. QED BY <1>1, <1>2, <2>3
<1>5. QED BY <1>3, <1>4

\* When the lowest segments have been placed, they are the start of the stream.
Placing(q, origin, segs, acc) ==
  /\ acc \in [data : Seq(Token), end : Int, rest : SUBSET DOMAIN segs]
  /\ \A s \in DOMAIN segs \ acc.rest, t \in acc.rest : s < t
  /\ \/ acc.rest = DOMAIN segs /\ acc.data = << >>
     \/ /\ acc.data # << >> /\ Begins(acc.data, q) /\ acc.end = origin + Len(acc.data)
        /\ \A s \in DOMAIN segs \ acc.rest : s + Len(segs[s]) <= acc.end
        /\ \E s \in DOMAIN segs \ acc.rest : s + Len(segs[s]) = acc.end

\* What is joined to a prefix at its end makes a prefix.
LEMMA Prolong ==
  ASSUME NEW q \in Seq(Token), NEW a \in Seq(Token), NEW b \in Seq(Token), Begins(a, q), Len(a) + Len(b) <= Len(q),
         \A i \in 1 .. Len(b) : q[Len(a) + i] = b[i]
  PROVE  a \o b \in Seq(Token) /\ Len(a \o b) = Len(a) + Len(b) /\ Begins(a \o b, q)
<1>1. PICK c : c = a \o b
  OBVIOUS
<1>2. PICK na \in Nat, nb \in Nat, nq \in Nat : na = Len(a) /\ nb = Len(b) /\ nq = Len(q)
  BY LenProperties
<1>3. c \in Seq(Token) /\ Len(c) = na + nb /\ \A i \in 1 .. na + nb : c[i] = IF i <= na THEN a[i] ELSE b[i - na]
  BY <1>1, <1>2, ConcatProperties
<1>4. ASSUME NEW i \in 1 .. na + nb PROVE q[i] = c[i]
  <2>1. CASE i <= na
    <3>1. i \in 1 .. na
      BY <2>1
    <3>2. QED BY <1>2, <1>3, <2>1, <3>1 DEF Begins
  <2>2. CASE ~(i <= na)
    <3>1. i - na \in 1 .. nb /\ na + (i - na) = i
      BY <2>2
    <3>2. QED BY <1>2, <1>3, <2>2, <3>1
  <2>3. QED BY <2>1, <2>2
<1>5. QED BY <1>1, <1>2, <1>3, <1>4 DEF Begins

\* The next segment goes right after what has been placed, or overlaps it.
LEMMA AddIs ==
  ASSUME NEW q \in Seq(Token), NEW origin \in Nat, NEW segs, Segmented(q, origin, segs), Gapless(origin, segs),
         NEW acc, Placing(q, origin, segs, acc), NEW s \in acc.rest, \A t \in acc.rest : s <= t
  PROVE  Placing(q, origin, segs, Add(segs, acc, s)) /\ Add(segs, acc, s).rest = acc.rest \ {s}
<1>1. PICK rest, data, end, p : rest = acc.rest /\ data = acc.data /\ end = acc.end /\ p = segs[s]
  OBVIOUS
<1>2. PICK n \in Nat, m \in Nat, nq \in Nat : n = Len(p) /\ m = Len(data) /\ nq = Len(q)
  BY <1>1, LenProperties DEF Placing, Segmented
<1>3. /\ s \in DOMAIN segs /\ s \in Nat /\ origin <= s /\ p \in Seq(Token) /\ 1 <= n /\ n <= MaxSegment /\ (s - origin) + n <= nq
      /\ \A i \in 1 .. n : p[i] = q[(s - origin) + i]
  <2>1. s \in DOMAIN segs
    BY DEF Placing
  <2>2. /\ s \in origin .. Modulus - 1 /\ p \in Seq(Token) /\ n \in 1 .. MaxSegment /\ (s - origin) + n <= nq
        /\ \A i \in 1 .. n : p[i] = q[(s - origin) + i]
    BY <1>1, <1>2, <2>1 DEF Segmented
  <2>3. QED BY <2>1, <2>2, Moduli
<1>4. rest \subseteq DOMAIN segs /\ data \in Seq(Token) /\ \A x \in DOMAIN segs \ rest, t \in rest : x < t
  BY <1>1 DEF Placing
<1>5. \A t \in DOMAIN segs : t \in Nat /\ Len(segs[t]) \in Nat /\ 1 <= Len(segs[t]) /\ Len(segs[t]) <= MaxSegment
  BY Moduli DEF Segmented
<1>6. PICK left0 : left0 = rest \ {s}
  OBVIOUS
<1>7. \A x \in DOMAIN segs \ left0, t \in left0 : x < t
  <2>1. SUFFICES ASSUME NEW x \in DOMAIN segs \ left0, NEW t \in left0 PROVE x < t
    OBVIOUS
  <2>2. t \in rest /\ t # s /\ s <= t /\ t \in Nat
    BY <1>1, <1>4, <1>5, <1>6, <2>1
  <2>3. CASE x = s
    BY <1>3, <2>2, <2>3
  <2>4. CASE x # s
    BY <1>4, <1>6, <2>1, <2>2, <2>4
  <2>5. QED BY <2>3, <2>4
<1>8. PICK res : res = Add(segs, acc, s)
  OBVIOUS
<1>9. ASSUME NEW nd, NEW ne, res = [data |-> nd, end |-> ne, rest |-> left0], nd \in Seq(Token), nd # << >>,
             Begins(nd, q), ne = origin + Len(nd), s + n <= ne,
             \A x \in DOMAIN segs \ rest : x + Len(segs[x]) <= ne,
             \E x \in (DOMAIN segs \ rest) \cup {s} : x + Len(segs[x]) = ne
      PROVE  Placing(q, origin, segs, Add(segs, acc, s)) /\ Add(segs, acc, s).rest = acc.rest \ {s}
  <2>1. left0 \subseteq DOMAIN segs
    BY <1>4, <1>6
  <2>2. \A x \in DOMAIN segs \ left0 : x + Len(segs[x]) <= ne
    BY <1>1, <1>2, <1>6, <1>9
  <2>3. \E x \in DOMAIN segs \ left0 : x + Len(segs[x]) = ne
    BY <1>3, <1>6, <1>9
  <2>4. ne \in Int /\ left0 \in SUBSET DOMAIN segs
    BY <1>9, <2>1, LenProperties
  <2>5. res.data = nd /\ res.end = ne /\ res.rest = left0 /\ res \in [data : Seq(Token), end : Int, rest : SUBSET DOMAIN segs]
    BY <1>9, <2>4
  <2>6. Placing(q, origin, segs, res)
    BY <1>7, <1>9, <2>2, <2>3, <2>5 DEF Placing
  <2>7. QED BY <1>1, <1>6, <1>8, <2>5, <2>6
<1>10. CASE rest = DOMAIN segs /\ data = << >>
  <2>1. s = origin
    <3>1. origin <= origin /\ origin <= s
      BY <1>3
    <3>2. PICK x \in DOMAIN segs : x <= origin
      BY <1>3, <3>1 DEF Gapless
    <3>3. s <= x /\ x \in Nat
      BY <1>1, <1>5, <1>10, <3>2
    <3>4. QED BY <1>3, <3>2, <3>3
  <2>2. res = [data |-> data \o p, end |-> s + n, rest |-> left0]
    BY <1>1, <1>2, <1>6, <1>8, <1>10 DEF Add
  <2>3. data \o p = p
    BY <1>3, <1>10, ConcatEmptySeq
  <2>4. res = [data |-> p, end |-> s + n, rest |-> left0]
    BY <2>2, <2>3
  <2>5. Begins(p, q)
    <3>1. \A i \in 1 .. n : (s - origin) + i = i
      BY <2>1
    <3>2. QED BY <1>2, <1>3, <2>1, <3>1 DEF Begins
  <2>6. p # << >>
    BY <1>2, <1>3
  <2>7. s + n = origin + Len(p) /\ s + n <= s + n
    BY <1>2, <1>3, <2>1
  <2>8. \A x \in DOMAIN segs \ rest : x + Len(segs[x]) <= s + n
    BY <1>10
  <2>9. s + Len(segs[s]) = s + n
    BY <1>1, <1>2
  <2>10. QED BY <1>3, <1>9, <2>4, <2>5, <2>6, <2>7, <2>8, <2>9
<1>11. CASE ~(rest = DOMAIN segs /\ data = << >>)
  <2>1. /\ data # << >> /\ Begins(data, q) /\ end = origin + m
        /\ \A x \in DOMAIN segs \ rest : x + Len(segs[x]) <= end
        /\ \E x \in DOMAIN segs \ rest : x + Len(segs[x]) = end
    BY <1>1, <1>2, <1>11 DEF Placing
  <2>2. end \in Nat /\ m <= nq
    BY <1>2, <2>1 DEF Begins
  <2>3. s <= end
    <3>1. SUFFICES ASSUME end < s PROVE FALSE
      BY <1>3, <2>2
    <3>2. origin <= end /\ end <= s
      BY <1>3, <2>1, <2>2, <3>1
    <3>3. PICK x \in DOMAIN segs : x <= end /\ end < x + Len(segs[x])
      BY <1>3, <2>2, <3>2 DEF Gapless
    <3>4. CASE x \in rest
      <4>1. s <= x /\ x \in Nat
        BY <1>1, <1>5, <3>3, <3>4
      <4>2. QED BY <1>3, <2>2, <3>1, <3>3, <4>1
    <3>5. CASE x \notin rest
      <4>1. x + Len(segs[x]) <= end /\ x + Len(segs[x]) \in Nat
        BY <1>5, <2>1, <3>3, <3>5
      <4>2. QED BY <2>2, <3>3, <4>1
    <3>6. QED BY <3>4, <3>5
  <2>4. end - s < MaxSegment
    <3>1. PICK x \in DOMAIN segs \ rest : x + Len(segs[x]) = end
      BY <2>1
    <3>2. x < s /\ x \in Nat /\ Len(segs[x]) \in Nat /\ Len(segs[x]) <= MaxSegment
      BY <1>1, <1>4, <1>5, <3>1
    <3>3. QED BY <1>3, <3>1, <3>2, Moduli
  <2>5. (Beyond(s, end) <=> s = end) /\ (end - s) % Modulus = end - s
    BY <1>3, <2>2, <2>3, <2>4, Behind
  <2>6. PICK o \in Nat : o = end - s
    BY <1>3, <2>2, <2>3
  <2>7. CASE o = 0
    <3>1. s = end /\ Beyond(s, end)
      BY <1>3, <2>2, <2>5, <2>6, <2>7
    <3>2. res = [data |-> data \o p, end |-> s + n, rest |-> left0]
      BY <1>1, <1>2, <1>6, <1>8, <3>1 DEF Add
    <3>4. m + n <= nq /\ \A i \in 1 .. n : (s - origin) + i = m + i
      BY <1>3, <2>1, <3>1
    <3>5. data \o p \in Seq(Token) /\ Len(data \o p) = m + n /\ Begins(data \o p, q)
      BY <1>2, <1>3, <1>4, <2>1, <3>4, Prolong
    <3>6. data \o p # << >> /\ s + n = origin + Len(data \o p)
      BY <1>3, <2>1, <3>1, <3>5
    <3>7. \A x \in DOMAIN segs \ rest : x + Len(segs[x]) <= s + n
      <4>1. end <= s + n /\ s + n \in Nat
        BY <1>2, <1>3, <2>2, <3>1
      <4>2. QED BY <1>5, <2>1, <2>2, <4>1
    <3>8. s + Len(segs[s]) = s + n /\ s + n <= s + n
      BY <1>1, <1>2, <1>3
    <3>9. QED BY <1>9, <3>2, <3>5, <3>6, <3>7, <3>8
  <2>8. CASE o # 0 /\ o < n
    <3>1. PICK z : z = SubSeq(p, o + 1, n)
      OBVIOUS
    <3>2. ~Beyond(s, end) /\ (end - s) % Modulus = o
      BY <1>3, <2>2, <2>5, <2>6, <2>8
    <3>3. res = [data |-> data \o z, end |-> s + n, rest |-> left0]
      BY <1>1, <1>2, <1>6, <1>8, <2>1, <2>8, <3>1, <3>2 DEF Add
    <3>5. z \in Seq(Token) /\ Len(z) = n - o /\ \A i \in 1 .. n - o : z[i] = p[o + i]
      <4>1. /\ z \in Seq(Token) /\ Len(z) = (IF o + 1 <= n THEN n - (o + 1) + 1 ELSE 0)
            /\ \A i \in 1 .. n - (o + 1) + 1 : z[i] = p[(o + 1) + i - 1]
        BY <1>2, <1>3, <3>1, PartOf
      <4>2. n - (o + 1) + 1 = n - o /\ o + 1 <= n /\ \A i \in 1 .. n - o : (o + 1) + i - 1 = o + i
        BY <2>8
      <4>3. QED BY <4>1, <4>2
    <3>6. m = (s - origin) + o /\ m + (n - o) <= nq
      BY <1>3, <2>1, <2>2, <2>6
    <3>7. ASSUME NEW i \in 1 .. n - o PROVE q[m + i] = z[i]
      <4>1. o + i \in 1 .. n /\ (s - origin) + (o + i) = m + i
        <5>1. PICK a \in Nat : a = s - origin
          BY <1>3
        <5>2. m = a + o /\ o + i \in 1 .. n /\ a + (o + i) = (a + o) + i
          BY <2>8, <3>6, <5>1
        <5>3. QED BY <5>1, <5>2
      <4>2. QED BY <1>3, <3>5, <4>1
    <3>8. data \o z \in Seq(Token) /\ Len(data \o z) = m + (n - o) /\ Begins(data \o z, q)
      <4>1. m = Len(data) /\ Len(z) = n - o /\ Len(data) + Len(z) <= Len(q) /\ \A i \in 1 .. Len(z) : q[Len(data) + i] = z[i]
        BY <1>2, <3>5, <3>6, <3>7
      <4>2. data \in Seq(Token) /\ z \in Seq(Token) /\ Begins(data, q)
        BY <1>4, <2>1, <3>5
      <4>3. data \o z \in Seq(Token) /\ Len(data \o z) = Len(data) + Len(z) /\ Begins(data \o z, q)
        BY <4>1, <4>2, Prolong
      <4>4. QED BY <4>1, <4>3
    <3>9. data \o z # << >> /\ s + n = origin + Len(data \o z)
      BY <1>3, <2>8, <3>6, <3>8
    <3>10. \A x \in DOMAIN segs \ rest : x + Len(segs[x]) <= s + n
      <4>1. end <= s + n /\ s + n \in Nat
        <5>1. end = s + o /\ o <= n
          BY <1>3, <2>2, <2>6, <2>8
        <5>2. QED BY <1>2, <1>3, <5>1
      <4>2. QED BY <1>5, <2>1, <2>2, <4>1
    <3>11. s + Len(segs[s]) = s + n /\ s + n <= s + n
      BY <1>1, <1>2, <1>3
    <3>12. QED BY <1>9, <3>3, <3>8, <3>9, <3>10, <3>11
  <2>9. CASE o # 0 /\ ~(o < n)
    <3>1. ~Beyond(s, end) /\ (end - s) % Modulus = o
      BY <1>3, <2>2, <2>5, <2>6, <2>9
    <3>2. res = [acc EXCEPT !.rest = left0]
      BY <1>1, <1>2, <1>6, <1>8, <2>1, <2>9, <3>1 DEF Add
    <3>3. res = [data |-> data, end |-> end, rest |-> left0]
      <4>1. acc = [data |-> data, end |-> end, rest |-> rest]
        BY <1>1 DEF Placing
      <4>2. QED BY <3>2, <4>1
    <3>4. s + n <= end
      BY <1>3, <2>2, <2>6, <2>9
    <3>5. QED BY <1>2, <1>4, <1>9, <2>1, <3>3, <3>4
  <2>10. QED BY <2>7, <2>8, <2>9
<1>12. QED BY <1>10, <1>11

\* The capture after each number of segments.
\* The segment that follows: the first after the lowest.
Low(segs) == CHOOSE s \in DOMAIN segs : \A t \in DOMAIN segs : s <= t
Following(segs, rest) == CHOOSE s \in rest : \A t \in rest : (s - Low(segs)) % Modulus <= (t - Low(segs)) % Modulus
Unplaced(segs) == [data |-> << >>, end |-> 0, rest |-> DOMAIN segs]
Placed(segs, L, f) ==
  f = [n \in 0 .. L |-> IF n = 0 THEN Unplaced(segs) ELSE Add(segs, f[n - 1], Following(segs, f[n - 1].rest))]

\* There is such a function.
LEMMA PlacedExist ==
  ASSUME NEW segs, NEW L \in Nat
  PROVE  \E f : Placed(segs, L, f)
<1> DEFINE Next1(a) == Add(segs, a, Following(segs, a.rest))
<1> DEFINE S == {l \in Nat : \E f : Placed(segs, l, f)}
<1>1. 0 \in S
  <2>1. PICK f : f = [n \in 0 .. 0 |-> Unplaced(segs)]
    OBVIOUS
  <2>2. \A n \in 0 .. 0 : n = 0
    OBVIOUS
  <2>3. f = [n \in 0 .. 0 |-> IF n = 0 THEN Unplaced(segs) ELSE Next1(f[n - 1])]
    BY <2>1, <2>2
  <2>4. Placed(segs, 0, f)
    BY <2>3 DEF Placed
  <2>5. QED BY <2>4
<1>2. ASSUME NEW i \in 0 .. L - 1, i \in S PROVE i + 1 \in S
  <2>1. PICK f : Placed(segs, i, f)
    BY <1>2
  <2>2. PICK g : g = [n \in 0 .. i + 1 |-> IF n <= i THEN f[n] ELSE Next1(f[i])]
    OBVIOUS
  <2>3. ASSUME NEW n \in 0 .. i + 1 PROVE g[n] = IF n = 0 THEN Unplaced(segs) ELSE Next1(g[n - 1])
    <3>1. CASE n = i + 1
      <4>1. n \in 0 .. i + 1 /\ ~(n <= i) /\ n # 0 /\ n - 1 = i /\ i \in 0 .. i + 1 /\ i <= i
        BY <1>2, <3>1
      <4>2. g[n] = Next1(f[i]) /\ g[i] = f[i]
        BY <2>2, <4>1
      <4>3. QED BY <4>1, <4>2
    <3>2. CASE n # i + 1
      <4>1. n \in 0 .. i /\ n <= i /\ (n # 0 => n - 1 \in 0 .. i + 1 /\ n - 1 <= i)
        BY <1>2, <3>2
      <4>2. g[n] = f[n] /\ (n # 0 => g[n - 1] = f[n - 1])
        BY <2>2, <4>1
      <4>3. f[n] = IF n = 0 THEN Unplaced(segs) ELSE Next1(f[n - 1])
        BY <2>1, <4>1 DEF Placed
      <4>4. QED BY <4>2, <4>3
    <3>3. QED BY <3>1, <3>2
  <2>4. g = [n \in 0 .. i + 1 |-> IF n = 0 THEN Unplaced(segs) ELSE Next1(g[n - 1])]
    <3>1. PICK h : h = [n \in 0 .. i + 1 |-> IF n = 0 THEN Unplaced(segs) ELSE Next1(g[n - 1])]
      OBVIOUS
    <3>2. \A n \in 0 .. i + 1 : g[n] = h[n]
      BY <2>3, <3>1
    <3>3. g = h
      BY <2>2, <3>1, <3>2
    <3>4. QED BY <3>1, <3>3
  <2>5. Placed(segs, i + 1, g)
    BY <2>4 DEF Placed
  <2>6. i + 1 \in Nat
    BY <1>2
  <2>7. QED BY <2>5, <2>6
<1> HIDE DEF S
<1>3. \A i \in 0 .. L : i \in S
  BY <1>1, <1>2, UpTo
<1>4. L \in S
  BY <1>3
<1>5. QED BY <1>4 DEF S

\* What is put together is the start of the stream.
LEMMA ReassembleIs ==
  ASSUME NEW q \in Seq(Token), NEW origin \in Nat, NEW segs, Segmented(q, origin, segs), Gapless(origin, segs)
  PROVE  Reassemble(segs) \in Seq(Token) /\ Begins(Reassemble(segs), q)
<1>1. PICK D : D = DOMAIN segs
  OBVIOUS
<1>2. D \subseteq 0 .. Modulus - 1 /\ Modulus \in Nat \ {0}
  BY <1>1, Moduli DEF Segmented
<1>3. IsFiniteSet(D) /\ Cardinality(D) \in Nat
  <2>1. IsFiniteSet(0 .. Modulus - 1)
    BY <1>2, FS_Interval
  <2>2. IsFiniteSet(D)
    BY <1>2, <2>1, FS_Subset
  <2>3. QED BY <2>2, FS_CardinalityType
<1>4. PICK L \in Nat : L = Cardinality(D)
  BY <1>3
<1> DEFINE F == CHOOSE f : Placed(segs, L, f)
<1>5. Placed(segs, L, F)
  BY PlacedExist
<1>6. Reassemble(segs) = F[L].data
  BY <1>1, <1>4 DEF Reassemble, Placed, Unplaced, Following, Low
<1> HIDE DEF F
<1>7. ASSUME NEW i \in 0 .. L
      PROVE  F[i] = IF i = 0 THEN Unplaced(segs) ELSE Add(segs, F[i - 1], Following(segs, F[i - 1].rest))
  BY <1>5 DEF Placed
<1> DEFINE S == {i \in 0 .. L : Placing(q, origin, segs, F[i]) /\ IsFiniteSet(F[i].rest) /\ Cardinality(F[i].rest) = L - i}
<1>8. 0 \in S
  <2>1. F[0] = Unplaced(segs) /\ 0 \in 0 .. L
    BY <1>7
  <2>2. PICK u : u = Unplaced(segs)
    OBVIOUS
  <2>3. u = [data |-> << >>, end |-> 0, rest |-> D] /\ << >> \in Seq(Token)
    BY <1>1, <2>2 DEF Unplaced
  <2>4. u.data = << >> /\ u.rest = D /\ u \in [data : Seq(Token), end : Int, rest : SUBSET D]
    BY <2>3
  <2>5. Placing(q, origin, segs, u)
    BY <1>1, <2>4 DEF Placing
  <2>6. QED BY <1>3, <1>4, <2>1, <2>2, <2>4, <2>5
<1>9. ASSUME NEW i \in 0 .. L - 1, i \in S PROVE i + 1 \in S
  <2>1. PICK acc : acc = F[i]
    OBVIOUS
  <2>2. PICK rest : rest = acc.rest
    OBVIOUS
  <2>3. Placing(q, origin, segs, acc) /\ IsFiniteSet(rest) /\ Cardinality(rest) = L - i /\ rest \subseteq D
    BY <1>1, <1>9, <2>1, <2>2 DEF Placing
  <2>4. rest # {}
    <3>1. L - i # 0
      BY <1>9
    <3>2. QED BY <2>3, <3>1, FS_EmptySet
  <2>5. PICK s : s = Following(segs, rest)
    OBVIOUS
  <2>6. s \in rest /\ \A t \in rest : s <= t
    <3>1. PICK low : low = Low(segs)
      OBVIOUS
    <3>2. D # {} /\ D \subseteq Nat /\ rest \subseteq Nat
      <4>1. \A x \in 0 .. Modulus - 1 : x \in Nat
        BY <1>2
      <4>2. QED BY <1>2, <2>3, <2>4, <4>1
    <3>3. \E x \in D : \A t \in D : x <= t
      BY <3>2, HasLeast
    <3>4. low \in D /\ \A t \in D : low <= t
      BY <1>1, <3>1, <3>3 DEF Low
    <3>5. ASSUME NEW t \in rest PROVE (t - low) % Modulus = t - low
      <4>1. t \in 0 .. Modulus - 1 /\ low \in 0 .. Modulus - 1 /\ low <= t
        BY <1>2, <2>3, <3>4
      <4>2. t - low \in Nat /\ t - low < Modulus
        BY <1>2, <4>1
      <4>3. QED BY <4>2, Moduli
    <3>6. PICK x \in rest : \A t \in rest : x <= t
      BY <2>4, <3>2, HasLeast
    <3>7. low \in Nat
      BY <3>2, <3>4
    <3>8. \A t \in rest : (x - low) % Modulus <= (t - low) % Modulus
      <4>1. SUFFICES ASSUME NEW t \in rest PROVE (x - low) % Modulus <= (t - low) % Modulus
        OBVIOUS
      <4>2. x - low <= t - low
        BY <3>2, <3>6, <3>7
      <4>3. QED BY <3>5, <4>2
    <3>9. s \in rest /\ \A t \in rest : (s - low) % Modulus <= (t - low) % Modulus
      <4>1. s = CHOOSE y \in rest : \A t \in rest : (y - low) % Modulus <= (t - low) % Modulus
        BY <2>5, <3>1 DEF Following
      <4>2. QED BY <3>8, <4>1
    <3>10. ASSUME NEW t \in rest PROVE s <= t
      <4>1. s - low <= t - low
        BY <3>5, <3>9
      <4>2. QED BY <3>2, <3>7, <3>9, <4>1
    <3>11. QED BY <3>9, <3>10
  <2>7. Placing(q, origin, segs, Add(segs, acc, s)) /\ Add(segs, acc, s).rest = rest \ {s}
    BY <2>2, <2>3, <2>6, AddIs
  <2>8. F[i + 1] = Add(segs, acc, s) /\ i + 1 \in 0 .. L
    <3>1. i + 1 \in 0 .. L /\ i + 1 # 0 /\ (i + 1) - 1 = i
      BY <1>9
    <3>2. QED BY <1>7, <2>1, <2>2, <2>5, <3>1
  <2>9. IsFiniteSet(rest \ {s}) /\ Cardinality(rest \ {s}) = (L - i) - 1
    BY <2>3, <2>6, FS_RemoveElement
  <2>10. (L - i) - 1 = L - (i + 1)
    BY <1>9
  <2>11. QED BY <2>7, <2>8, <2>9, <2>10
<1> HIDE DEF S
<1>10. \A i \in 0 .. L : i \in S
  BY <1>8, <1>9, UpTo
<1>11. Placing(q, origin, segs, F[L]) /\ IsFiniteSet(F[L].rest) /\ Cardinality(F[L].rest) = L - L
  BY <1>10 DEF S
<1>12. F[L].rest = {}
  BY <1>11, FS_EmptySet
<1>13. PICK acc : acc = F[L]
  OBVIOUS
<1>14. acc.data \in Seq(Token) /\ (acc.data = << >> \/ Begins(acc.data, q))
  BY <1>11, <1>13 DEF Placing
<1>15. acc.data = << >> => Begins(acc.data, q)
  <2>1. Len(<< >>) = 0 /\ Len(q) \in Nat
    BY LenProperties
  <2>2. QED BY <2>1 DEF Begins
<1>16. QED BY <1>6, <1>13, <1>14, <1>15

----------------------------------------------------------------------------
(* A recording: from the capture to the rows.                              *)

\* The stream of the first w messages.
LEMMA StreamIs ==
  ASSUME Talked, NEW d \in Directions, NEW w \in 0 .. Len(talk)
  PROVE  FlattenSeq([k \in 1 .. w |-> Message(d, k)]) = Together(Messages(d), w)
<1>1. PICK ms, t : ms = Messages(d) /\ t = Len(talk)
  OBVIOUS
<1>2. ms \in Seq(Seq(Token)) /\ Len(ms) = t /\ t \in Nat /\ \A k \in 1 .. t : ms[k] = Message(d, k)
  BY <1>1, MessagesAre, TalkType
<1>3. PICK f, g : f = [k \in 1 .. w |-> Message(d, k)] /\ g = SubSeq(ms, 1, w)
  OBVIOUS
<1>4. g \in Seq(Seq(Token)) /\ Len(g) = w /\ \A i \in 1 .. w : g[i] = ms[i]
  <2>1. w \in Nat /\ w <= Len(ms)
    BY <1>1, <1>2
  <2>2. /\ g \in Seq(Seq(Token)) /\ Len(g) = (IF 1 <= w THEN w - 1 + 1 ELSE 0)
        /\ \A i \in 1 .. w - 1 + 1 : g[i] = ms[1 + i - 1]
    BY <1>2, <1>3, <2>1, PartOf
  <2>3. \A i \in 1 .. w : i \in 1 .. w - 1 + 1 /\ 1 + i - 1 = i
    BY <2>1
  <2>4. QED BY <2>1, <2>2, <2>3
<1>5. f \in Seq(Seq(Token)) /\ Len(f) = w /\ \A i \in 1 .. w : f[i] = ms[i]
  <2>1. w \in Nat /\ \A i \in 1 .. w : i \in 1 .. t
    BY <1>1, <1>2
  <2>2. \A i \in 1 .. w : f[i] = ms[i] /\ ms[i] \in Seq(Token)
    BY <1>2, <1>3, <2>1, ElementOfSeq
  <2>3. f \in Seq(Seq(Token)) /\ Len(f) = w
    <3>1. f \in [1 .. w -> Seq(Token)]
      BY <1>3, <2>2
    <3>2. QED BY <2>1, <3>1
  <2>4. QED BY <2>2, <2>3
<1>6. f = g
  BY <1>4, <1>5, SeqEqual
<1>7. QED BY <1>1, <1>3, <1>6 DEF Together

\* The stream so far.
LEMMA SaidIs ==
  ASSUME Talked, said \in 0 .. 2 * Len(talk), NEW d \in Directions
  PROVE  /\ Written(d) \in 0 .. Len(talk) /\ Stream(d) = Together(Messages(d), Written(d))
         /\ Stream(d) \in Seq(Token) /\ Len(Stream(d)) \in Nat
<1>1. Len(talk) \in Nat
  BY TalkType
<1>2. Written(d) \in 0 .. Len(talk)
  <2>1. PICK n \in Nat : n = Len(talk)
    BY <1>1
  <2>2. (said + 1) \div 2 \in 0 .. n /\ said \div 2 \in 0 .. n
    BY <2>1
  <2>3. QED BY <2>1, <2>2 DEF Written
<1>3. Stream(d) = Together(Messages(d), Written(d))
  BY <1>2, StreamIs DEF Stream
<1>4. Stream(d) \in Seq(Token)
  <2>1. Messages(d) \in Seq(Seq(Token)) /\ Written(d) \in 0 .. Len(Messages(d))
    BY <1>2, MessagesAre
  <2>2. Written(d) \in 0 .. Written(d)
    BY <1>1, <1>2
  <2>3. QED BY <1>3, <2>1, <2>2, TogetherGrows
<1>5. QED BY <1>2, <1>3, <1>4, LenProperties

\* Every segment that was kept is one of the stream, where its number says.
Captured(d) ==
  \A s \in DOMAIN parts[d] : \E from \in Nat, n \in 1 .. MaxSegment :
     /\ from + n <= Len(Stream(d)) /\ s = (isn[d] + from) % Modulus
     /\ parts[d][s] = SubSeq(Stream(d), from + 1, from + n)

\* When nothing wraps and nothing is missing, numbers are places.
LEMMA CapturedIs ==
  ASSUME Talked, said \in 0 .. 2 * Len(talk), NEW d \in Directions, isn \in [Directions -> Isns], Captured(d),
         Contiguous(d), ~Wraps(d)
  PROVE  Segmented(Stream(d), isn[d], parts[d]) /\ Gapless(isn[d], parts[d]) /\ isn[d] \in Nat
<1>1. PICK q, origin, segs : q = Stream(d) /\ origin = isn[d] /\ segs = parts[d]
  OBVIOUS
<1>2. PICK nq \in Nat : nq = Len(q) /\ q \in Seq(Token)
  BY <1>1, SaidIs
<1>3. origin \in 0 .. Modulus - 1 /\ Modulus \in Nat \ {0} /\ MaxSegment \in Nat \ {0}
  BY <1>1, Moduli, RecordingAssumption
<1>4. origin + nq <= Modulus
  BY <1>1, <1>2, <1>3 DEF Wraps
<1>5. ASSUME NEW s \in DOMAIN segs
      PROVE  /\ s \in origin .. Modulus - 1 /\ segs[s] \in Seq(Token) /\ Len(segs[s]) \in 1 .. MaxSegment
             /\ (s - origin) + Len(segs[s]) <= nq /\ (s - origin) % Modulus = s - origin
             /\ \A i \in 1 .. Len(segs[s]) : segs[s][i] = q[(s - origin) + i]
  <2>1. PICK from \in Nat, n \in 1 .. MaxSegment :
          from + n <= nq /\ s = (origin + from) % Modulus /\ segs[s] = SubSeq(q, from + 1, from + n)
    BY <1>1, <1>2 DEF Captured
  <2>2. origin + from \in Nat /\ origin + from < Modulus
    <3>1. n \in Nat /\ 1 <= n /\ origin \in Nat
      BY <1>3
    <3>2. origin + (from + n) <= Modulus
      BY <1>2, <1>3, <1>4, <2>1, <3>1
    <3>3. PICK M \in Nat : M = Modulus
      BY <1>3
    <3>4. origin \in Nat /\ from \in Nat /\ n \in Nat /\ 1 <= n /\ origin + (from + n) <= M
      BY <3>1, <3>2, <3>3
    <3>5. origin + from \in Nat /\ origin + from < M
      BY <3>4
    <3>6. QED BY <3>3, <3>5
  <2>3. s = origin + from
    BY <2>1, <2>2, Moduli
  <2>4. from \in Nat /\ from < Modulus /\ from % Modulus = from
    <3>1. from < Modulus
      BY <1>3, <2>2
    <3>2. QED BY <3>1, Moduli
  <2>5. s - origin = from /\ s \in origin .. Modulus - 1
    BY <1>3, <2>2, <2>3
  <2>6. PICK p : p = segs[s]
    OBVIOUS
  <2>7. p \in Seq(Token) /\ Len(p) = n /\ \A i \in 1 .. n : p[i] = q[from + i]
    <3>1. /\ p \in Seq(Token) /\ Len(p) = (IF from + 1 <= from + n THEN (from + n) - (from + 1) + 1 ELSE 0)
          /\ \A i \in 1 .. (from + n) - (from + 1) + 1 : p[i] = q[(from + 1) + i - 1]
      BY <1>2, <2>1, <2>6, PartOf
    <3>2. (from + n) - (from + 1) + 1 = n /\ from + 1 <= from + n /\ \A i \in 1 .. n : (from + 1) + i - 1 = from + i
      OBVIOUS
    <3>3. QED BY <3>1, <3>2
  <2>8. QED BY <2>1, <2>4, <2>5, <2>6, <2>7
<1>6. Segmented(q, origin, segs)
  BY <1>2, <1>5 DEF Segmented
<1>7. PICK H : H = Held(d)
  OBVIOUS
<1>8. H = UNION {(s - origin) + 1 .. (s - origin) + Len(segs[s]) : s \in DOMAIN segs}
  <2>1. H = UNION {((s - origin) % Modulus) + 1 .. ((s - origin) % Modulus) + Len(segs[s]) : s \in DOMAIN segs}
    BY <1>1, <1>7 DEF Held
  <2>2. QED BY <1>5, <2>1
<1>9. Cardinality(H) \in Nat
  <2>1. IsFiniteSet(1 .. nq)
    BY FS_Interval
  <2>2. H \subseteq 1 .. nq
    <3>1. SUFFICES ASSUME NEW p \in H PROVE p \in 1 .. nq
      OBVIOUS
    <3>2. PICK s \in DOMAIN segs : p \in (s - origin) + 1 .. (s - origin) + Len(segs[s])
      BY <1>8
    <3>3. PICK a \in Nat, n \in Nat : a = s - origin /\ n = Len(segs[s]) /\ a + n <= nq
      BY <1>3, <1>5
    <3>4. QED BY <3>2, <3>3
  <2>3. QED BY <2>1, <2>2, FS_Subset, FS_CardinalityType
<1>10. H = 1 .. Cardinality(H)
  BY <1>7 DEF Contiguous
<1>11. ASSUME NEW t \in DOMAIN segs, NEW e \in Nat, origin <= e, e <= t
       PROVE  \E s \in DOMAIN segs : s <= e /\ e < s + Len(segs[s])
  <2>1. PICK p \in Nat : p = (t - origin) + 1
    BY <1>3, <1>5
  <2>2. p \in H
    <3>1. p \in (t - origin) + 1 .. (t - origin) + Len(segs[t])
      <4>1. PICK a \in Nat, n \in Nat \ {0} : a = t - origin /\ n = Len(segs[t])
        BY <1>3, <1>5
      <4>2. QED BY <2>1, <4>1
    <3>2. QED BY <1>8, <3>1
  <2>3. PICK c \in Nat : c = Cardinality(H) /\ p <= c
    BY <1>9, <1>10, <2>2
  <2>4. PICK b : b = (e - origin) + 1
    OBVIOUS
  <2>5. b \in 1 .. c /\ b \in Nat
    <3>1. t \in Nat
      BY <1>3, <1>5
    <3>2. QED BY <1>3, <1>11, <2>1, <2>3, <2>4, <3>1
  <2>6. b \in H
    BY <1>10, <2>3, <2>5
  <2>7. PICK s \in DOMAIN segs : b \in (s - origin) + 1 .. (s - origin) + Len(segs[s])
    BY <1>8, <2>6
  <2>8. PICK n \in Nat : n = Len(segs[s])
    BY <1>3, <1>5
  <2>9. s \in Nat /\ (s - origin) + 1 <= (e - origin) + 1 /\ (e - origin) + 1 <= (s - origin) + n
    BY <1>3, <1>5, <2>4, <2>7, <2>8
  <2>10. s <= e /\ e < s + n
    BY <1>3, <2>9
  <2>11. QED BY <2>8, <2>10
<1>12. Gapless(origin, segs)
  BY <1>11 DEF Gapless
<1>13. QED BY <1>1, <1>3, <1>6, <1>12

\* The prefix of the library.
LEMMA BeginsPrefix ==
  ASSUME NEW p \in Seq(Token), NEW q \in Seq(Token), Begins(p, q)
  PROVE  IsPrefix(p, q)
<1>1. PICK n \in Nat, m \in Nat : n = Len(p) /\ m = Len(q) /\ n <= m
  BY LenProperties DEF Begins
<1>2. PICK a, b : a = SubSeq(p, 1, n) /\ b = SubSeq(q, 1, n)
  OBVIOUS
<1>3. a \in Seq(Token) /\ Len(a) = (IF 1 <= n THEN n - 1 + 1 ELSE 0) /\ \A i \in 1 .. n - 1 + 1 : a[i] = p[1 + i - 1]
  BY <1>1, <1>2, PartOf
<1>4. b \in Seq(Token) /\ Len(b) = (IF 1 <= n THEN n - 1 + 1 ELSE 0) /\ \A i \in 1 .. n - 1 + 1 : b[i] = q[1 + i - 1]
  BY <1>1, <1>2, PartOf
<1>5. ASSUME NEW i \in 1 .. Len(a) PROVE a[i] = b[i]
  <2>1. i \in 1 .. n - 1 + 1 /\ 1 + i - 1 = i /\ i \in 1 .. Len(p)
    BY <1>1, <1>3
  <2>2. QED BY <1>3, <1>4, <2>1 DEF Begins
<1>6. a = b
  BY <1>3, <1>4, <1>5, SeqEqual
<1>7. QED BY <1>1, <1>2, <1>6 DEF IsPrefix

\* What is said of both directions of a passive recording.
Readable ==
  /\ \A d \in Directions : Captured(d) /\ Contiguous(d) /\ ~Wraps(d)
  /\ \A k \in DOMAIN talk : ~ChunkedHead(k)

\* The requests that are read are the first that were written.
LEMMA RequestsAre ==
  ASSUME Talked, said \in 0 .. 2 * Len(talk), isn \in [Directions -> Isns], Readable
  PROVE  /\ Requests \in Seq(Msg) /\ Len(Requests) \in 0 .. Len(talk)
         /\ \A i \in 1 .. Len(Requests) : IsReal("requests", i, Requests[i])
<1>1. PICK d \in Directions : d = "requests"
  BY DEF Directions
<1>2. PICK n : n = Written(d)
  OBVIOUS
<1>3. n \in 0 .. Len(talk) /\ Stream(d) = Together(Messages(d), n) /\ n \in Nat
  BY <1>2, SaidIs, TalkType
<1>4. PICK q, start : q = Stream(d) /\ start = [k \in 1 .. n + 1 |-> Len(Together(Messages(d), k - 1))]
  OBVIOUS
<1>5. Layout(Messages(d), n, q, start) /\ q \in Seq(Token)
  <2>1. Messages(d) \in Seq(Seq(Token)) /\ n \in 0 .. Len(Messages(d))
    BY <1>3, MessagesAre
  <2>2. Layout(Messages(d), n, Together(Messages(d), n), [k \in 1 .. n + 1 |-> Len(Together(Messages(d), k - 1))])
    BY <2>1, TogetherLayout
  <2>3. QED BY <1>3, <1>4, <2>2 DEF Layout
<1>6. PICK data : data = Reassemble(parts[d])
  OBVIOUS
<1>7. data \in Seq(Token) /\ Begins(data, q)
  <2>1. Captured(d) /\ Contiguous(d) /\ ~Wraps(d)
    BY DEF Readable
  <2>2. Segmented(q, isn[d], parts[d]) /\ Gapless(isn[d], parts[d]) /\ isn[d] \in Nat
    BY <1>4, <2>1, CapturedIs
  <2>3. QED BY <1>5, <1>6, <2>2, ReassembleIs
<1>8. Reading(d, n, start, data, n + 1, Parse(d, data, << >>))
  <2>1. Knows(d, n, << >>, n + 1) /\ n + 1 \in Nat
    BY <1>1, <1>3 DEF Knows
  <2>2. \A k \in DOMAIN talk : ~ChunkedHead(k)
    BY DEF Readable
  <2>3. QED BY <1>3, <1>5, <1>7, <2>1, <2>2, ParseIs
<1>9. PICK r : r = Requests
  OBVIOUS
<1>10. r = Parse(d, data, << >>).msgs
  BY <1>1, <1>6, <1>9 DEF Requests
<1>11. PICK N \in Nat : N = Len(r) /\ r \in Seq(Msg)
  BY <1>8, <1>10, LenProperties DEF Reading
<1>12. \A i \in 1 .. N : i <= n + 1 => i <= n /\ IsReal(d, i, r[i])
  BY <1>8, <1>10, <1>11 DEF Reading
<1>13. N <= n
  <2>1. SUFFICES ASSUME N > n PROVE FALSE
    BY <1>3
  <2>2. n + 1 \in 1 .. N /\ n + 1 <= n + 1 /\ ~(n + 1 <= n)
    BY <1>3, <2>1
  <2>3. QED BY <1>12, <2>2
<1>14. \A i \in 1 .. N : IsReal(d, i, r[i])
  BY <1>3, <1>12, <1>13
<1>15. QED BY <1>1, <1>3, <1>9, <1>11, <1>13, <1>14

\* So are the responses, as many as there are requests.
LEMMA ResponsesAre ==
  ASSUME Talked, said \in 0 .. 2 * Len(talk), isn \in [Directions -> Isns], Readable
  PROVE  /\ Responses.ok /\ Responses.msgs \in Seq(Msg)
         /\ \A i \in 1 .. Len(Responses.msgs) : i <= Len(Requests) => IsReal("responses", i, Responses.msgs[i])
<1>1. PICK d \in Directions : d = "responses"
  BY DEF Directions
<1>2. PICK n : n = Written(d)
  OBVIOUS
<1>3. n \in 0 .. Len(talk) /\ Stream(d) = Together(Messages(d), n) /\ n \in Nat
  BY <1>2, SaidIs, TalkType
<1>4. PICK q, start : q = Stream(d) /\ start = [k \in 1 .. n + 1 |-> Len(Together(Messages(d), k - 1))]
  OBVIOUS
<1>5. Layout(Messages(d), n, q, start) /\ q \in Seq(Token)
  <2>1. Messages(d) \in Seq(Seq(Token)) /\ n \in 0 .. Len(Messages(d))
    BY <1>3, MessagesAre
  <2>2. Layout(Messages(d), n, Together(Messages(d), n), [k \in 1 .. n + 1 |-> Len(Together(Messages(d), k - 1))])
    BY <2>1, TogetherLayout
  <2>3. QED BY <1>3, <1>4, <2>2 DEF Layout
<1>6. PICK data : data = Reassemble(parts[d])
  OBVIOUS
<1>7. data \in Seq(Token) /\ Begins(data, q)
  <2>1. Captured(d) /\ Contiguous(d) /\ ~Wraps(d)
    BY DEF Readable
  <2>2. Segmented(q, isn[d], parts[d]) /\ Gapless(isn[d], parts[d]) /\ isn[d] \in Nat
    BY <1>4, <2>1, CapturedIs
  <2>3. QED BY <1>5, <1>6, <2>2, ReassembleIs
<1>20. PICK reqs : reqs = Requests
  OBVIOUS
<1>8. PICK N \in Nat : reqs = Requests /\ N = Len(reqs) /\ reqs \in Seq(Msg) /\ DOMAIN reqs = 1 .. N
  <2>1. reqs \in Seq(Msg)
    BY <1>20, RequestsAre
  <2>2. QED BY <1>20, <2>1, LenProperties
<1>9. \A i \in 1 .. N : IsReal("requests", i, reqs[i])
  BY <1>8, RequestsAre
<1>10. PICK heads : heads = [i \in 1 .. N |-> MethodOf(reqs[i]) = "HEAD"]
  OBVIOUS
<1>11. Len(heads) = N
  BY <1>10
<1>12. \A i \in 1 .. N : heads[i] <=> talk[i].method = "HEAD"
  <2>1. SUFFICES ASSUME NEW i \in 1 .. N PROVE heads[i] <=> talk[i].method = "HEAD"
    OBVIOUS
  <2>2. heads[i] = (MethodOf(reqs[i]) = "HEAD")
    BY <1>10
  <2>3. reqs[i].clean /\ reqs[i].msg = i
    BY <1>9 DEF IsReal
  <2>4. MethodOf(reqs[i]) = talk[i].method
    BY <2>3 DEF MethodOf
  <2>5. QED BY <2>2, <2>4, Zenon
<1>13. Knows(d, n, heads, N)
  <2>1. \A i \in 1 .. n : i <= N => i \in 1 .. N /\ i <= Len(heads)
    BY <1>3, <1>8, <1>11
  <2>2. QED BY <1>12, <2>1 DEF Knows
<1>14. Reading(d, n, start, data, N, Parse(d, data, heads))
  <2>1. \A k \in DOMAIN talk : ~ChunkedHead(k)
    BY DEF Readable
  <2>2. QED BY <1>3, <1>5, <1>7, <1>8, <1>13, <2>1, ParseIs
<1>15. Responses = Parse(d, data, heads)
  <2>1. heads = [i \in DOMAIN Requests |-> MethodOf(Requests[i]) = "HEAD"]
    BY <1>8, <1>10
  <2>2. QED BY <1>1, <1>6, <2>1 DEF Responses
<1>16. PICK r : r = Responses
  OBVIOUS
<1>17. r.ok /\ r.msgs \in Seq(Msg) /\ \A i \in 1 .. Len(r.msgs) : i <= N => IsReal(d, i, r.msgs[i])
  BY <1>14, <1>15, <1>16 DEF Reading
<1>18. QED BY <1>1, <1>8, <1>16, <1>17

\* The rows of a passive recording.
Paired(rs) ==
  \A i \in DOMAIN rs :
     /\ rs[i].req.msg = i /\ rs[i].req.clean /\ IsPrefix(rs[i].req.body, Body("requests", i))
     /\ rs[i].resp # None => /\ rs[i].resp.msg = i /\ rs[i].resp.clean
                             /\ IsPrefix(rs[i].resp.body, Body("responses", i))

\* Each request has a row, with its own response.
LEMMA RowsArePaired ==
  ASSUME Talked, said \in 0 .. 2 * Len(talk), isn \in [Directions -> Isns], Readable
  PROVE  Responses.ok /\ Paired(ExchangesFromPcap)
<1>1. PICK reqs, resps : reqs = Requests /\ resps = Responses.msgs
  OBVIOUS
<1>2. PICK N \in Nat, M \in Nat : /\ N = Len(reqs) /\ reqs \in Seq(Msg) /\ DOMAIN reqs = 1 .. N
                                  /\ M = Len(resps) /\ resps \in Seq(Msg) /\ N <= Len(talk)
  BY <1>1, RequestsAre, ResponsesAre, LenProperties, TalkType
<1>3. /\ \A i \in 1 .. N : IsReal("requests", i, reqs[i])
      /\ \A i \in 1 .. M : i <= N => IsReal("responses", i, resps[i])
      /\ Responses.ok
  BY <1>1, <1>2, RequestsAre, ResponsesAre
<1>4. PICK rs : rs = ExchangesFromPcap
  OBVIOUS
<1>5. rs = [i \in 1 .. N |-> Row(reqs[i], IF i <= M THEN resps[i] ELSE None)]
  BY <1>1, <1>2, <1>4 DEF ExchangesFromPcap
<1>6. ASSUME NEW i \in 1 .. N, NEW d \in Directions, NEW m \in Msg, IsReal(d, i, m)
      PROVE  m.msg = i /\ m.clean /\ IsPrefix(m.body, Body(d, i))
  <2>1. i \in DOMAIN talk
    BY <1>2, TalkType
  <2>2. Body(d, i) \in Seq(Token)
    BY <2>1, MessageIs DEF IsMessage
  <2>3. m.body \in Seq(Token)
    BY DEF Msg
  <2>4. QED BY <1>6, <2>2, <2>3, BeginsPrefix DEF IsReal
<1>7. ASSUME NEW i \in 1 .. N
      PROVE  /\ rs[i].req.msg = i /\ rs[i].req.clean /\ IsPrefix(rs[i].req.body, Body("requests", i))
             /\ rs[i].resp # None => /\ rs[i].resp.msg = i /\ rs[i].resp.clean
                                     /\ IsPrefix(rs[i].resp.body, Body("responses", i))
  <2>1. PICK req, resp : req = reqs[i] /\ resp = IF i <= M THEN resps[i] ELSE None
    OBVIOUS
  <2>2. rs[i] = Row(req, resp)
    BY <1>5, <2>1
  <2>3. rs[i].req = req /\ rs[i].resp = resp
    BY <2>2 DEF Row
  <2>4. req \in Msg /\ IsReal("requests", i, req) /\ "requests" \in Directions
    BY <1>2, <1>3, <2>1, ElementOfSeq DEF Directions
  <2>5. req.msg = i /\ req.clean /\ IsPrefix(req.body, Body("requests", i))
    BY <1>6, <2>4
  <2>6. resp # None => resp.msg = i /\ resp.clean /\ IsPrefix(resp.body, Body("responses", i))
    <3>1. SUFFICES ASSUME resp # None PROVE resp.msg = i /\ resp.clean /\ IsPrefix(resp.body, Body("responses", i))
      OBVIOUS
    <3>2. i <= M /\ resp = resps[i] /\ i \in 1 .. M /\ i <= N
      BY <2>1, <3>1
    <3>3. resp \in Msg /\ IsReal("responses", i, resp) /\ "responses" \in Directions
      BY <1>2, <1>3, <3>2, ElementOfSeq DEF Directions
    <3>4. QED BY <1>6, <3>3
  <2>7. QED BY <2>3, <2>5, <2>6
<1>8. DOMAIN rs = 1 .. N
  BY <1>5
<1>9. Paired(rs)
  BY <1>7, <1>8 DEF Paired
<1>10. QED BY <1>3, <1>4, <1>9

----------------------------------------------------------------------------
(* The invariant.                                                          *)

\* Where the recorder may be.
HttpType ==
  /\ talk \in Talks /\ isn \in [Directions -> Isns] /\ via \in {"proxy", "tcpdump"}
  /\ phase \in {"recording", "written", "failed", "replaying"}
  /\ said \in 0 .. 2 * Len(talk)
  /\ parts = [d \in Directions |-> parts[d]]
  /\ results \in Seq({results[i] : i \in DOMAIN results})

HttpInv == HttpType /\ (\A d \in Directions : Captured(d)) /\ PairsAreReal /\ ReplayIsFair

\* What the type says of the connection.
LEMMA TalkedIs == HttpType => Talked /\ said \in 0 .. 2 * Len(talk) /\ isn \in [Directions -> Isns]
BY DEF HttpType, Talked

\* What follows from the connection and what was captured of it.
LEMMA SameCapture ==
  ASSUME UNCHANGED <<talk, isn, said, parts>>
  PROVE  /\ \A d, k : Body(d, k)' = Body(d, k) /\ Message(d, k)' = Message(d, k)
         /\ \A d : /\ Stream(d)' = Stream(d) /\ Held(d)' = Held(d)
                   /\ Contiguous(d)' <=> Contiguous(d)
                   /\ Wraps(d)' <=> Wraps(d)
                   /\ Captured(d)' <=> Captured(d)
         /\ \A k : ChunkedHead(k)' <=> ChunkedHead(k)
         /\ Talked' <=> Talked
<1>1. \A d, k : Body(d, k)' = Body(d, k)
  BY DEF Body, Units
<1>2. \A d, k : Message(d, k)' = Message(d, k)
  BY <1>1 DEF Message, Units
<1>3. \A d : Stream(d)' = Stream(d)
  BY <1>2 DEF Stream, Written
<1>4. \A d : Held(d)' = Held(d)
  BY DEF Held
<1>5. \A d : Contiguous(d)' <=> Contiguous(d)
  BY <1>4 DEF Contiguous
<1>6. \A d : Wraps(d)' <=> Wraps(d)
  BY <1>3 DEF Wraps
<1>7. \A d : Captured(d)' <=> Captured(d)
  BY <1>3 DEF Captured
<1>8. \A k : ChunkedHead(k)' <=> ChunkedHead(k)
  BY DEF ChunkedHead
<1>9. Talked' <=> Talked
  BY DEF Talked
<1>10. QED BY <1>1, <1>2, <1>3, <1>4, <1>5, <1>6, <1>7, <1>8, <1>9

\* PairsAreReal, by its parts.
LEMMA PairsIs ==
  PairsAreReal <=>
    (/\ via = "tcpdump" /\ phase # "recording"
     /\ \A d \in Directions : Contiguous(d) /\ ~Wraps(d)
     /\ \A k \in DOMAIN talk : ~ChunkedHead(k)
     => phase # "failed" /\ Paired(rows))
BY DEF PairsAreReal, Paired

\* It holds at the start,
LEMMA InitHttp == HttpInit => HttpInv
<1> SUFFICES ASSUME HttpInit PROVE HttpInv
  OBVIOUS
<1>1. talk \in Talks /\ Talked
  BY DEF HttpInit, Talked
<1>2. HttpType
  <2>1. said \in 0 .. 2 * Len(talk)
    BY <1>1, TalkType DEF HttpInit
  <2>2. \A d \in Directions : parts[d] = << >>
    BY DEF HttpInit
  <2>3. parts = [d \in Directions |-> parts[d]]
    BY <2>2 DEF HttpInit
  <2>4. results = << >> /\ << >> \in Seq({results[i] : i \in DOMAIN results})
    BY DEF HttpInit
  <2>5. QED BY <2>1, <2>3, <2>4 DEF HttpInit, HttpType
<1>3. \A d \in Directions : Captured(d)
  <2>1. SUFFICES ASSUME NEW d \in Directions PROVE Captured(d)
    OBVIOUS
  <2>2. parts[d] = << >> /\ DOMAIN << >> = {}
    BY DEF HttpInit
  <2>3. QED BY <2>2 DEF Captured
<1>4. PairsAreReal
  BY PairsIs DEF HttpInit
<1>5. ReplayIsFair
  BY DEF HttpInit, ReplayIsFair
<1>6. QED BY <1>2, <1>3, <1>4, <1>5 DEF HttpInv

\* The results, when none is added.
LEMMA KeepsFair ==
  ASSUME ReplayIsFair, UNCHANGED results
  PROVE  ReplayIsFair'
BY DEF ReplayIsFair

\* The type, when only the phase changes.
LEMMA KeepsType ==
  ASSUME HttpType, UNCHANGED <<talk, isn, via, said, parts, results>>,
         phase' \in {"recording", "written", "failed", "replaying"}
  PROVE  HttpType'
BY DEF HttpType

\* The rows, when they and what was captured stay.
LEMMA KeepsPairs ==
  ASSUME PairsAreReal, UNCHANGED <<talk, isn, via, said, parts>>, via # "tcpdump" \/ UNCHANGED rows,
         via # "tcpdump" \/ phase' = phase \/ (phase = "written" /\ phase' = "replaying")
  PROVE  PairsAreReal'
<1>1. SUFFICES ASSUME (/\ via = "tcpdump" /\ phase # "recording"
                       /\ \A d \in Directions : Contiguous(d) /\ ~Wraps(d)
                       /\ \A k \in DOMAIN talk : ~ChunkedHead(k))'
               PROVE  (phase # "failed")' /\ Paired(rows)'
  BY DEF PairsAreReal, Paired
<1>2. via = "tcpdump" /\ UNCHANGED rows
  BY <1>1
<1>3. /\ \A d \in Directions : Contiguous(d) /\ ~Wraps(d)
      /\ \A k \in DOMAIN talk : ~ChunkedHead(k)
  BY <1>1, SameCapture
<1>4. phase # "recording"
  BY <1>1, <1>2
<1>5. phase # "failed" /\ Paired(rows)
  BY <1>2, <1>3, <1>4, PairsIs
<1>6. (phase # "failed")'
  BY <1>2, <1>5
<1>7. Paired(rows)'
  BY <1>2, <1>5, SameCapture DEF Paired
<1>8. QED BY <1>6, <1>7

\* The capture, when it stays.
LEMMA KeepsCaptured ==
  ASSUME \A d \in Directions : Captured(d), UNCHANGED <<talk, isn, said, parts>>
  PROVE  (\A d \in Directions : Captured(d))'
BY SameCapture

\* Nothing but the recording's state is touched by the proxy.
LEMMA StepProxy ==
  ASSUME HttpInv, NEW k, Accept(k) \/ Forward(k) \/ Reply(k) \/ AppendRow(k)
  PROVE  HttpInv'
<1>1. UNCHANGED <<talk, isn, said, parts, via, phase, left, results>> /\ via = "proxy"
  BY DEF Accept, Forward, Reply, AppendRow, ProxyMove
<1>2. HttpType'
  BY <1>1, KeepsType DEF HttpInv, HttpType
<1>3. PairsAreReal'
  BY <1>1, KeepsPairs DEF HttpInv
<1>4. QED BY <1>1, <1>2, <1>3, KeepsCaptured, KeepsFair DEF HttpInv

\* The proxy ends.
LEMMA StepEndProxy ==
  ASSUME HttpInv, EndProxy
  PROVE  HttpInv'
<1>1. UNCHANGED <<talk, isn, said, parts, via, results>> /\ via = "proxy" /\ phase' = "written"
  BY DEF EndProxy
<1>2. HttpType'
  BY <1>1, KeepsType DEF HttpInv
<1>3. PairsAreReal'
  BY <1>1, KeepsPairs DEF HttpInv
<1>4. QED BY <1>1, <1>2, <1>3, KeepsCaptured, KeepsFair DEF HttpInv

\* A replay begins.
LEMMA StepReplay ==
  ASSUME HttpInv, NEW allMethods, Replay(allMethods)
  PROVE  HttpInv'
<1>1. UNCHANGED <<talk, isn, said, parts, via, rows, results>> /\ phase = "written" /\ phase' = "replaying"
  BY DEF Replay
<1>2. HttpType'
  BY <1>1, KeepsType DEF HttpInv
<1>3. PairsAreReal'
  BY <1>1, KeepsPairs DEF HttpInv
<1>4. QED BY <1>1, <1>2, <1>3, KeepsCaptured, KeepsFair DEF HttpInv

\* Nothing happens.
LEMMA StepStutter ==
  ASSUME HttpInv, UNCHANGED httpVars
  PROVE  HttpInv'
<1>1. UNCHANGED <<talk, isn, said, parts, via, rows, results, phase>>
  BY DEF httpVars
<1>2. HttpType'
  BY <1>1, KeepsType DEF HttpInv, HttpType
<1>3. PairsAreReal'
  BY <1>1, KeepsPairs DEF HttpInv
<1>4. QED BY <1>1, <1>2, <1>3, KeepsCaptured, KeepsFair DEF HttpInv

\* What more is written does not change what was.
LEMMA SegmentStays ==
  ASSUME NEW p \in Seq(Token), NEW q \in Seq(Token), Begins(p, q), NEW from \in Nat, NEW n \in Nat, from + n <= Len(p)
  PROVE  from + n <= Len(q) /\ SubSeq(q, from + 1, from + n) = SubSeq(p, from + 1, from + n)
<1>1. PICK np \in Nat, nq \in Nat : np = Len(p) /\ nq = Len(q) /\ np <= nq
  BY LenProperties DEF Begins
<1>2. PICK a, b, l : a = SubSeq(p, from + 1, from + n) /\ b = SubSeq(q, from + 1, from + n) /\ l = (from + n) - (from + 1) + 1
  OBVIOUS
<1>3. a \in Seq(Token) /\ Len(a) = (IF from + 1 <= from + n THEN l ELSE 0) /\ \A i \in 1 .. l : a[i] = p[(from + 1) + i - 1]
  <2>1. from + 1 \in Nat \ {0} /\ from + n \in Nat /\ from + n <= Len(p)
    OBVIOUS
  <2>2. /\ SubSeq(p, from + 1, from + n) \in Seq(Token)
        /\ Len(SubSeq(p, from + 1, from + n)) = (IF from + 1 <= from + n THEN (from + n) - (from + 1) + 1 ELSE 0)
        /\ \A i \in 1 .. (from + n) - (from + 1) + 1 : SubSeq(p, from + 1, from + n)[i] = p[(from + 1) + i - 1]
    BY <2>1, PartOf
  <2>3. QED BY <1>2, <2>2
<1>4. from + n <= Len(q)
  BY <1>1
<1>5. b \in Seq(Token) /\ Len(b) = (IF from + 1 <= from + n THEN l ELSE 0) /\ \A i \in 1 .. l : b[i] = q[(from + 1) + i - 1]
  <2>1. from + 1 \in Nat \ {0} /\ from + n \in Nat /\ from + n <= Len(q)
    BY <1>4
  <2>2. /\ SubSeq(q, from + 1, from + n) \in Seq(Token)
        /\ Len(SubSeq(q, from + 1, from + n)) = (IF from + 1 <= from + n THEN (from + n) - (from + 1) + 1 ELSE 0)
        /\ \A i \in 1 .. (from + n) - (from + 1) + 1 : SubSeq(q, from + 1, from + n)[i] = q[(from + 1) + i - 1]
    BY <2>1, PartOf
  <2>3. QED BY <1>2, <2>2
<1>6. ASSUME NEW i \in 1 .. Len(a) PROVE a[i] = b[i]
  <2>1. i \in 1 .. l /\ (from + 1) + i - 1 \in 1 .. Len(p)
    <3>1. l = n /\ i \in 1 .. l
      BY <1>2, <1>3
    <3>2. i \in 1 .. n /\ (from + 1) + i - 1 = from + i /\ from + i \in 1 .. np
      BY <1>1, <3>1
    <3>3. QED BY <1>1, <3>1, <3>2
  <2>2. q[(from + 1) + i - 1] = p[(from + 1) + i - 1]
    BY <2>1 DEF Begins
  <2>3. QED BY <1>3, <1>5, <2>1, <2>2
<1>7. a = b
  BY <1>3, <1>5, <1>6, SeqEqual
<1>8. QED BY <1>2, <1>4, <1>7

\* A message is written.
LEMMA StepSpeak ==
  ASSUME HttpInv, Speak
  PROVE  HttpInv'
<1>1. UNCHANGED <<talk, isn, parts, via, rows, results, phase>> /\ said' = said + 1 /\ said < 2 * Len(talk) /\ phase = "recording"
  BY DEF Speak
<1>2. Talked /\ said \in 0 .. 2 * Len(talk) /\ HttpType /\ Len(talk) \in Nat
  BY TalkedIs, TalkType DEF HttpInv
<1>3. said' \in 0 .. 2 * Len(talk)
  BY <1>1, <1>2
<1>4. HttpType'
  BY <1>1, <1>2, <1>3 DEF HttpType
<1>5. ASSUME NEW d \in Directions PROVE Captured(d)'
  <2>1. PICK w : w = Written(d)'
    OBVIOUS
  <2>2. w \in 0 .. Len(talk) /\ Written(d) \in 0 .. w
    <3>1. PICK n \in Nat, s \in Nat : n = Len(talk) /\ s = said /\ s < 2 * n
      BY <1>1, <1>2
    <3>2. /\ (s + 1) \div 2 \in Nat /\ ((s + 1) + 1) \div 2 \in 0 .. n /\ (s + 1) \div 2 <= ((s + 1) + 1) \div 2
          /\ s \div 2 \in Nat /\ (s + 1) \div 2 \in 0 .. n /\ s \div 2 <= (s + 1) \div 2
      BY <3>1
    <3>3. said' = s + 1
      BY <1>1, <3>1
    <3>4. QED BY <2>1, <3>1, <3>2, <3>3 DEF Written
  <2>3. Stream(d)' = Together(Messages(d), w)
    <3>1. \A k : Message(d, k)' = Message(d, k)
      BY <1>1 DEF Message, Body, Units
    <3>2. Stream(d)' = FlattenSeq([k \in 1 .. w |-> Message(d, k)])
      BY <2>1, <3>1 DEF Stream
    <3>3. QED BY <1>2, <2>2, <3>2, StreamIs
  <2>4. PICK p, q : p = Stream(d) /\ q = Stream(d)'
    OBVIOUS
  <2>5. p \in Seq(Token) /\ q \in Seq(Token) /\ Begins(p, q)
    <3>1. p = Together(Messages(d), Written(d)) /\ q = Together(Messages(d), w)
      BY <1>2, <2>3, <2>4, SaidIs
    <3>2. Messages(d) \in Seq(Seq(Token)) /\ w \in 0 .. Len(Messages(d))
      BY <1>2, <2>2, MessagesAre
    <3>3. QED BY <2>2, <3>1, <3>2, TogetherGrows
  <2>6. Captured(d)
    BY DEF HttpInv
  <2>7. SUFFICES ASSUME NEW s \in DOMAIN parts[d]
                 PROVE  \E from \in Nat, n \in 1 .. MaxSegment :
                          /\ from + n <= Len(q) /\ s = (isn[d] + from) % Modulus
                          /\ parts[d][s] = SubSeq(q, from + 1, from + n)
    BY <1>1, <2>4 DEF Captured
  <2>8. PICK from \in Nat, n \in 1 .. MaxSegment :
               /\ from + n <= Len(p) /\ s = (isn[d] + from) % Modulus
               /\ parts[d][s] = SubSeq(p, from + 1, from + n)
    BY <2>4, <2>6 DEF Captured
  <2>9. n \in Nat
    BY Moduli
  <2>10. from + n <= Len(q) /\ SubSeq(q, from + 1, from + n) = SubSeq(p, from + 1, from + n)
    BY <2>5, <2>8, <2>9, SegmentStays
  <2>11. QED BY <2>8, <2>10
<1>6. PairsAreReal'
  BY <1>1 DEF PairsAreReal
<1>7. QED BY <1>1, <1>4, <1>5, <1>6, KeepsFair DEF HttpInv

\* A segment is captured.
LEMMA StepCapture ==
  ASSUME HttpInv, NEW d \in Directions, NEW n \in 1 .. MaxSegment, NEW from \in 0 .. Len(Stream(d)), Capture(d, from, n)
  PROVE  HttpInv'
<1>1. /\ UNCHANGED <<talk, isn, said, via, rows, phase, results>> /\ phase = "recording" /\ from + n <= Len(Stream(d))
      /\ parts' = [parts EXCEPT ![d] = Keep(parts[d], (isn[d] + from) % Modulus, SubSeq(Stream(d), from + 1, from + n))]
  BY DEF Capture
<1>2. parts = [x \in Directions |-> parts[x]] /\ HttpType
  BY DEF HttpInv, HttpType
<1>3. PICK seq, payload, segs : /\ seq = (isn[d] + from) % Modulus /\ payload = SubSeq(Stream(d), from + 1, from + n)
                                /\ segs = Keep(parts[d], seq, payload)
  OBVIOUS
<1>4. parts' = [x \in Directions |-> IF x = d THEN segs ELSE parts[x]]
  BY <1>1, <1>2, <1>3
<1>5. HttpType'
  <2>1. (parts = [x \in Directions |-> parts[x]])'
    BY <1>4
  <2>2. QED BY <1>1, <1>2, <2>1 DEF HttpType
<1>6. \A x : Stream(x)' = Stream(x)
  BY <1>1 DEF Stream, Written, Message, Body, Units
<1>7. ASSUME NEW x \in Directions PROVE Captured(x)'
  <2>1. Captured(x)
    BY DEF HttpInv
  <2>2. CASE x # d
    <3>1. parts'[x] = parts[x]
      BY <1>4, <2>2
    <3>2. QED BY <1>1, <1>6, <2>1, <3>1 DEF Captured
  <2>3. CASE x = d
    <3>1. parts'[d] = segs
      BY <1>4
    <3>2. ASSUME NEW s \in DOMAIN segs
          PROVE  \E f \in Nat, m \in 1 .. MaxSegment :
                   /\ f + m <= Len(Stream(d)) /\ s = (isn[d] + f) % Modulus
                   /\ segs[s] = SubSeq(Stream(d), f + 1, f + m)
      <4>1. CASE s \in DOMAIN parts[d] /\ segs[s] = parts[d][s]
        BY <2>1, <2>3, <4>1 DEF Captured
      <4>2. CASE ~(s \in DOMAIN parts[d] /\ segs[s] = parts[d][s])
        <5>1. s = seq /\ segs[s] = payload
          BY <1>3, <4>2 DEF Keep
        <5>2. from \in Nat
          OBVIOUS
        <5>3. QED BY <1>1, <1>3, <5>1, <5>2
      <4>3. QED BY <4>1, <4>2
    <3>3. SUFFICES ASSUME NEW s \in DOMAIN parts'[d]
                   PROVE  \E f \in Nat, m \in 1 .. MaxSegment :
                            /\ f + m <= Len(Stream(d)) /\ s = (isn[d] + f) % Modulus
                            /\ parts'[d][s] = SubSeq(Stream(d), f + 1, f + m)
      BY <1>1, <1>6, <2>3 DEF Captured
    <3>4. QED BY <3>1, <3>2
  <2>4. QED BY <2>2, <2>3
<1>8. PairsAreReal'
  BY <1>1 DEF PairsAreReal
<1>9. QED BY <1>1, <1>5, <1>7, <1>8, KeepsFair DEF HttpInv

\* The capture is read.
LEMMA StepEndCapture ==
  ASSUME HttpInv, EndCapture
  PROVE  HttpInv'
<1>1. UNCHANGED <<talk, isn, said, parts, via, results>>
  BY DEF EndCapture
<1>2. phase' \in {"written", "failed"} /\ (Responses.ok => phase' = "written" /\ rows' = ExchangesFromPcap)
  BY DEF EndCapture
<1>3. HttpType'
  BY <1>1, <1>2, KeepsType DEF HttpInv
<1>4. PairsAreReal'
  <2>1. SUFFICES ASSUME (/\ via = "tcpdump" /\ phase # "recording"
                         /\ \A d \in Directions : Contiguous(d) /\ ~Wraps(d)
                         /\ \A k \in DOMAIN talk : ~ChunkedHead(k))'
                 PROVE  (phase # "failed")' /\ Paired(rows)'
    BY DEF PairsAreReal, Paired
  <2>2. Readable
    BY <1>1, <2>1, SameCapture DEF Readable, HttpInv
  <2>3. Responses.ok /\ Paired(ExchangesFromPcap)
    BY <2>2, TalkedIs, RowsArePaired DEF HttpInv
  <2>4. (phase # "failed")' /\ rows' = ExchangesFromPcap
    BY <1>2, <2>3
  <2>5. PICK rs : rs = rows'
    OBVIOUS
  <2>6. Paired(rs)
    BY <2>3, <2>4, <2>5
  <2>7. \A d, k : Body(d, k)' = Body(d, k)
    BY <1>1, SameCapture
  <2>8. Paired(rows)'
    BY <2>5, <2>6, <2>7 DEF Paired
  <2>9. QED BY <2>4, <2>8
<1>5. QED BY <1>1, <1>3, <1>4, KeepsCaptured, KeepsFair DEF HttpInv

\* A row is replayed.
LEMMA StepSend ==
  ASSUME HttpInv, SendNext
  PROVE  HttpInv'
<1>1. UNCHANGED <<talk, isn, said, parts, via, rows, phase>>
  BY DEF SendNext
<1>2. PICK row, answer, match, e :
        /\ row = Head(left) /\ match = (SameStatus(row, answer) /\ SameBody(row, answer))
        /\ e = [row |-> row, answer |-> answer, match |-> match] /\ results' = Append(results, e)
  BY DEF SendNext
<1>3. PICK S, T : S = {results[i] : i \in DOMAIN results} /\ T = S \cup {e}
  OBVIOUS
<1>4. results \in Seq(S)
  BY <1>3 DEF HttpInv, HttpType
<1>5. PICK n \in Nat : n = Len(results) /\ DOMAIN results = 1 .. n
  BY <1>4, LenProperties
<1>6. results \in Seq(T)
  BY <1>3, <1>4, SeqMonotonic
<1>7. PICK new : new = results'
  OBVIOUS
<1>8. /\ new \in Seq(T) /\ Len(new) = n + 1 /\ DOMAIN new = 1 .. n + 1 /\ new[n + 1] = e
      /\ \A i \in 1 .. n : new[i] = results[i]
  <2>1. new = Append(results, e) /\ e \in T
    BY <1>2, <1>3, <1>7
  <2>2. QED BY <1>5, <1>6, <2>1
<1>9. new \in Seq({new[i] : i \in DOMAIN new})
  <2>1. new \in [1 .. n + 1 -> {new[i] : i \in DOMAIN new}]
    BY <1>8
  <2>2. QED BY <2>1
<1>10. HttpType'
  <2>1. (results \in Seq({results[i] : i \in DOMAIN results}))'
    BY <1>7, <1>9
  <2>2. QED BY <1>1, <2>1 DEF HttpInv, HttpType
<1>11. ASSUME row.resp # None, row.expects = row.resp.body
       PROVE  match <=> (answer.status = "recorded" /\ (row.method # "HEAD" => answer.body = row.resp.body))
  BY <1>2, <1>11 DEF SameStatus, SameBody
<1>12. ReplayIsFair'
  <2>1. SUFFICES ASSUME NEW i \in DOMAIN new, new[i].row.resp # None, new[i].row.expects = new[i].row.resp.body
                 PROVE  new[i].match <=> (new[i].answer.status = "recorded"
                                          /\ (new[i].row.method # "HEAD" => new[i].answer.body = new[i].row.resp.body))
    BY <1>7 DEF ReplayIsFair
  <2>2. CASE i = n + 1
    <3>1. new[i] = e
      BY <1>8, <2>2
    <3>2. new[i].row = row /\ new[i].answer = answer /\ new[i].match = match
      BY <1>2, <3>1
    <3>3. QED BY <1>11, <2>1, <3>2
  <2>3. CASE i # n + 1
    <3>1. i \in 1 .. n /\ i \in DOMAIN results
      BY <1>5, <1>8, <2>3
    <3>2. new[i] = results[i]
      BY <1>8, <3>1
    <3>3. QED BY <2>1, <3>1, <3>2 DEF HttpInv, ReplayIsFair
  <2>4. QED BY <2>2, <2>3
<1>13. PairsAreReal'
  BY <1>1, KeepsPairs DEF HttpInv
<1>14. QED BY <1>1, <1>10, <1>12, <1>13, KeepsCaptured DEF HttpInv

\* and every step keeps it.
LEMMA HttpInductive == HttpInv /\ [HttpNext]_httpVars => HttpInv'
<1> SUFFICES ASSUME HttpInv, [HttpNext]_httpVars PROVE HttpInv'
  OBVIOUS
<1>1. CASE Speak
  BY <1>1, StepSpeak
<1>2. ASSUME NEW d \in Directions, NEW n \in 1 .. MaxSegment, NEW from \in 0 .. Len(Stream(d)), Capture(d, from, n)
      PROVE  HttpInv'
  BY <1>2, StepCapture
<1>3. CASE EndCapture
  BY <1>3, StepEndCapture
<1>4. ASSUME NEW k \in DOMAIN talk, Accept(k) \/ Forward(k) \/ Reply(k) \/ AppendRow(k)
      PROVE  HttpInv'
  BY <1>4, StepProxy
<1>5. CASE EndProxy
  BY <1>5, StepEndProxy
<1>6. ASSUME NEW allMethods \in BOOLEAN, Replay(allMethods) PROVE HttpInv'
  BY <1>6, StepReplay
<1>7. CASE SendNext
  BY <1>7, StepSend
<1>8. CASE UNCHANGED httpVars
  BY <1>8, StepStutter
<1>9. QED BY <1>1, <1>2, <1>3, <1>4, <1>5, <1>6, <1>7, <1>8 DEF HttpNext

\* So it always holds.
LEMMA HttpAlways == HttpSpec => []HttpInv
BY InitHttp, HttpInductive, PTL DEF HttpSpec

\* A passive recording joins every request with its own response: whatever
\* the connection carries, however its segments are cut, repeated and
\* reordered, if none is missing and the numbers do not wrap.
THEOREM RowsPairUp == HttpSpec => []PairsAreReal
<1>1. HttpInv => PairsAreReal
  BY DEF HttpInv
<1>2. QED BY <1>1, HttpAlways, PTL

\* A replayed row is said to match exactly when the target's answer is the
\* recorded one, if that was kept whole.
THEOREM ReplayJudgesRightly == HttpSpec => []ReplayIsFair
<1>1. HttpInv => ReplayIsFair
  BY DEF HttpInv
<1>2. QED BY <1>1, HttpAlways, PTL

=============================================================================
