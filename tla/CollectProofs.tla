---------------------------- MODULE CollectProofs ----------------------------
(***************************************************************************)
(* Proofs about Collect, for any containers that depend on each other in   *)
(* any way, any sizes of the recorder, and any number of lines, events,    *)
(* polls and faults.                                                       *)
(***************************************************************************)
EXTENDS Collect, FiniteSetTheorems, SequenceTheorems, WellFoundedInduction, TLAPS

Line == [t : Nat, level : {"error", "warn", "other"}, key : STRING]
Happening == [t : Nat, of : Box, action : {"create", "start", "die", "kill", "oom", "unhealthy"}, code : Nat]

\* A container that wrote and went away; it does not come back.
Gone(c) == box[c].state = "none" /\ box[c].log # << >>

Died(i, c) == evs[i].of = c /\ evs[i].action = "die"

Container == [state : {"none", "created", "running", "exited"}, life : Nat, log : Seq(Line)]

Typed == box \in [Box -> Container]

\* The logs are in the order of time.
Logged ==
  /\ clock \in Nat /\ 1 <= clock
  /\ \A c \in Box : \A i, j \in 1 .. Lines(c) : i <= j => box[c].log[i].t <= box[c].log[j].t
  /\ \A c \in Box : \A i \in 1 .. Lines(c) : 1 <= box[c].log[i].t /\ box[c].log[i].t <= clock

\* A container dies once in a life.
Lived ==
  /\ evs \in Seq(Happening)
  /\ \A c \in Box : box[c].state = "running" => box[c].life >= 1
  /\ \A c \in Box : \A i \in 1 .. Len(evs) :
       Died(i, c) => box[c].life >= 1 /\ (box[c].state = "running" => box[c].life >= 2)
  /\ \A c \in Box : \A i, j \in 1 .. Len(evs) : i # j /\ Died(i, c) /\ Died(j, c) => box[c].life >= 2

World == Typed /\ Logged /\ Lived

\* What changes in it only adds to what there is.
Grows ==
  /\ \A c \in Box : Lines(c) <= Lines(c)' /\ \A i \in 1 .. Lines(c) : box'[c].log[i] = box[c].log[i]
  /\ Len(evs) <= Len(evs') /\ \A i \in 1 .. Len(evs) : evs'[i] = evs[i]
  /\ \A c \in Box : box[c].life <= box'[c].life /\ (Gone(c) => Gone(c)')

Ats == {"begin", "poll", "sleep", "over", "open", "events", "inspect", "drain", "list", "logs"}

Command == cmd \in [kind : {"logs", "blackbox", "incident"}, at : Ats, from : Nat, on : SUBSET Box]

(***************************************************************************)
(* fleet logs.                                                             *)
(***************************************************************************)

Answer == [at : {"idle", "ask", "got", "done", "failed"}, n : Nat, since : Nat]

FollowTyped ==
  /\ pull \in [Box -> Answer] /\ late \in [Box -> SUBSET Answer] /\ mark \in [Box -> Nat]
  /\ seen \in [Box -> SUBSET Nat] /\ lines \in [Box -> Seq(Nat)] /\ errors \subseteq Box /\ cut \subseteq Box
  /\ \A c \in Box : pull[c].at = "got" => pull[c].n <= Lines(c)
  /\ \A c \in Box : \A text \in late[c] : text.n <= Lines(c)

\* Which host is where in a poll.
Polls ==
  /\ \A c \in Box \ cmd.on : pull[c].at = "idle"
  /\ cmd.at = "begin" => \A c \in Box : pull[c].at = "idle"
  /\ cmd.kind = "logs" /\ cmd.at \in {"sleep", "over"} =>
       \A c \in cmd.on : pull[c].at \in {"done", "failed"} /\ (pull[c].at = "failed" => c \in errors)

\* What was listed was seen, and nothing twice.
Listed == \A c \in Box : IsInjective(lines[c]) /\ \A i \in 1 .. Len(lines[c]) : lines[c][i] \in seen[c]

\* Of a host that never failed and of which nothing was left out, the first lines are listed and seen, the
\* watermark is the last of them, and none of its polls is still going on.
Steady(c) ==
  LET m == Len(lines[c])
  IN /\ late[c] = {}
     /\ m <= Lines(c) /\ lines[c] = [i \in 1 .. m |-> i] /\ seen[c] = 1 .. m
     /\ mark[c] = IF m = 0 THEN 1 ELSE box[c].log[m].t
     /\ pull[c].at = "got" => pull[c].since = mark[c] /\ m <= pull[c].n
     /\ pull[c].at = "done" => pull[c].n = m

FollowInv == FollowTyped /\ Polls /\ Listed /\ \A c \in Box \ (Failed \cup cut) : Steady(c)

(***************************************************************************)
(* system blackbox.                                                        *)
(***************************************************************************)

TapeTyped ==
  /\ tape \in [Box -> [at : {"none", "inspect", "stream", "over"}, got : Nat, life : Nat]]
  /\ \A c \in Box : tape[c].got <= Units * Lines(c)

Name(e) == <<e.of, e.t, e.action>>

Contiguous(s) == \A i \in 1 .. Len(s) - 1 : s[i + 1] = s[i] + 1

\* A record is of an event and of whole lines that its container wrote.
Sound(f) ==
  /\ \E i \in 1 .. Len(evs) : Name(evs[i]) = f
  /\ files[f].logs \in Seq(Nat) /\ Contiguous(files[f].logs) /\ Len(files[f].logs) <= Keep
  /\ \A i \in 1 .. Len(files[f].logs) : files[f].logs[i] <= Lines(f[1])

AtHand == cmd.at \in {"inspect", "drain"}

Recorded(i) == Name(evs[i]) \in DOMAIN files /\ files[Name(evs[i])].code = evs[i].code

\* How far the events were read; the keys are of those that were inspected.
Recording ==
  /\ cmd.from \in Nat /\ pos \in Nat /\ cmd.from <= pos /\ pos <= Len(evs)
  /\ cmd.at \in {"begin", "open"} => keys = {}
  /\ AtHand => cmd.from < pos /\ ev = evs[pos]
  /\ \A k \in keys : \E j \in 1 .. pos : evs[j].of = k[1] /\ evs[j].action = k[3] /\ (cmd.at = "inspect" => j < pos)
  /\ cmd.at \notin {"begin", "open"} =>
       \A i \in cmd.from + 1 .. pos :
         evs[i].action = "die" /\ box[evs[i].of].life = 1 => Recorded(i) \/ (AtHand /\ i = pos)
  /\ cmd.at = "over" => pos = Len(evs) \/ count >= MaxRecords

RecordInv == TapeTyped /\ count \in Nat /\ (\A f \in DOMAIN files : Sound(f)) /\ (cmd.kind = "blackbox" => Recording)

(***************************************************************************)
(* system incident.                                                        *)
(***************************************************************************)

Signal == Box \X Nat \X {"event", "log"}

\* The error is in its container's log.
Wrote(k) == k \in Failures(k[1], Faulty(k[1]))

\* An error no later than this one has been heard of, if the log is one that
\* tells of its first.
Explained(k) == Told(k[1]) => \E h \in heard : h[1] = k[1] /\ h[2] <= k[2]

\* Of the failures there were when the command began, those that events tell
\* of have been heard, and the errors are explained, or of a container that
\* has gone, or in a log still to be read.
IncidentInv ==
  /\ heard \subseteq Signal /\ known \subseteq Signal /\ todo \subseteq Box /\ faults \in Nat
  /\ cmd.kind = "incident" /\ cmd.at \in {"list", "logs", "over"} =>
       \A k \in known : IF k[3] = "event" THEN k \in heard ELSE Wrote(k)
  /\ cmd.kind = "incident" /\ cmd.at \in {"logs", "over"} /\ faults = 0 =>
       \A k \in known : k[3] = "log" => Gone(k[1]) \/ Explained(k) \/ (cmd.at = "logs" /\ k[1] \in todo)
  /\ cmd.kind = "incident" /\ cmd.at = "over" => report \in Analyze(heard, Depends) \cup Analyze(heard, Alone)

IInv == World /\ Command /\ FollowInv /\ RecordInv /\ IncidentInv

-----------------------------------------------------------------------------
(* Numbers.  A set of numbers stands for a property of them, where a pencil  *)
(* proof would use induction.                                                *)

\* A nonempty set of natural numbers has a least element.
LEMMA HasLeast ==
  ASSUME NEW T, T \subseteq Nat, T # {}
  PROVE  \E x \in T : \A y \in T : x <= y
<1> DEFINE R == OpToRel(<, Nat)
<1>1. IsWellFoundedOn(R, Nat)
  BY NatLessThanWellFounded, Zenon
<1>2. R = {ss \in Nat \X Nat : ss[1] < ss[2]}
  BY Zenon DEF OpToRel
<1> HIDE DEF R
<1>3. PICK x \in T : \A y \in T : ~ (<<y, x>> \in R)
  BY <1>1, WFMin
<1>4. \A y \in T : ~ (y < x)
  BY <1>2, <1>3
<1>5. QED BY <1>4

\* What holds of 0 and of the successor of each holds up to n.
LEMMA UpTo ==
  ASSUME NEW n \in Nat, NEW T, 0 \in T, \A i \in 0 .. n - 1 : i \in T => i + 1 \in T
  PROVE  0 .. n \subseteq T
<1> DEFINE Bad == {i \in 0 .. n : i \notin T}
<1> SUFFICES ASSUME Bad # {} PROVE FALSE
  OBVIOUS
<1>1. Bad \subseteq Nat
  OBVIOUS
<1>2. PICK i \in Bad : \A j \in Bad : i <= j
  <2> HIDE DEF Bad
  <2>1. QED BY <1>1, HasLeast
<1>3. i \in 0 .. n /\ i \notin T /\ i # 0
  OBVIOUS
<1>4. i - 1 \in 0 .. n - 1 /\ i - 1 \notin Bad
  BY <1>2, <1>3
<1>5. i - 1 \in T
  BY <1>4
<1>6. (i - 1) + 1 \in T
  BY <1>4, <1>5
<1>7. QED BY <1>3, <1>6

\* A nonempty set of numbers up to n has a greatest element, and it is the one
\* that Max takes.
LEMMA HasGreatest ==
  ASSUME NEW n \in Nat, NEW T, T \subseteq 1 .. n, T # {}
  PROVE  Max(T) \in T /\ \A y \in T : y <= Max(T)
<1> DEFINE U == {i \in Nat : \A y \in T : y <= i}
<1>1. n \in U /\ U \subseteq Nat
  OBVIOUS
<1>2. PICK x \in U : \A y \in U : x <= y
  <2> HIDE DEF U
  <2>1. QED BY <1>1, HasLeast
<1>3. x \in T
  <2>1. SUFFICES ASSUME x \notin T PROVE FALSE
    OBVIOUS
  <2>2. PICK y \in T : TRUE
    OBVIOUS
  <2>3. x \in Nat /\ x >= y /\ y >= 1
    BY <2>2
  <2>4. x - 1 \in U
    BY <2>1, <2>3
  <2>5. QED BY <1>2, <2>3, <2>4
<1>4. \E m \in T : \A y \in T : y <= m
  BY <1>3
<1>5. QED BY <1>4 DEF Max

\* Min takes the least element of a set of numbers.
LEMMA Least ==
  ASSUME NEW T, T \subseteq Nat, T # {}
  PROVE  Min(T) \in T /\ \A y \in T : Min(T) <= y
BY HasLeast DEF Min

\* A function up to n whose values are given each by the one before.
Stepwise(n, S, a, step, g) ==
  g \in [0 .. n -> S] /\ g = [i \in 0 .. n |-> IF i = 0 THEN a ELSE step[<<i, g[i - 1]>>]]

\* There is one.
LEMMA Steps ==
  ASSUME NEW n \in Nat, NEW S, NEW a \in S, NEW step \in [(1 .. n) \X S -> S]
  PROVE  \E g : Stepwise(n, S, a, step, g)
<1> DEFINE Made(m, g) == Stepwise(m, S, a, step, g)
           T == {m \in 0 .. n : \E g : Made(m, g)}
<1>1. 0 \in T
  <2>1. Made(0, [i \in 0 .. 0 |-> a])
    BY DEF Stepwise
  <2>2. \E g : Made(0, g)
    BY <2>1
  <2> HIDE DEF Made
  <2>3. QED BY <2>2
<1>2. ASSUME NEW m \in 0 .. n - 1, m \in T PROVE m + 1 \in T
  <2>1. PICK g : Made(m, g)
    BY <1>2
  <2> DEFINE h == [i \in 0 .. m + 1 |-> IF i = m + 1 THEN step[<<i, g[m]>>] ELSE g[i]]
  <2>2. m \in Nat /\ m + 1 \in 1 .. n /\ g[m] \in S
    BY <2>1 DEF Stepwise
  <2>3. h \in [0 .. m + 1 -> S]
    BY <2>1, <2>2 DEF Stepwise
  <2>4. ASSUME NEW i \in 0 .. m + 1 PROVE h[i] = IF i = 0 THEN a ELSE step[<<i, h[i - 1]>>]
    <3>1. CASE i = m + 1
      <4>1. i # 0 /\ i - 1 = m /\ h[m] = g[m] /\ h[i] = step[<<i, g[m]>>]
        BY <2>2, <3>1
      <4>2. QED BY <4>1
    <3>2. CASE i # m + 1
      <4>1. i \in 0 .. m /\ h[i] = g[i]
        BY <2>2, <3>2
      <4>2. i # 0 => h[i - 1] = g[i - 1]
        BY <2>2, <4>1
      <4>3. g[i] = IF i = 0 THEN a ELSE step[<<i, g[i - 1]>>]
        BY <2>1, <4>1 DEF Stepwise
      <4>4. QED BY <4>1, <4>2, <4>3
    <3>3. QED BY <3>1, <3>2
  <2>5. h = [i \in 0 .. m + 1 |-> IF i = 0 THEN a ELSE step[<<i, h[i - 1]>>]]
    BY <2>4
  <2>6. Made(m + 1, h)
    BY <2>3, <2>5 DEF Stepwise
  <2> HIDE DEF Made, h
  <2>7. m + 1 \in 0 .. n /\ \E f : Made(m + 1, f)
    BY <2>2, <2>6
  <2>8. QED BY <2>7
<1>3. 0 .. n \subseteq T
  <2> HIDE DEF T
  <2>1. QED BY <1>1, <1>2, UpTo
<1>4. n \in T
  BY <1>3
<1>5. QED BY <1>4

-----------------------------------------------------------------------------
(* The lines taken from an answer.                                           *)

\* InOrder lists members of the set, each once; all of 1 .. n when they follow m.
LEMMA Ordered ==
  ASSUME NEW n \in Nat, NEW W, W \subseteq 1 .. n
  PROVE  /\ InOrder(W, n) \in Seq(W) /\ IsInjective(InOrder(W, n))
         /\ \A m \in 0 .. n : W = m + 1 .. n => InOrder(W, n) = [j \in 1 .. n - m |-> m + j]
<1> DEFINE step == [x \in (1 .. n) \X Seq(W) |-> IF x[1] \in W THEN Append(x[2], x[1]) ELSE x[2]]
           L == CHOOSE g : g = [i \in 0 .. n |->
                  IF i = 0 THEN << >> ELSE IF i \in W THEN Append(g[i - 1], i) ELSE g[i - 1]]
<1>1. step \in [(1 .. n) \X Seq(W) -> Seq(W)] /\ << >> \in Seq(W)
  <2>1. ASSUME NEW x \in (1 .. n) \X Seq(W)
        PROVE  (IF x[1] \in W THEN Append(x[2], x[1]) ELSE x[2]) \in Seq(W)
    <3>1. x[2] \in Seq(W)
      OBVIOUS
    <3>2. QED BY <3>1, AppendProperties
  <2>2. QED BY <2>1
<1>2. PICK g : Stepwise(n, Seq(W), << >>, step, g)
  <2> HIDE DEF step
  <2>1. QED BY <1>1, Steps
<1>3. ASSUME NEW i \in 0 .. n
      PROVE  g[i] = IF i = 0 THEN << >> ELSE IF i \in W THEN Append(g[i - 1], i) ELSE g[i - 1]
  <2>1. CASE i = 0
    BY <1>2, <2>1 DEF Stepwise
  <2>2. CASE i # 0
    <3>1. i \in 1 .. n /\ g[i - 1] \in Seq(W) /\ g[i] = step[<<i, g[i - 1]>>]
      <4>1. i \in 1 .. n /\ i - 1 \in 0 .. n
        BY <2>2
      <4>2. QED BY <1>2, <2>2, <4>1 DEF Stepwise
    <3>2. <<i, g[i - 1]>> \in (1 .. n) \X Seq(W)
      BY <3>1
    <3>3. step[<<i, g[i - 1]>>] = IF i \in W THEN Append(g[i - 1], i) ELSE g[i - 1]
      BY <3>2
    <3>4. QED BY <2>2, <3>1, <3>3
  <2>3. QED BY <2>1, <2>2
<1>4. g = [i \in 0 .. n |-> IF i = 0 THEN << >> ELSE IF i \in W THEN Append(g[i - 1], i) ELSE g[i - 1]]
  BY <1>2, <1>3 DEF Stepwise
<1> HIDE DEF step
<1>5. L = [i \in 0 .. n |-> IF i = 0 THEN << >> ELSE IF i \in W THEN Append(L[i - 1], i) ELSE L[i - 1]]
  BY <1>4
<1>6. InOrder(W, n) = L[n]
  BY DEF InOrder
<1> HIDE DEF L
<1>7. ASSUME NEW i \in 0 .. n
      PROVE  L[i] = IF i = 0 THEN << >> ELSE IF i \in W THEN Append(L[i - 1], i) ELSE L[i - 1]
  BY <1>5
<1> DEFINE Good(i) == L[i] \in Seq(W) /\ IsInjective(L[i]) /\ \A j \in 1 .. Len(L[i]) : L[i][j] <= i
           T == {i \in 0 .. n : Good(i)}
<1>8. 0 .. n \subseteq T
  <2>1. 0 \in T
    <3>1. L[0] = << >>
      BY <1>7
    <3>2. << >> \in Seq(W) /\ Len(<< >>) = 0 /\ DOMAIN << >> = {}
      OBVIOUS
    <3>3. Good(0)
      BY <3>1, <3>2 DEF IsInjective
    <3>4. QED BY <3>3
  <2>2. ASSUME NEW i \in 0 .. n - 1, i \in T PROVE i + 1 \in T
    <3>1. i \in 0 .. n /\ i + 1 \in 1 .. n /\ Good(i)
      BY <2>2
    <3>2. L[i + 1] = IF i + 1 \in W THEN Append(L[i], i + 1) ELSE L[i]
      BY <1>7, <3>1
    <3>3. CASE i + 1 \in W
      <4> DEFINE s == L[i]
                 r == L[i + 1]
      <4>1. s \in Seq(W) /\ IsInjective(s) /\ (\A j \in 1 .. Len(s) : s[j] <= i) /\ r = Append(s, i + 1)
        BY <3>1, <3>2, <3>3
      <4> HIDE DEF s, r
      <4>2. r \in Seq(W) /\ Len(s) \in Nat /\ Len(r) = Len(s) + 1 /\ DOMAIN r = 1 .. Len(s) + 1
        BY <3>3, <4>1
      <4>3. \A j \in 1 .. Len(s) + 1 : r[j] = IF j = Len(s) + 1 THEN i + 1 ELSE s[j]
        BY <4>1, <4>2
      <4>4. \A j \in 1 .. Len(s) : s[j] \in Nat /\ s[j] # i + 1 /\ s[j] <= i + 1 /\ j \in DOMAIN s
        <5>1. ASSUME NEW j \in 1 .. Len(s) PROVE s[j] \in Nat /\ s[j] <= i /\ j \in DOMAIN s
          <6>1. s[j] \in W /\ j \in DOMAIN s
            BY <4>1, ElementOfSeq
          <6>2. s[j] \in 1 .. n
            BY <6>1, Zenon
          <6>3. s[j] \in Nat /\ s[j] <= i
            BY <4>1, <6>2
          <6>4. QED BY <6>1, <6>3
        <5>2. QED BY <3>1, <5>1
      <4>5. IsInjective(r)
        <5>1. ASSUME NEW a \in DOMAIN r, NEW b \in DOMAIN r, r[a] = r[b] PROVE a = b
          <6>1. a \in 1 .. Len(s) + 1 /\ b \in 1 .. Len(s) + 1
            BY <4>2
          <6>2. CASE a = Len(s) + 1 \/ b = Len(s) + 1
            <7>1. r[a] = IF a = Len(s) + 1 THEN i + 1 ELSE s[a]
              BY <4>3, <6>1
            <7>2. r[b] = IF b = Len(s) + 1 THEN i + 1 ELSE s[b]
              BY <4>3, <6>1
            <7>3. (a # Len(s) + 1 => a \in 1 .. Len(s)) /\ (b # Len(s) + 1 => b \in 1 .. Len(s))
              BY <4>2, <6>1
            <7>4. QED BY <4>4, <5>1, <6>2, <7>1, <7>2, <7>3
          <6>3. CASE a # Len(s) + 1 /\ b # Len(s) + 1
            <7>1. a \in 1 .. Len(s) /\ b \in 1 .. Len(s)
              BY <4>2, <6>1, <6>3
            <7>2. s[a] = s[b]
              BY <4>3, <5>1, <6>1, <6>3
            <7>3. QED BY <4>1, <4>4, <7>1, <7>2 DEF IsInjective
          <6>4. QED BY <6>2, <6>3
        <5>2. QED BY <5>1 DEF IsInjective
      <4>6. \A j \in 1 .. Len(r) : r[j] <= i + 1
        <5>1. ASSUME NEW j \in 1 .. Len(s) + 1 PROVE r[j] <= i + 1
          <6>1. CASE j = Len(s) + 1
            <7>1. i \in Nat /\ r[j] = i + 1
              BY <4>3, <6>1
            <7>2. QED BY <7>1
          <6>2. CASE j # Len(s) + 1
            <7>1. j \in 1 .. Len(s)
              BY <4>2, <6>2
            <7>2. QED BY <4>3, <4>4, <6>2, <7>1
          <6>3. QED BY <6>1, <6>2
        <5>2. QED BY <4>2, <5>1
      <4>7. Good(i + 1)
        BY <4>2, <4>5, <4>6 DEF r
      <4>8. QED BY <3>1, <4>7
    <3>4. CASE i + 1 \notin W
      <4>1. L[i + 1] = L[i]
        BY <3>2, <3>4
      <4>2. \A j \in 1 .. Len(L[i]) : L[i][j] <= i + 1
        <5>1. ASSUME NEW j \in 1 .. Len(L[i]) PROVE L[i][j] <= i + 1
          <6>1. L[i][j] <= i /\ L[i][j] \in W
            BY <3>1
          <6>2. L[i][j] \in 1 .. n
            BY <6>1, Zenon
          <6>3. i \in Nat /\ L[i][j] \in Nat
            BY <6>2
          <6>4. QED BY <6>1, <6>3
        <5>2. QED BY <5>1
      <4>3. Good(i + 1)
        BY <3>1, <4>1, <4>2
      <4>4. QED BY <3>1, <4>3
    <3>5. QED BY <3>3, <3>4
  <2>3. QED
    <3> HIDE DEF T
    <3>1. QED BY <2>1, <2>2, UpTo
<1>9. Good(n)
  BY <1>8
<1>10. ASSUME NEW m \in 0 .. n, W = m + 1 .. n PROVE L[n] = [j \in 1 .. n - m |-> m + j]
  <2> DEFINE P == {i \in 0 .. n : L[i] = [j \in 1 .. (IF i <= m THEN 0 ELSE i - m) |-> m + j]}
  <2>1. 0 \in P
    <3>1. L[0] = << >> /\ 0 \in 0 .. n
      BY <1>7
    <3>2. [j \in 1 .. (IF 0 <= m THEN 0 ELSE 0 - m) |-> m + j] = << >>
      OBVIOUS
    <3>3. QED BY <3>1, <3>2
  <2>2. ASSUME NEW i \in 0 .. n - 1, i \in P PROVE i + 1 \in P
    <3>1. i \in 0 .. n /\ i + 1 \in 1 .. n /\ i \in Nat /\ m \in Nat
      OBVIOUS
    <3>2. L[i + 1] = IF i + 1 \in W THEN Append(L[i], i + 1) ELSE L[i]
      BY <1>7, <3>1
    <3>3. CASE i + 1 <= m
      BY <1>10, <2>2, <3>1, <3>2, <3>3
    <3>4. CASE i + 1 > m
      <4>1. i + 1 \in W /\ i >= m
        BY <1>10, <3>1, <3>4
      <4> DEFINE k == i - m
                 s == [j \in 1 .. k |-> m + j]
      <4>2. k \in Nat /\ L[i] = s
        <5>1. (IF i <= m THEN 0 ELSE i - m) = k
          BY <3>1, <4>1
        <5>2. L[i] = [j \in 1 .. (IF i <= m THEN 0 ELSE i - m) |-> m + j]
          BY <2>2
        <5>3. QED BY <3>1, <4>1, <5>1, <5>2
      <4>3. s \in Seq(Nat) /\ Len(s) = k
        BY <4>2, <3>1
      <4>4. Append(s, i + 1) = [j \in 1 .. k + 1 |-> m + j]
        BY <3>1, <4>2, <4>3
      <4>5. (IF i + 1 <= m THEN 0 ELSE (i + 1) - m) = k + 1
        BY <3>1, <3>4
      <4>6. L[i + 1] = [j \in 1 .. (IF i + 1 <= m THEN 0 ELSE (i + 1) - m) |-> m + j]
        BY <3>2, <4>1, <4>2, <4>4, <4>5
      <4>7. QED BY <3>1, <4>6
    <3>5. QED BY <3>1, <3>3, <3>4
  <2>3. 0 .. n \subseteq P
    <3> HIDE DEF P
    <3>1. QED BY <2>1, <2>2, UpTo
  <2>4. L[n] = [j \in 1 .. (IF n <= m THEN 0 ELSE n - m) |-> m + j]
    BY <2>3
  <2>5. (IF n <= m THEN 0 ELSE n - m) = n - m
    OBVIOUS
  <2>6. QED BY <2>4, <2>5
<1>11. QED BY <1>6, <1>9, <1>10

-----------------------------------------------------------------------------
(* The containers.                                                           *)

\* What Append does to a sequence.
LEMMA Appending ==
  ASSUME NEW S, NEW s \in Seq(S), NEW e \in S
  PROVE  /\ Append(s, e) \in Seq(S) /\ Len(s) \in Nat /\ Len(Append(s, e)) = Len(s) + 1
         /\ \A i \in 1 .. Len(s) : Append(s, e)[i] = s[i]
         /\ Append(s, e)[Len(s) + 1] = e
BY AppendProperties, LenProperties

\* A step of c that writes nothing: how c was started and whether it runs.
LEMMA Quiet ==
  ASSUME World, NEW c \in Box, NEW n \in Container,
         n.log = box[c].log, box' = [box EXCEPT ![c] = n], n.life >= box[c].life, Gone(c) => n.state = "none",
         UNCHANGED clock
  PROVE  /\ Typed' /\ Logged'
         /\ \A d \in Box : Lines(d)' = Lines(d) /\ box'[d].log = box[d].log
         /\ \A d \in Box : box[d].life <= box'[d].life /\ (Gone(d) => Gone(d)')
<1>1. ASSUME NEW d \in Box PROVE box'[d] = IF d = c THEN n ELSE box[d]
  BY DEF World, Typed, Container
<1>2. Typed'
  BY DEF World, Typed, Container
<1>3. ASSUME NEW d \in Box PROVE Lines(d)' = Lines(d) /\ box'[d].log = box[d].log
  BY <1>1 DEF Lines
<1>4. Logged'
  BY <1>3 DEF World, Logged
<1>5. ASSUME NEW d \in Box PROVE box[d].life <= box'[d].life /\ (Gone(d) => Gone(d)')
  <2>1. box[d].life \in Nat
    BY DEF World, Typed, Container
  <2>2. QED BY <1>1, <2>1 DEF Gone
<1>6. QED BY <1>2, <1>3, <1>4, <1>5

\* An event of c is added, and c is no longer, or not yet, in a life it died in.
LEMMA Eventful ==
  ASSUME World, NEW c \in Box, NEW n \in Container,
         box' = [box EXCEPT ![c] = n], NEW e \in Happening, e.of = c, evs' = Append(evs, e),
         n.life >= box[c].life, n.state = "running" => n.life > box[c].life,
         e.action = "die" => box[c].state = "running" /\ n.state # "running"
  PROVE  Lived' /\ Len(evs) <= Len(evs') /\ \A i \in 1 .. Len(evs) : evs'[i] = evs[i]
<1>1. ASSUME NEW d \in Box PROVE box'[d] = IF d = c THEN n ELSE box[d]
  BY DEF World, Typed, Container
<1>2. /\ evs' \in Seq(Happening) /\ Len(evs) \in Nat /\ Len(evs') = Len(evs) + 1 /\ evs'[Len(evs) + 1] = e
      /\ \A i \in 1 .. Len(evs) : evs'[i] = evs[i]
  BY Appending DEF World, Lived
<1>3. ASSUME NEW d \in Box PROVE box[d].life \in Nat /\ box'[d].life \in Nat /\ box'[d].life >= box[d].life
  BY <1>1 DEF World, Typed, Container
<1>4. ASSUME NEW d \in Box, box'[d].state = "running" PROVE box'[d].life >= 1
  BY <1>1, <1>3, <1>4 DEF World, Lived
<1>5. ASSUME NEW d \in Box, NEW i \in 1 .. Len(evs'), Died(i, d)'
      PROVE  /\ i \in 1 .. Len(evs) => Died(i, d)
             /\ i = Len(evs) + 1 => d = c /\ e.action = "die"
             /\ i \in 1 .. Len(evs) \/ i = Len(evs) + 1
  BY <1>2, <1>5 DEF Died
<1>6. ASSUME NEW d \in Box, NEW i \in 1 .. Len(evs'), Died(i, d)'
      PROVE  box'[d].life >= 1 /\ (box'[d].state = "running" => box'[d].life >= 2)
  <2>1. CASE i \in 1 .. Len(evs)
    <3>1. box[d].life >= 1 /\ (box[d].state = "running" => box[d].life >= 2)
      BY <1>5, <1>6, <2>1 DEF World, Lived
    <3>2. QED BY <1>1, <1>3, <3>1
  <2>2. CASE i = Len(evs) + 1
    <3>1. d = c /\ box[c].state = "running" /\ n.state # "running"
      BY <1>5, <1>6, <2>2
    <3>2. QED BY <1>1, <1>3, <3>1 DEF World, Lived
  <2>3. QED BY <1>5, <1>6, <2>1, <2>2
<1>7. ASSUME NEW d \in Box, NEW i \in 1 .. Len(evs'), NEW j \in 1 .. Len(evs'), i # j, Died(i, d)', Died(j, d)'
      PROVE  box'[d].life >= 2
  <2>1. CASE i \in 1 .. Len(evs) /\ j \in 1 .. Len(evs)
    <3>1. Died(i, d) /\ Died(j, d)
      BY <1>5, <1>7, <2>1
    <3>2. QED BY <1>3, <1>7, <2>1, <3>1 DEF World, Lived
  <2>2. CASE i = Len(evs) + 1 \/ j = Len(evs) + 1
    <3>1. d = c /\ box[c].state = "running"
      BY <1>5, <1>7, <2>2
    <3>2. PICK k \in 1 .. Len(evs) : Died(k, d)
      BY <1>2, <1>5, <1>7, <2>2
    <3>3. QED BY <1>3, <3>1, <3>2 DEF World, Lived
  <2>3. QED BY <1>5, <1>7, <2>1, <2>2
<1>8. QED BY <1>2, <1>4, <1>6, <1>7 DEF Lived

\* What Start makes of a container.
LEMMA Started ==
  ASSUME NEW b \in Container, NEW i \in Nat
  PROVE  LET n == [b EXCEPT !.state = "running", !.life = i] IN
         n \in Container /\ n.log = b.log /\ n.life = i /\ n.state = "running"
<1>1. ASSUME NEW m, m = [b EXCEPT !.state = "running", !.life = i]
      PROVE  m \in Container /\ m.log = b.log /\ m.life = i /\ m.state = "running"
  <2>1. m = [state |-> "running", life |-> i, log |-> b.log]
    BY <1>1 DEF Container
  <2>2. b.log \in Seq(Line)
    BY DEF Container
  <2>3. QED BY <2>1, <2>2 DEF Container
<1>2. QED BY <1>1, Zenon

\* What a log is made of.
LEMMA LinesAre ==
  ASSUME World, NEW c \in Box
  PROVE  /\ Lines(c) \in Nat /\ box[c].log \in Seq(Line) /\ DOMAIN box[c].log = 1 .. Lines(c)
         /\ \A i \in 1 .. Lines(c) : box[c].log[i].t \in Nat
<1>1. box[c].log \in Seq(Line)
  BY DEF World, Typed, Container
<1>2. \A i \in 1 .. Lines(c) : box[c].log[i] \in Line
  BY <1>1 DEF Lines
<1>3. QED BY <1>1, <1>2 DEF Lines, Line

\* A container that runs is struck and dies: two events.
LEMMA Fatal ==
  ASSUME World, NEW c \in Box, Killed(c) \/ (Oom(c) /\ box' # box)
  PROVE  World' /\ Grows
<1> USE BoxAssumption
<1> DEFINE b == box[c]
           n == [b EXCEPT !.state = "exited"]
<1>1. PICK a \in {"kill", "oom"}, code \in {137, 143} :
         /\ box' = [box EXCEPT ![c].state = "exited"] /\ UNCHANGED clock /\ box[c].state = "running"
         /\ evs' = evs \o <<Event(c, a, 0), Event(c, "die", code)>>
  <2>1. CASE Killed(c)
    BY <2>1 DEF Killed, Happens
  <2>2. CASE Oom(c) /\ box' # box
    BY <2>2 DEF Oom, Happens
  <2>3. QED BY <2>1, <2>2
<1> DEFINE k == Event(c, a, 0)
           e == Event(c, "die", code)
<1>2. k \in Happening /\ e \in Happening /\ k.of = c /\ e.of = c /\ k.action # "die" /\ e.action = "die" /\ evs' = evs \o <<k, e>>
  BY <1>1 DEF World, Logged, Event, Happening
<1>3. /\ n \in Container
      /\ n.log = b.log /\ n.life = b.life /\ n.state # "running" /\ b.state = "running" /\ ~Gone(c)
  <2>1. b \in Container
    BY DEF World, Typed
  <2>2. n \in Container /\ n.log = b.log /\ n.life = b.life /\ n.state = "exited"
    BY <2>1 DEF Container
  <2>3. b.state = "running" /\ ~Gone(c)
    BY <1>1 DEF Gone
  <2>4. QED BY <2>2, <2>3
<1>4. box' = [box EXCEPT ![c] = n]
  BY <1>1
<1>5. b.life \in Nat /\ b.life >= b.life
  BY DEF World, Typed, Container
<1> HIDE DEF n, k, e
<1>6. /\ evs' \in Seq(Happening) /\ Len(evs) \in Nat /\ Len(evs') = Len(evs) + 2
      /\ evs'[Len(evs) + 1] = k /\ evs'[Len(evs) + 2] = e
      /\ \A i \in 1 .. Len(evs) : evs'[i] = evs[i]
  BY <1>4, <1>2 DEF World, Lived
<1>7. ASSUME NEW d \in Box PROVE box'[d] = (IF d = c THEN n ELSE box[d]) /\ box'[d].life = box[d].life /\ box[d].life \in Nat
  BY <1>3, <1>4 DEF World, Typed, Container
<1>8. ASSUME NEW d \in Box, NEW i \in 1 .. Len(evs'), Died(i, d)'
      PROVE  (i \in 1 .. Len(evs) /\ Died(i, d)) \/ (i = Len(evs) + 2 /\ d = c)
  <2>1. CASE i \in 1 .. Len(evs)
    BY <1>6, <1>8, <2>1 DEF Died
  <2>2. CASE i \notin 1 .. Len(evs)
    <3>1. i = Len(evs) + 1 \/ i = Len(evs) + 2
      BY <1>6, <2>2
    <3>2. QED BY <1>6, <1>8, <1>2, <3>1 DEF Died
  <2>3. QED BY <2>1, <2>2
<1>9. ASSUME NEW d \in Box, NEW i \in 1 .. Len(evs'), Died(i, d)'
      PROVE  box'[d].life >= 1 /\ (box'[d].state = "running" => box'[d].life >= 2)
  BY <1>3, <1>7, <1>8, <1>9 DEF World, Lived
<1>10. ASSUME NEW d \in Box, NEW i \in 1 .. Len(evs'), NEW j \in 1 .. Len(evs'), i # j, Died(i, d)', Died(j, d)'
      PROVE  box'[d].life >= 2
  <2>1. (i \in 1 .. Len(evs) /\ Died(i, d)) \/ (i = Len(evs) + 2 /\ d = c)
    BY <1>8, <1>10
  <2>2. (j \in 1 .. Len(evs) /\ Died(j, d)) \/ (j = Len(evs) + 2 /\ d = c)
    BY <1>8, <1>10
  <2>3. QED BY <1>3, <1>7, <1>10, <2>1, <2>2 DEF World, Lived
<1>11. ASSUME NEW d \in Box, box'[d].state = "running" PROVE box'[d].life >= 1
  BY <1>3, <1>7, <1>11 DEF World, Lived
<1>12. Lived'
  BY <1>6, <1>9, <1>10, <1>11 DEF Lived
<1>13. n.life >= b.life
  BY <1>5, <1>3
<1>14. /\ Typed' /\ Logged'
       /\ \A d \in Box : Lines(d)' = Lines(d) /\ box'[d].log = box[d].log
       /\ \A d \in Box : box[d].life <= box'[d].life /\ (Gone(d) => Gone(d)')
  BY <1>3, <1>4, <1>13, <1>1, Quiet
<1>15. Len(evs) <= Len(evs')
  BY <1>6
<1>16. QED BY <1>6, <1>12, <1>14, <1>15, LinesAre DEF World, Grows

\* An event of a container that goes on as it is.
LEMMA Noted ==
  ASSUME World, NEW c \in Box, UNCHANGED <<box, clock>>, NEW e \in Happening, e.of = c, e.action # "die", evs' = Append(evs, e)
  PROVE  World' /\ Grows
<1>1. /\ evs' \in Seq(Happening) /\ Len(evs) \in Nat /\ Len(evs') = Len(evs) + 1 /\ evs'[Len(evs) + 1] = e
      /\ \A i \in 1 .. Len(evs) : evs'[i] = evs[i]
  BY Appending DEF World, Lived
<1>2. ASSUME NEW d \in Box, NEW i \in 1 .. Len(evs'), Died(i, d)' PROVE i \in 1 .. Len(evs) /\ Died(i, d)
  BY <1>1, <1>2 DEF Died
<1>3. Lived'
  BY <1>1, <1>2 DEF World, Lived
<1>4. Typed' /\ Logged'
  BY DEF World, Typed, Logged, Lines
<1>5. \A d \in Box : Lines(d) \in Nat /\ box[d].life \in Nat
  BY DEF World, Typed, Container, Lines
<1>6. QED BY <1>1, <1>3, <1>4, <1>5 DEF World, Grows, Lines, Gone

\* What the containers do keeps the world in order and only adds to it.
LEMMA WorldMoves ==
  ASSUME World, Command, NEW c \in Box, Create(c) \/ Start(c) \/ Write(c) \/ Die(c) \/ Killed(c) \/ Oom(c) \/ Unhealthy(c) \/ Tick
  PROVE  World' /\ Grows
<1> USE BoxAssumption
<1> DEFINE b == box[c]
<1>1. b \in Container /\ clock \in Nat
  BY DEF World, Typed, Container, Logged
<1>10. b.life \in Nat /\ b.life >= b.life /\ b.life + 1 >= b.life /\ b.life + 1 > b.life
  BY <1>1 DEF Container
<1>12. ASSUME NEW k \in {"none", "created", "running", "exited"}
      PROVE  LET r == [b EXCEPT !.state = k] IN
             r \in Container /\ r.log = b.log /\ r.life = b.life /\ r.state = k
  BY <1>1 DEF Container
<1>2. \A a \in {"create", "start", "die", "kill", "oom", "unhealthy"}, k \in Nat : Event(c, a, k) \in Happening /\ Event(c, a, k).of = c /\ Event(c, a, k).action = a
  BY <1>1 DEF Event, Happening
<1>3. CASE Create(c)
  <2> DEFINE n == [b EXCEPT !.state = "created"]
  <2>1. /\ n \in Container
        /\ n.log = b.log /\ n.life = b.life /\ n.state = "created" /\ ~Gone(c)
    BY <1>12, <1>3 DEF Create, Gone
  <2>2. box' = [box EXCEPT ![c] = n] /\ evs' = Append(evs, Event(c, "create", 0)) /\ UNCHANGED clock
    BY <1>3 DEF Create, Happens
  <2> HIDE DEF n
  <2>3. Lived' /\ Len(evs) <= Len(evs') /\ \A i \in 1 .. Len(evs) : evs'[i] = evs[i]
    <3> DEFINE e == Event(c, "create", 0)
    <3>1. e \in Happening /\ e.of = c /\ e.action # "die" /\ evs' = Append(evs, e)
      BY <1>2, <2>2
    <3>2. n.life >= b.life /\ (n.state = "running" => n.life > b.life)
      BY <1>10, <2>1
    <3> HIDE DEF e
    <3>3. QED BY <2>1, <2>2, <3>1, <3>2, Eventful
  <2>4. n.life >= b.life
    BY <1>10, <2>1
  <2>5. /\ Typed' /\ Logged'
        /\ \A d \in Box : Lines(d)' = Lines(d) /\ box'[d].log = box[d].log
        /\ \A d \in Box : box[d].life <= box'[d].life /\ (Gone(d) => Gone(d)')
    BY <2>1, <2>2, <2>4, Quiet
  <2>6. QED BY <2>3, <2>5, LinesAre DEF World, Grows
<1>4. CASE Start(c)
  <2> DEFINE n == [b EXCEPT !.state = "running", !.life = b.life + 1]
  <2>1. /\ n \in Container
        /\ n.log = b.log /\ n.life = b.life + 1 /\ n.state = "running" /\ ~Gone(c)
    <3>1. n \in Container /\ n.log = b.log /\ n.life = b.life + 1 /\ n.state = "running"
      <4>1. b.life + 1 \in Nat
        BY <1>1 DEF Container
      <4>2. QED BY <1>1, <4>1, Started, Zenon
    <3>2. QED BY <3>1, <1>4 DEF Start, Gone
  <2>2. box' = [box EXCEPT ![c] = n] /\ evs' = Append(evs, Event(c, "start", 0)) /\ UNCHANGED clock
    BY <1>4 DEF Start, Happens
  <2> HIDE DEF n
  <2>3. Lived' /\ Len(evs) <= Len(evs') /\ \A i \in 1 .. Len(evs) : evs'[i] = evs[i]
    <3> DEFINE e == Event(c, "start", 0)
    <3>1. e \in Happening /\ e.of = c /\ e.action # "die" /\ evs' = Append(evs, e)
      BY <1>2, <2>2
    <3>2. n.life >= b.life /\ (n.state = "running" => n.life > b.life)
      BY <1>10, <2>1
    <3> HIDE DEF e
    <3>3. QED BY <2>1, <2>2, <3>1, <3>2, Eventful
  <2>4. n.life >= b.life
    BY <1>10, <2>1
  <2>5. /\ Typed' /\ Logged'
        /\ \A d \in Box : Lines(d)' = Lines(d) /\ box'[d].log = box[d].log
        /\ \A d \in Box : box[d].life <= box'[d].life /\ (Gone(d) => Gone(d)')
    BY <2>1, <2>2, <2>4, Quiet
  <2>6. QED BY <2>3, <2>5, LinesAre DEF World, Grows
<1>5. CASE Write(c)
  <2>1. PICK k \in LineKinds[cmd.kind] :
          box' = [box EXCEPT ![c].log = Append(@, [t |-> clock, level |-> k.level, key |-> k.key])]
    BY <1>5 DEF Write
  <2>2. UNCHANGED <<evs, clock>> /\ b.state = "running"
    BY <1>5 DEF Write, Happens
  <2> DEFINE l == [t |-> clock, level |-> k.level, key |-> k.key]
             n == [b EXCEPT !.log = Append(b.log, l)]
  <2>3. l \in Line /\ l.t = clock
    <3>1. cmd.kind \in {"logs", "blackbox", "incident"}
      BY DEF Command
    <3>2. k.level \in {"error", "warn", "other"} /\ k.key \in STRING
      BY <3>1, ScanAssumption
    <3>3. QED BY <1>1, <3>2 DEF Line
  <2> HIDE DEF l
  <2>4. /\ Append(b.log, l) \in Seq(Line) /\ Len(b.log) \in Nat /\ Len(Append(b.log, l)) = Len(b.log) + 1
        /\ \A i \in 1 .. Len(b.log) : Append(b.log, l)[i] = b.log[i]
        /\ Append(b.log, l)[Len(b.log) + 1] = l
    BY <2>3, LinesAre, Appending
  <2>5. n \in Container /\ n.state = b.state /\ n.life = b.life /\ n.log = Append(b.log, l)
    BY <1>1, <2>4 DEF Container
  <2>6. box' = [box EXCEPT ![c] = n]
    BY <2>1 DEF l
  <2>7. ASSUME NEW d \in Box PROVE box'[d] = IF d = c THEN n ELSE box[d]
    BY <2>6 DEF World, Typed, Container
  <2>8. Typed'
    BY <2>5, <2>6 DEF World, Typed, Container
  <2>9. ASSUME NEW d \in Box PROVE box'[d].state = box[d].state /\ box'[d].life = box[d].life
    BY <2>5, <2>7
  <2>10. Lived'
    BY <2>2, <2>9 DEF World, Lived, Died
  <2>11. ASSUME NEW d \in Box
         PROVE  /\ Lines(d) \in Nat /\ Lines(d)' = IF d = c THEN Lines(d) + 1 ELSE Lines(d)
                /\ \A i \in 1 .. Lines(d) : box'[d].log[i] = box[d].log[i]
                /\ d = c => box'[d].log[Lines(d) + 1].t = clock
    BY <1>1, <2>3, <2>4, <2>7 DEF Lines, World, Typed, Container
  <2>12. ASSUME NEW d \in Box, NEW i \in 1 .. Lines(d)'
         PROVE  1 <= box'[d].log[i].t /\ box'[d].log[i].t <= clock
    <3>1. CASE i \in 1 .. Lines(d)
      BY <2>11, <3>1 DEF World, Logged
    <3>2. CASE i \notin 1 .. Lines(d)
      <4>1. d = c /\ i = Lines(d) + 1
        BY <2>11, <3>2
      <4>2. QED BY <2>11, <4>1 DEF World, Logged
    <3>3. QED BY <3>1, <3>2
  <2>13. ASSUME NEW d \in Box, NEW i \in 1 .. Lines(d)', NEW j \in 1 .. Lines(d)', i <= j
         PROVE  box'[d].log[i].t <= box'[d].log[j].t
    <3>1. CASE j \in 1 .. Lines(d)
      <4>1. i \in 1 .. Lines(d)
        BY <2>11, <2>13, <3>1
      <4>2. QED BY <2>11, <2>13, <3>1, <4>1 DEF World, Logged
    <3>2. CASE j \notin 1 .. Lines(d)
      <4>1. d = c /\ j = Lines(d) + 1
        BY <2>11, <3>2
      <4>2. QED BY <2>11, <2>12, <4>1
    <3>3. QED BY <3>1, <3>2
  <2>14. Logged'
    BY <2>2, <2>12, <2>13 DEF World, Logged
  <2>15. Grows
    <3>1. ASSUME NEW d \in Box, Gone(d) PROVE Gone(d)'
      BY <2>2, <2>7, <3>1 DEF Gone
    <3>2. \A d \in Box : box[d].life \in Nat
      BY DEF World, Typed, Container
    <3>3. Len(evs) \in Nat
      BY LenProperties DEF World, Lived
    <3>4. QED BY <2>2, <2>9, <2>11, <3>1, <3>2, <3>3 DEF Grows
  <2>16. QED BY <2>8, <2>10, <2>14, <2>15 DEF World
<1>6. CASE Die(c)
  <2>1. PICK code \in {0, 1}, left \in {"exited", "none"} :
          box' = [box EXCEPT ![c].state = left] /\ evs' = Append(evs, Event(c, "die", code))
    BY <1>6 DEF Die
  <2> DEFINE n == [b EXCEPT !.state = left]
  <2>2. /\ n \in Container
        /\ n.log = b.log /\ n.life = b.life /\ n.state # "running" /\ b.state = "running" /\ ~Gone(c)
    BY <1>12, <1>6 DEF Die, Gone
  <2>3. box' = [box EXCEPT ![c] = n] /\ UNCHANGED clock
    BY <1>6, <2>1 DEF Die, Happens
  <2> HIDE DEF n
  <2>4. Lived' /\ Len(evs) <= Len(evs') /\ \A i \in 1 .. Len(evs) : evs'[i] = evs[i]
    <3> DEFINE e == Event(c, "die", code)
    <3>1. e \in Happening /\ e.of = c /\ e.action = "die" /\ evs' = Append(evs, e)
      BY <1>2, <2>1
    <3>2. n.life >= b.life
      BY <1>10, <2>2
    <3> HIDE DEF e
    <3>3. QED BY <2>2, <2>3, <3>1, <3>2, Eventful
  <2>5. n.life >= b.life
    BY <1>10, <2>2
  <2>6. /\ Typed' /\ Logged'
        /\ \A d \in Box : Lines(d)' = Lines(d) /\ box'[d].log = box[d].log
        /\ \A d \in Box : box[d].life <= box'[d].life /\ (Gone(d) => Gone(d)')
    BY <2>2, <2>3, <2>5, Quiet
  <2>7. QED BY <2>4, <2>6, LinesAre DEF World, Grows
<1>14. ASSUME NEW a \in {"oom", "unhealthy"}, UNCHANGED <<box, clock>>, b.state = "running", evs' = Append(evs, Event(c, a, 0))
      PROVE  World' /\ Grows
  <2> DEFINE e == Event(c, a, 0)
  <2>1. e \in Happening /\ e.of = c /\ e.action # "die"
    BY <1>2
  <2> HIDE DEF e
  <2>2. evs' = Append(evs, e)
    BY <1>14 DEF e
  <2>3. World' /\ Grows
    BY <1>14, <2>1, <2>2, Noted
  <2>4. QED BY <2>3
<1>15. CASE Killed(c)
  BY <1>15, Fatal
<1>16. CASE Oom(c)
  <2>1. CASE box' # box
    BY <1>16, <2>1, Fatal
  <2>2. CASE box' = box
    <3>1. b.state = "running" /\ UNCHANGED clock
      BY <1>16 DEF Oom, Happens
    <3>2. box' # [box EXCEPT ![c].state = "exited"]
      BY <2>2, <3>1 DEF World, Typed, Container
    <3>3. evs' = Append(evs, Event(c, "oom", 0))
      BY <1>16, <3>2 DEF Oom
    <3>4. QED BY <1>14, <2>2, <3>1, <3>3
  <2>3. QED BY <2>1, <2>2
<1>17. CASE Unhealthy(c)
  <2>1. UNCHANGED <<box, clock>> /\ b.state = "running" /\ evs' = Append(evs, Event(c, "unhealthy", 0))
    BY <1>17 DEF Unhealthy, Happens
  <2>2. QED BY <1>14, <2>1
<1>8. CASE Tick
  <2>1. clock' = clock + 1 /\ UNCHANGED <<box, evs>>
    BY <1>8 DEF Tick
  <2>2. Typed' /\ Lived'
    BY <2>1 DEF World, Typed, Container, Lived, Died
  <2>3. ASSUME NEW d \in Box, NEW i \in 1 .. Lines(d) PROVE box[d].log[i].t \in Nat
    BY LinesAre
  <2>4. Logged'
    <3>1. \A d \in Box : box'[d].log = box[d].log /\ Lines(d)' = Lines(d)
      BY <2>1 DEF Lines
    <3>2. ASSUME NEW d \in Box, NEW i \in 1 .. Lines(d)
          PROVE  1 <= box[d].log[i].t /\ box[d].log[i].t <= clock + 1
      <4>1. 1 <= box[d].log[i].t /\ box[d].log[i].t <= clock
        BY DEF World, Logged
      <4>2. QED BY <1>1, <2>3, <4>1
    <3>3. 1 <= clock /\ \A d \in Box : \A i, j \in 1 .. Lines(d) : i <= j => box[d].log[i].t <= box[d].log[j].t
      BY DEF World, Logged
    <3>4. QED BY <1>1, <2>1, <3>1, <3>2, <3>3 DEF Logged
  <2>5. \A d \in Box : Lines(d) \in Nat /\ box[d].life \in Nat
    BY DEF World, Typed, Container, Lines
  <2>6. Len(evs) \in Nat
    BY LenProperties DEF World, Lived
  <2>7. QED BY <2>1, <2>2, <2>4, <2>5, <2>6 DEF World, Grows, Lines, Gone
<1>9. QED BY <1>3, <1>4, <1>5, <1>6, <1>8, <1>15, <1>16, <1>17

\* The command goes on to the next step.
LEMMA Towards ==
  ASSUME Command, NEW a \in Ats, To(a)
  PROVE  Command' /\ cmd'.kind = cmd.kind /\ cmd'.at = a /\ cmd'.from = cmd.from /\ cmd'.on = cmd.on
BY DEF Command, To

-----------------------------------------------------------------------------
(* fleet logs.                                                               *)

LEMMA FollowWorld ==
  ASSUME World, World', Grows, FollowInv, UNCHANGED <<cmd, following>>
  PROVE  FollowInv'
<1>1. UNCHANGED <<pull, late, mark, seen, lines, errors, cut>>
  BY DEF following
<1>2. ASSUME NEW c \in Box
      PROVE  /\ Lines(c) \in Nat /\ Lines(c)' \in Nat /\ Lines(c) <= Lines(c)'
             /\ \A i \in 1 .. Lines(c) : box'[c].log[i] = box[c].log[i]
  <2>1. Lines(c) \in Nat
    BY LinesAre
  <2>2. Lines(c)' \in Nat
    BY DEF World, Typed, Container, Lines
  <2>3. QED BY <2>1, <2>2 DEF Grows
<1>3. FollowTyped'
  <2>1. ASSUME NEW c \in Box, NEW text, text \in Answer, text.n <= Lines(c) PROVE text.n <= Lines(c)'
    BY <1>2, <2>1 DEF Answer
  <2>2. \A c \in Box : pull[c] \in Answer /\ late[c] \subseteq Answer
    BY DEF FollowInv, FollowTyped
  <2>3. \A c \in Box : pull[c].at = "got" => pull[c].n <= Lines(c)'
    BY <2>1, <2>2 DEF FollowInv, FollowTyped
  <2>4. \A c \in Box : \A text \in late[c] : text.n <= Lines(c)'
    BY <2>1, <2>2 DEF FollowInv, FollowTyped
  <2>5. QED BY <1>1, <2>3, <2>4 DEF FollowInv, FollowTyped
<1>4. Polls' /\ Listed'
  BY <1>1 DEF FollowInv, Polls, Listed
<1>5. ASSUME NEW c \in Box \ (Failed \cup cut)' PROVE Steady(c)'
  <2>1. c \in Box \ (Failed \cup cut) /\ Steady(c) /\ lines[c] \in Seq(Nat)
    BY <1>1 DEF Failed, FollowInv, FollowTyped
  <2>2. Len(lines[c]) \in Nat /\ Len(lines[c]) <= Lines(c)
    BY <2>1 DEF Steady
  <2>3. Len(lines[c]) <= Lines(c)' /\ (Len(lines[c]) # 0 => box'[c].log[Len(lines[c])] = box[c].log[Len(lines[c])])
    BY <1>2, <2>2
  <2>4. QED BY <1>1, <2>1, <2>3 DEF Steady
<1>6. QED BY <1>3, <1>4, <1>5 DEF FollowInv

\* A step of another command, or of a poll that this is not about.
LEMMA FollowElse ==
  ASSUME FollowInv, UNCHANGED <<world, following>>, cmd'.on = cmd.on, cmd'.kind = cmd.kind,
         cmd'.at = cmd.at \/ (cmd.kind # "logs" /\ cmd'.at # "begin")
  PROVE  FollowInv'
<1>1. UNCHANGED <<pull, late, mark, seen, lines, errors, cut, box>>
  BY DEF following, world
<1>2. FollowTyped' /\ Listed'
  BY <1>1 DEF FollowInv, FollowTyped, Listed, Lines
<1>3. Polls'
  BY <1>1 DEF FollowInv, Polls
<1>4. \A c \in Box \ (Failed \cup cut)' : Steady(c)'
  BY <1>1 DEF FollowInv, Failed, Steady, Lines
<1>5. QED BY <1>2, <1>3, <1>4 DEF FollowInv

LEMMA FollowFollow ==
  ASSUME World, Command, FollowInv, Follow
  PROVE  FollowInv' /\ Command' /\ cmd'.kind = cmd.kind /\ cmd'.from = cmd.from /\ cmd'.at = "poll"
<1>1. /\ Command' /\ cmd'.kind = cmd.kind /\ cmd'.at = "poll" /\ cmd'.on = cmd.on /\ cmd'.from = cmd.from
  BY Towards DEF Follow, Ats
<1>2. /\ UNCHANGED <<box, late, mark, seen, lines, errors, cut>>
      /\ pull' = [c \in Box |-> Pull(IF c \in cmd.on THEN "ask" ELSE "idle", 0)]
      /\ cmd.kind = "logs" /\ cmd.at \in {"begin", "sleep"}
  BY DEF Follow, world, At
<1>3. ASSUME NEW c \in Box
      PROVE  pull'[c] \in Answer /\ pull'[c].at = IF c \in cmd.on THEN "ask" ELSE "idle"
  BY <1>2 DEF Pull, Answer
<1>4. pull' \in [Box -> Answer]
  BY <1>2, <1>3
<1>5. FollowTyped' /\ Listed'
  BY <1>2, <1>3, <1>4 DEF FollowInv, FollowTyped, Listed, Lines
<1>6. Polls'
  BY <1>1, <1>3 DEF Polls
<1>7. ASSUME NEW c \in Box \ (Failed \cup cut)' PROVE Steady(c)'
  <2>1. c \notin errors /\ c \notin cut
    BY <1>2 DEF Failed
  <2>2. pull[c].at # "failed"
    BY <1>2, <2>1 DEF FollowInv, Polls
  <2>3. c \in Box \ (Failed \cup cut) /\ Steady(c)
    BY <2>1, <2>2 DEF Failed, FollowInv
  <2>4. QED BY <1>2, <1>3, <2>3 DEF Steady, Lines
<1>8. QED BY <1>1, <1>5, <1>6, <1>7 DEF FollowInv

LEMMA FollowRead ==
  ASSUME World, Command, FollowInv, NEW c \in Box, Read(c)
  PROVE  FollowInv'
<1>1. UNCHANGED <<box, cmd, late, mark, seen, lines, errors, cut>> /\ pull[c].at = "ask"
  BY DEF Read, world
<1>2. \/ pull' = [pull EXCEPT ![c] = [at |-> "got", n |-> Lines(c), since |-> mark[c]]]
      \/ pull' = [pull EXCEPT ![c].at = "failed"]
  BY DEF Read
<1>3. pull \in [Box -> Answer] /\ mark[c] \in Nat /\ Lines(c) \in Nat
  BY LinesAre DEF FollowInv, FollowTyped
<1>4. /\ pull' \in [Box -> Answer] /\ \A d \in Box \ {c} : pull'[d] = pull[d]
      /\ \/ pull'[c].at = "got" /\ pull'[c].n = Lines(c) /\ pull'[c].since = mark[c]
         \/ pull'[c].at = "failed"
  BY <1>2, <1>3 DEF Answer
<1>5. FollowTyped' /\ Listed'
  <2>1. ASSUME NEW d \in Box, pull'[d].at = "got" PROVE pull'[d].n <= Lines(d)
    <3>1. CASE d = c
      BY <1>3, <1>4, <2>1, <3>1
    <3>2. CASE d # c
      BY <1>4, <2>1, <3>2 DEF FollowInv, FollowTyped
    <3>3. QED BY <3>1, <3>2
  <2>2. QED BY <1>1, <1>4, <2>1 DEF FollowInv, FollowTyped, Listed, Lines
<1>6. Polls'
  BY <1>1, <1>4 DEF FollowInv, Polls
<1>7. ASSUME NEW d \in Box \ (Failed \cup cut)' PROVE Steady(d)'
  <2>1. d \in Box \ (Failed \cup cut) /\ Steady(d)
    BY <1>1, <1>4 DEF Failed, FollowInv
  <2>2. CASE d # c
    BY <1>1, <1>4, <2>1, <2>2 DEF Steady, Lines
  <2>3. CASE d = c
    <3>1. pull'[c].at = "got" /\ pull'[c].n = Lines(c) /\ pull'[c].since = mark[c]
      BY <1>1, <1>4, <2>3 DEF Failed
    <3>2. QED BY <1>1, <2>1, <2>3, <3>1 DEF Steady, Lines
  <2>4. QED BY <2>2, <2>3
<1>8. QED BY <1>5, <1>6, <1>7 DEF FollowInv

\* What an answer adds to what was seen.
LEMMA Taking ==
  ASSUME World, FollowTyped, NEW c \in Box, NEW text \in Answer, text.n <= Lines(c), Taken(c, text)
  PROVE  /\ New(c, text) \subseteq 1 .. text.n /\ New(c, text) \cap seen[c] = {}
         /\ seen' \in [Box -> SUBSET Nat] /\ mark' \in [Box -> Nat]
         /\ \A d \in Box : seen'[d] = IF d = c THEN seen[c] \cup New(c, text) ELSE seen[d]
         /\ \A d \in Box \ {c} : mark'[d] = mark[d]
         /\ mark'[c] = IF New(c, text) = {} THEN mark[c] ELSE box[c].log[Max(New(c, text))].t
<1>1. New(c, text) \subseteq 1 .. text.n /\ New(c, text) \cap seen[c] = {}
  BY DEF New, Sent
<1>2. text.n \in Nat /\ Lines(c) \in Nat /\ \A i \in 1 .. Lines(c) : box[c].log[i].t \in Nat
  BY LinesAre DEF Answer
<1>3. New(c, text) # {} => box[c].log[Max(New(c, text))].t \in Nat
  <2>1. SUFFICES ASSUME New(c, text) # {} PROVE box[c].log[Max(New(c, text))].t \in Nat
    OBVIOUS
  <2>2. Max(New(c, text)) \in New(c, text)
    BY <1>1, <1>2, <2>1, HasGreatest
  <2>3. Max(New(c, text)) \in 1 .. Lines(c)
    BY <1>1, <1>2, <2>2
  <2>4. QED BY <1>2, <2>3
<1>4. seen' = [seen EXCEPT ![c] = seen[c] \cup New(c, text)]
  BY DEF Taken
<1>5. mark' = [mark EXCEPT ![c] = IF New(c, text) = {} THEN mark[c] ELSE box[c].log[Max(New(c, text))].t]
  BY DEF Taken
<1>6. seen[c] \cup New(c, text) \subseteq Nat
  BY <1>1 DEF FollowTyped
<1>7. seen' \in [Box -> SUBSET Nat] /\ \A d \in Box : seen'[d] = IF d = c THEN seen[c] \cup New(c, text) ELSE seen[d]
  BY <1>4, <1>6 DEF FollowTyped
<1>8. /\ mark' \in [Box -> Nat] /\ \A d \in Box \ {c} : mark'[d] = mark[d]
      /\ mark'[c] = IF New(c, text) = {} THEN mark[c] ELSE box[c].log[Max(New(c, text))].t
  BY <1>3, <1>5 DEF FollowTyped
<1>9. QED BY <1>1, <1>7, <1>8

LEMMA FollowMerge ==
  ASSUME World, Command, FollowInv, NEW c \in Box, Merge(c)
  PROVE  FollowInv'
<1> DEFINE text == pull[c]
           new == New(c, text)
           more == InOrder(new, text.n)
<1>1. /\ UNCHANGED <<box, cmd, late, errors>> /\ text.at = "got" /\ Taken(c, text)
      /\ pull' = [pull EXCEPT ![c].at = "done"] /\ lines' = [lines EXCEPT ![c] = lines[c] \o more]
      /\ cut \subseteq cut' /\ cut' \subseteq cut \cup {c} /\ (c \notin cut' => LeftOut(c, text) = {})
  BY DEF Merge, world
<1>2. text \in Answer /\ text.n <= Lines(c) /\ text.n \in Nat /\ Lines(c) \in Nat
  BY <1>1, LinesAre DEF FollowInv, FollowTyped, Answer
<1>3. /\ new \subseteq 1 .. text.n /\ new \cap seen[c] = {}
      /\ seen' \in [Box -> SUBSET Nat] /\ mark' \in [Box -> Nat]
      /\ \A d \in Box : seen'[d] = IF d = c THEN seen[c] \cup new ELSE seen[d]
      /\ \A d \in Box \ {c} : mark'[d] = mark[d]
      /\ mark'[c] = IF new = {} THEN mark[c] ELSE box[c].log[Max(new)].t
  BY <1>1, <1>2, Taking DEF FollowInv
<1>4. /\ pull' \in [Box -> Answer] /\ \A d \in Box \ {c} : pull'[d] = pull[d]
      /\ pull'[c].at = "done" /\ pull'[c].n = text.n
  BY <1>1 DEF FollowInv, FollowTyped, Answer
<1> HIDE DEF new
<1>5. /\ more \in Seq(new) /\ IsInjective(more)
      /\ \A m \in 0 .. text.n : new = m + 1 .. text.n => more = [j \in 1 .. text.n - m |-> m + j]
  BY <1>2, <1>3, Ordered
<1> HIDE DEF more
<1>6. lines[c] \in Seq(Nat) /\ more \in Seq(Nat) /\ Len(lines[c]) \in Nat /\ Len(more) \in Nat
  <2>1. new \subseteq Nat
    BY <1>2, <1>3
  <2>2. more \in Seq(Nat)
    BY <1>5, <2>1
  <2>3. QED BY <2>2 DEF FollowInv, FollowTyped
<1> DEFINE both == lines[c] \o more
<1>7. /\ both \in Seq(Nat) /\ Len(both) = Len(lines[c]) + Len(more) /\ DOMAIN both = 1 .. Len(both)
      /\ \A i \in 1 .. Len(both) : both[i] = IF i <= Len(lines[c]) THEN lines[c][i] ELSE more[i - Len(lines[c])]
  BY <1>6, ConcatProperties
<1> HIDE DEF both
<1>8. lines' = [lines EXCEPT ![c] = both]
  BY <1>1 DEF both
<1>9. lines' \in [Box -> Seq(Nat)] /\ \A d \in Box : lines'[d] = IF d = c THEN both ELSE lines[d]
  BY <1>7, <1>8 DEF FollowInv, FollowTyped
<1>10. FollowTyped'
  <2>1. ASSUME NEW d \in Box, pull'[d].at = "got" PROVE pull'[d].n <= Lines(d)
    BY <1>4, <2>1 DEF FollowInv, FollowTyped
  <2>2. QED BY <1>1, <1>3, <1>4, <1>9, <2>1 DEF FollowInv, FollowTyped, Lines
<1>11. Polls'
  BY <1>1, <1>4 DEF FollowInv, Polls
<1>12. Listed'
  <2>1. ASSUME NEW d \in Box, d # c
        PROVE  IsInjective(lines'[d]) /\ \A i \in 1 .. Len(lines'[d]) : lines'[d][i] \in seen'[d]
    BY <1>3, <1>9, <2>1 DEF FollowInv, Listed
  <2>2. IsInjective(lines[c]) /\ \A i \in 1 .. Len(lines[c]) : lines[c][i] \in seen[c]
    BY DEF FollowInv, Listed
  <2>3. \A i \in 1 .. Len(more) : more[i] \in new
    BY <1>5, ElementOfSeq
  <2>4. ASSUME NEW i \in 1 .. Len(both)
        PROVE  /\ i <= Len(lines[c]) => i \in 1 .. Len(lines[c]) /\ both[i] = lines[c][i] /\ both[i] \in seen[c]
               /\ i > Len(lines[c]) => /\ i - Len(lines[c]) \in 1 .. Len(more) /\ both[i] = more[i - Len(lines[c])]
                                        /\ both[i] \in new
    <3>1. CASE i <= Len(lines[c])
      BY <1>6, <1>7, <2>2, <3>1
    <3>2. CASE i > Len(lines[c])
      <4>1. i - Len(lines[c]) \in 1 .. Len(more)
        BY <1>6, <1>7, <3>2
      <4>2. both[i] = more[i - Len(lines[c])]
        BY <1>6, <1>7, <3>2
      <4>3. QED BY <1>6, <2>3, <3>2, <4>1, <4>2
    <3>3. QED BY <1>6, <3>1, <3>2
  <2>5. ASSUME NEW i \in 1 .. Len(both), NEW j \in 1 .. Len(both), both[i] = both[j] PROVE i = j
    <3>1. CASE i <= Len(lines[c]) /\ j <= Len(lines[c])
      <4>1. i \in DOMAIN lines[c] /\ j \in DOMAIN lines[c] /\ lines[c][i] = lines[c][j]
        BY <1>6, <2>4, <2>5, <3>1
      <4>2. QED BY <2>2, <4>1 DEF IsInjective
    <3>2. CASE i > Len(lines[c]) /\ j > Len(lines[c])
      <4>1. /\ i - Len(lines[c]) \in 1 .. Len(more) /\ j - Len(lines[c]) \in 1 .. Len(more)
            /\ both[i] = more[i - Len(lines[c])] /\ both[j] = more[j - Len(lines[c])]
        BY <2>4, <3>2
      <4>4. DOMAIN more = 1 .. Len(more)
        BY <1>6
      <4>2. i - Len(lines[c]) = j - Len(lines[c])
        <5>1. more[i - Len(lines[c])] = more[j - Len(lines[c])]
          BY <2>5, <4>1
        <5>2. QED BY <1>5, <4>1, <4>4, <5>1 DEF IsInjective
      <4>3. QED BY <1>6, <4>2
    <3>3. CASE i <= Len(lines[c]) /\ j > Len(lines[c])
      <4>1. both[i] \in seen[c] /\ both[j] \in new
        BY <2>4, <3>3
      <4>2. QED BY <1>3, <2>5, <4>1
    <3>4. CASE i > Len(lines[c]) /\ j <= Len(lines[c])
      <4>1. both[i] \in new /\ both[j] \in seen[c]
        BY <2>4, <3>4
      <4>2. QED BY <1>3, <2>5, <4>1
    <3>5. i \in Nat /\ j \in Nat
      OBVIOUS
    <3>6. QED BY <1>6, <3>1, <3>2, <3>3, <3>4, <3>5
  <2>6. IsInjective(both)
    BY <1>7, <2>5 DEF IsInjective
  <2>7. \A i \in 1 .. Len(both) : both[i] \in seen[c] \cup new
    BY <1>6, <2>4
  <2>8. QED BY <1>3, <1>9, <2>1, <2>6, <2>7 DEF Listed
<1>13. ASSUME NEW d \in Box \ (Failed \cup cut)' PROVE Steady(d)'
  <2>1. d \in Box \ (Failed \cup cut) /\ Steady(d)
    BY <1>1, <1>4 DEF Failed, FollowInv
  <2>2. CASE d # c
    BY <1>1, <1>3, <1>4, <1>9, <2>1, <2>2 DEF Steady, Lines
  <2>3. CASE d = c
    <3> DEFINE m == Len(lines[c])
               k == text.n
    <3>1. /\ late[c] = {} /\ m \in Nat /\ m <= Lines(c) /\ lines[c] = [i \in 1 .. m |-> i] /\ seen[c] = 1 .. m
          /\ mark[c] = (IF m = 0 THEN 1 ELSE box[c].log[m].t) /\ text.since = mark[c] /\ m <= k
      BY <1>1, <1>6, <2>1, <2>3 DEF Steady
    <3>2. k \in Nat /\ k <= Lines(c) /\ m \in 0 .. k
      BY <1>2, <3>1
    <3> HIDE DEF m, k
    <3>3. ASSUME NEW i \in m + 1 .. k PROVE box[c].log[i].t >= text.since
      <4>1. i \in 1 .. Lines(c) /\ box[c].log[i].t \in Nat
        BY <1>2, <3>1, <3>2, LinesAre
      <4>2. CASE m = 0
        <5>1. 1 <= box[c].log[i].t
          BY <4>1 DEF World, Logged
        <5>2. QED BY <3>1, <4>1, <4>2, <5>1
      <4>3. CASE m # 0
        <5>1. m \in 1 .. Lines(c) /\ m <= i
          BY <1>2, <3>1, <3>2, <4>3
        <5>2. box[c].log[m].t <= box[c].log[i].t /\ box[c].log[m].t \in Nat
          BY <4>1, <5>1, LinesAre DEF World, Logged
        <5>3. QED BY <3>1, <4>1, <4>3, <5>2
      <4>4. QED BY <4>2, <4>3
    <3>4. new = m + 1 .. k
      <4>1. new = {i \in 1 .. k : box[c].log[i].t >= text.since} \ (1 .. m)
        <5>1. c \notin cut'
          BY <2>3
        <5>2. {i \in 1 .. k : i + MaxLines <= k /\ box[c].log[i].t >= text.since} \ (1 .. m) = {}
          BY <1>1, <3>1, <5>1 DEF LeftOut, k
        <5>3. new = {i \in 1 .. k : i + MaxLines > k /\ box[c].log[i].t >= text.since} \ (1 .. m)
          BY <3>1 DEF new, New, Sent, k
        <5>4. \A i \in 1 .. k : i + MaxLines > k \/ i + MaxLines <= k
          BY <3>2, ScanAssumption
        <5>5. QED BY <5>2, <5>3, <5>4
      <4>2. ASSUME NEW i \in new PROVE i \in m + 1 .. k
        BY <3>1, <3>2, <4>1
      <4>3. ASSUME NEW i \in m + 1 .. k PROVE i \in new
        BY <3>1, <3>2, <3>3, <4>1
      <4>4. QED BY <4>2, <4>3
    <3>5. more = [j \in 1 .. k - m |-> m + j] /\ Len(more) = k - m
      <4>1. more = [j \in 1 .. k - m |-> m + j]
        BY <1>5, <3>2, <3>4 DEF k
      <4>2. QED BY <3>2, <4>1
    <3>6. Len(both) = k
      BY <1>7, <3>1, <3>2, <3>5 DEF m
    <3>7. ASSUME NEW i \in 1 .. k PROVE both[i] = i
      <4>1. both[i] = IF i <= m THEN lines[c][i] ELSE more[i - m]
        BY <1>7, <3>6 DEF m
      <4>2. CASE i <= m
        <5>1. i \in 1 .. m
          BY <3>1, <4>2
        <5>2. QED BY <3>1, <4>1, <4>2, <5>1
      <4>3. CASE ~(i <= m)
        <5>1. i - m \in 1 .. k - m
          BY <3>1, <3>2, <4>3
        <5>2. QED BY <3>1, <3>2, <3>5, <4>1, <4>3, <5>1
      <4>4. QED BY <4>2, <4>3
    <3>8. both = [i \in 1 .. k |-> i]
      BY <1>7, <3>6, <3>7
    <3>9. seen'[c] = 1 .. k
      <4>1. seen'[c] = (1 .. m) \cup (m + 1 .. k)
        BY <1>3, <3>1, <3>4
      <4>2. QED BY <3>1, <3>2, <4>1
    <3>10. mark'[c] = IF k = 0 THEN 1 ELSE box[c].log[k].t
      <4>1. CASE m = k
        <5>1. new = {}
          BY <3>1, <3>4, <4>1
        <5>2. QED BY <1>3, <3>1, <4>1, <5>1
      <4>2. CASE m # k
        <5>1. new # {} /\ k \in new /\ k # 0
          BY <3>1, <3>2, <3>4, <4>2
        <5>2. Max(new) \in new /\ \A y \in new : y <= Max(new)
          BY <1>3, <3>2, <5>1, HasGreatest DEF k
        <5>3. Max(new) = k
          <6>1. Max(new) \in m + 1 .. k /\ k <= Max(new)
            BY <3>4, <5>1, <5>2
          <6>2. QED BY <3>1, <3>2, <6>1
        <5>4. QED BY <1>3, <5>1, <5>3
      <4>3. QED BY <4>1, <4>2
    <3>11. pull'[c].n = k /\ pull'[c].at = "done"
      BY <1>4 DEF k
    <3>12. lines'[c] = both /\ late'[c] = {} /\ Lines(c)' = Lines(c) /\ box' = box
      BY <1>1, <1>9, <3>1 DEF Lines
    <3>13. QED BY <2>3, <3>2, <3>6, <3>8, <3>9, <3>10, <3>11, <3>12 DEF Steady
  <2>4. QED BY <2>2, <2>3
<1>14. QED BY <1>10, <1>11, <1>12, <1>13 DEF FollowInv

LEMMA FollowGiveUp ==
  ASSUME World, Command, FollowInv, NEW c \in Box, GiveUp(c)
  PROVE  FollowInv'
<1>1. /\ UNCHANGED <<box, cmd, mark, seen, lines, errors, cut>> /\ pull[c].at \in {"ask", "got"}
      /\ pull' = [pull EXCEPT ![c].at = "failed"]
      /\ late' = [late EXCEPT ![c] = IF pull[c].at = "got" THEN late[c] \cup {pull[c]} ELSE late[c]]
  BY DEF GiveUp, world
<1>2. /\ pull' \in [Box -> Answer] /\ \A d \in Box \ {c} : pull'[d] = pull[d]
      /\ pull'[c].at = "failed"
  BY <1>1 DEF FollowInv, FollowTyped, Answer
<1>3. /\ late' \in [Box -> SUBSET Answer] /\ \A d \in Box \ {c} : late'[d] = late[d]
      /\ \A text \in late'[c] : text \in late[c] \/ (text = pull[c] /\ pull[c].at = "got")
  <2>1. late \in [Box -> SUBSET Answer] /\ pull[c] \in Answer
    BY DEF FollowInv, FollowTyped
  <2>2. QED BY <1>1, <2>1
<1>4. FollowTyped' /\ Listed'
  BY <1>1, <1>2, <1>3 DEF FollowInv, FollowTyped, Listed, Lines
<1>5. Polls'
  BY <1>1, <1>2 DEF FollowInv, Polls
<1>6. ASSUME NEW d \in Box \ (Failed \cup cut)' PROVE Steady(d)'
  <2>1. d # c /\ d \in Box \ (Failed \cup cut) /\ Steady(d)
    BY <1>1, <1>2 DEF Failed, FollowInv
  <2>2. QED BY <1>1, <1>2, <1>3, <2>1 DEF Steady, Lines
<1>7. QED BY <1>4, <1>5, <1>6 DEF FollowInv

LEMMA FollowLate ==
  ASSUME World, Command, FollowInv, NEW c \in Box, Late(c)
  PROVE  FollowInv'
<1>1. PICK text \in late[c] : Taken(c, text) /\ late' = [late EXCEPT ![c] = late[c] \ {text}]
  BY DEF Late
<1>2. UNCHANGED <<box, cmd, pull, lines, errors, cut>>
  BY DEF Late, world
<1>3. text \in Answer /\ text.n <= Lines(c) /\ FollowTyped
  BY DEF FollowInv, FollowTyped
<1>4. /\ seen' \in [Box -> SUBSET Nat] /\ mark' \in [Box -> Nat]
      /\ \A d \in Box : seen'[d] = IF d = c THEN seen[c] \cup New(c, text) ELSE seen[d]
      /\ \A d \in Box \ {c} : mark'[d] = mark[d]
  BY <1>1, <1>3, Taking
<1>5. /\ late' \in [Box -> SUBSET Answer] /\ \A d \in Box \ {c} : late'[d] = late[d]
      /\ late'[c] \subseteq late[c]
  BY <1>1, <1>3 DEF FollowTyped
<1>6. FollowTyped'
  BY <1>2, <1>3, <1>4, <1>5 DEF FollowTyped, Lines
<1>7. Listed'
  BY <1>2, <1>4 DEF FollowInv, Listed
<1>8. Polls'
  BY <1>2 DEF FollowInv, Polls
<1>9. ASSUME NEW d \in Box \ (Failed \cup cut)' PROVE Steady(d)'
  <2>1. d \in Box \ (Failed \cup cut) /\ Steady(d)
    BY <1>2 DEF Failed, FollowInv
  <2>2. d # c
    BY <2>1 DEF Steady
  <2>3. QED BY <1>2, <1>4, <1>5, <2>1, <2>2 DEF Steady, Lines
<1>10. QED BY <1>6, <1>7, <1>8, <1>9 DEF FollowInv

LEMMA FollowPolled ==
  ASSUME World, Command, FollowInv, Polled
  PROVE  FollowInv' /\ Command' /\ cmd'.kind = cmd.kind /\ cmd'.from = cmd.from /\ cmd.kind = "logs"
<1>1. /\ Command' /\ cmd'.kind = cmd.kind /\ cmd'.at \in {"sleep", "over"} /\ cmd'.on = cmd.on /\ cmd'.from = cmd.from
      /\ cmd.kind = "logs"
  BY Towards DEF Polled, Ats, At
<1>2. /\ UNCHANGED <<box, pull, late, mark, seen, lines, cut>> /\ errors' = Failed
      /\ \A c \in cmd.on : pull[c].at \in {"done", "failed"}
  BY DEF Polled, world
<1>3. FollowTyped' /\ Listed'
  BY <1>2 DEF FollowInv, FollowTyped, Listed, Lines, Failed
<1>4. Polls'
  BY <1>1, <1>2 DEF FollowInv, Polls, Failed, Command
<1>5. \A c \in Box \ (Failed \cup cut)' : Steady(c)'
  BY <1>2 DEF FollowInv, Failed, Steady, Lines
<1>6. QED BY <1>1, <1>3, <1>4, <1>5 DEF FollowInv

-----------------------------------------------------------------------------
(* system blackbox.                                                          *)

LEMMA EventsAre ==
  ASSUME World
  PROVE  Len(evs) \in Nat /\ DOMAIN evs = 1 .. Len(evs) /\ \A i \in 1 .. Len(evs) : evs[i] \in Happening
BY DEF World, Lived

LEMMA RecordWorld ==
  ASSUME World, World', Grows, RecordInv, UNCHANGED <<cmd, recording>>, cmd.at # "over"
  PROVE  RecordInv'
<1>1. UNCHANGED <<tape, pos, ev, keys, files, count>>
  BY DEF recording
<1>2. /\ Len(evs) \in Nat /\ Len(evs') \in Nat /\ Len(evs) <= Len(evs')
      /\ \A i \in 1 .. Len(evs) : evs'[i] = evs[i] /\ evs[i] \in Happening
  <2>1. Len(evs') \in Nat
    BY DEF World, Lived
  <2>2. QED BY <2>1, EventsAre DEF Grows
<1>3. ASSUME NEW c \in Box PROVE Lines(c) \in Nat /\ Lines(c)' \in Nat /\ Lines(c) <= Lines(c)'
  <2>1. Lines(c)' \in Nat
    BY DEF World, Typed, Container, Lines
  <2>2. QED BY <2>1, LinesAre DEF Grows
<1>4. TapeTyped'
  <2>1. ASSUME NEW c \in Box PROVE tape[c].got <= Units * Lines(c)'
    <3>1. tape[c].got \in Nat /\ tape[c].got <= 4 * Lines(c)
      BY DEF RecordInv, TapeTyped, Units
    <3>2. QED BY <1>3, <3>1 DEF Units
  <2>2. QED BY <1>1, <2>1 DEF RecordInv, TapeTyped
<1>5. ASSUME NEW f \in DOMAIN files PROVE Sound(f)'
  <2>1. Sound(f)
    BY DEF RecordInv
  <2>2. PICK i \in 1 .. Len(evs) : Name(evs[i]) = f
    BY <2>1 DEF Sound
  <2>3. i \in 1 .. Len(evs') /\ Name(evs'[i]) = f /\ f[1] \in Box
    BY <1>2, <2>2 DEF Name, Happening
  <2>4. ASSUME NEW j \in 1 .. Len(files[f].logs) PROVE files[f].logs[j] <= Lines(f[1])'
    <3>1. files[f].logs[j] \in Nat /\ files[f].logs[j] <= Lines(f[1])
      BY <2>1 DEF Sound
    <3>2. QED BY <1>3, <2>3, <3>1
  <2>5. QED BY <1>1, <2>1, <2>3, <2>4 DEF Sound, Name
<1>6. ASSUME cmd.kind = "blackbox" PROVE Recording'
  <2>1. Recording
    BY <1>6 DEF RecordInv
  <2>2. \A j \in 1 .. pos : j \in 1 .. Len(evs) /\ evs'[j] = evs[j]
    BY <1>2, <2>1 DEF Recording
  <2>3. cmd.from <= pos /\ pos <= Len(evs') /\ cmd.from \in Nat /\ pos \in Nat
    BY <1>2, <2>1 DEF Recording
  <2>4. AtHand => cmd.from < pos /\ ev = evs'[pos]
    BY <2>1, <2>2, <2>3 DEF Recording
  <2>5. \A k \in keys : \E j \in 1 .. pos : evs'[j].of = k[1] /\ evs'[j].action = k[3] /\ (cmd.at = "inspect" => j < pos)
    BY <2>1, <2>2 DEF Recording
  <2>6. ASSUME cmd.at \notin {"begin", "open"}, NEW i \in cmd.from + 1 .. pos,
               evs'[i].action = "die", box'[evs'[i].of].life = 1
        PROVE  Recorded(i)' \/ (AtHand /\ i = pos)
    <3>1. i \in 1 .. Len(evs) /\ evs'[i] = evs[i] /\ evs[i].of \in Box
      BY <1>2, <2>2, <2>3 DEF Happening
    <3>2. box[evs[i].of].life \in Nat /\ box[evs[i].of].life >= 1 /\ box[evs[i].of].life <= 1
      BY <2>6, <3>1 DEF World, Typed, Container, Lived, Died, Grows
    <3>3. Recorded(i) \/ (AtHand /\ i = pos)
      BY <2>1, <2>6, <3>1, <3>2 DEF Recording
    <3>4. QED BY <1>1, <3>1, <3>3 DEF Recorded, Name
  <2>7. QED BY <1>1, <2>1, <2>3, <2>4, <2>5, <2>6 DEF Recording, AtHand
<1>7. QED BY <1>1, <1>4, <1>5, <1>6 DEF RecordInv

\* A step of another command, or one that none of this is about.
LEMMA RecordElse ==
  ASSUME RecordInv, UNCHANGED <<world, recording>>, cmd'.kind = cmd.kind, cmd.kind # "blackbox" \/ UNCHANGED cmd
  PROVE  RecordInv'
<1>1. UNCHANGED <<tape, pos, ev, keys, files, count, box, evs>>
  BY DEF recording, world
<1>2. TapeTyped' /\ \A f \in DOMAIN files : Sound(f)'
  BY <1>1 DEF RecordInv, TapeTyped, Sound, Name, Lines
<1>3. cmd.kind = "blackbox" => Recording'
  BY <1>1 DEF RecordInv, Recording, AtHand, Recorded, Name
<1>4. QED BY <1>1, <1>2, <1>3 DEF RecordInv

\* A step of a follower.
LEMMA RecordTape ==
  ASSUME RecordInv, UNCHANGED <<world, cmd, pos, ev, keys, files, count>>, TapeTyped'
  PROVE  RecordInv'
<1>1. UNCHANGED <<box, evs>>
  BY DEF world
<1>2. \A f \in DOMAIN files : Sound(f)'
  BY <1>1 DEF RecordInv, Sound, Name, Lines
<1>3. cmd.kind = "blackbox" => Recording'
  BY <1>1 DEF RecordInv, Recording, AtHand, Recorded, Name
<1>4. QED BY <1>2, <1>3 DEF RecordInv

LEMMA RecordFollower ==
  ASSUME World, RecordInv, NEW c \in Box, FollowerInspect(c) \/ Chunk(c)
  PROVE  RecordInv'
<1>1. UNCHANGED <<world, box, cmd, pos, ev, keys, files, count>>
  BY DEF FollowerInspect, Chunk, world
<1>2. /\ tape \in [Box -> [at : {"none", "inspect", "stream", "over"}, got : Nat, life : Nat]]
      /\ \A d \in Box : tape[d].got <= Units * Lines(d)
      /\ box[c].life \in Nat /\ Lines(c) \in Nat
  BY LinesAre DEF RecordInv, TapeTyped, World, Typed, Container
<1>3. CASE FollowerInspect(c)
  <2>1. tape' = [tape EXCEPT ![c].at = IF box[c].state = "none" THEN "over" ELSE "stream", ![c].life = box[c].life]
    BY <1>3 DEF FollowerInspect
  <2>2. TapeTyped'
    BY <1>1, <1>2, <2>1 DEF TapeTyped, Lines
  <2>3. QED BY <1>1, <2>2, RecordTape
<1>4. CASE Chunk(c)
  <2>1. CASE tape' = [tape EXCEPT ![c].at = "over"]
    <3>1. TapeTyped'
      BY <1>1, <1>2, <2>1 DEF TapeTyped, Lines
    <3>2. QED BY <1>1, <3>1, RecordTape
  <2>2. CASE \E n \in 1 .. Units + 1 : /\ tape[c].got + n <= Units * Lines(c)
                                       /\ tape' = [tape EXCEPT ![c].got = @ + n]
    <3>1. PICK n \in 1 .. Units + 1 : tape[c].got + n <= Units * Lines(c) /\ tape' = [tape EXCEPT ![c].got = @ + n]
      BY <2>2
    <3>2. n \in Nat
      BY DEF Units
    <3>3. /\ tape' \in [Box -> [at : {"none", "inspect", "stream", "over"}, got : Nat, life : Nat]]
          /\ tape'[c].got = tape[c].got + n /\ \A d \in Box \ {c} : tape'[d] = tape[d]
      BY <1>2, <3>1, <3>2
    <3>4. TapeTyped'
      BY <1>1, <1>2, <3>1, <3>3 DEF TapeTyped, Lines
    <3>5. QED BY <1>1, <3>4, RecordTape
  <2>3. QED BY <1>4, <2>1, <2>2 DEF Chunk
<1>5. QED BY <1>3, <1>4

\* Attaching followers keeps the tapes.
LEMMA Attaching ==
  ASSUME RecordInv, UNCHANGED world, NEW cs, tape' = Attached(tape, cs)
  PROVE  TapeTyped'
<1>1. /\ tape \in [Box -> [at : {"none", "inspect", "stream", "over"}, got : Nat, life : Nat]]
      /\ \A d \in Box : tape[d].got <= Units * Lines(d)
  BY DEF RecordInv, TapeTyped
<1>2. ASSUME NEW d \in Box
      PROVE  /\ tape'[d] \in [at : {"none", "inspect", "stream", "over"}, got : Nat, life : Nat]
             /\ tape'[d].got = tape[d].got
  <2>1. tape'[d] = IF d \in cs /\ tape[d].at = "none" THEN [tape[d] EXCEPT !.at = "inspect"] ELSE tape[d]
    BY DEF Attached
  <2>2. QED BY <1>1, <2>1
<1>3. tape' \in [Box -> [at : {"none", "inspect", "stream", "over"}, got : Nat, life : Nat]]
  BY <1>2 DEF Attached
<1>4. QED BY <1>1, <1>2, <1>3 DEF TapeTyped, Lines, world

LEMMA RecordAttach ==
  ASSUME World, Command, RecordInv, Attach
  PROVE  RecordInv' /\ Command' /\ cmd'.kind = cmd.kind /\ cmd'.on = cmd.on /\ cmd.kind = "blackbox" /\ cmd'.at # "begin"
<1>1. Command' /\ cmd'.kind = cmd.kind /\ cmd'.at = "open" /\ cmd'.from = cmd.from /\ cmd'.on = cmd.on
  BY Towards DEF Attach, Ats
<1>2. UNCHANGED <<world, evs, box, pos, ev, keys, files, count>> /\ cmd.at = "begin" /\ cmd.kind = "blackbox"
  BY DEF Attach, world, At
<1>3. TapeTyped'
  BY Attaching DEF Attach
<1>4. \A f \in DOMAIN files : Sound(f)'
  BY <1>2 DEF RecordInv, Sound, Name, Lines
<1>5. Recording'
  BY <1>1, <1>2 DEF RecordInv, Recording, AtHand
<1>6. QED BY <1>1, <1>2, <1>3, <1>4, <1>5 DEF RecordInv

LEMMA RecordOpen ==
  ASSUME World, Command, RecordInv, Open
  PROVE  RecordInv' /\ Command' /\ cmd'.kind = cmd.kind /\ cmd'.on = cmd.on /\ cmd.kind = "blackbox" /\ cmd'.at # "begin"
<1> DEFINE P == {i \in DOMAIN evs : evs[i].t < clock}
<1>1. /\ UNCHANGED <<world, evs, box, tape, ev, keys, files, count>> /\ cmd.at = "open" /\ cmd.kind = "blackbox"
      /\ pos' = Cardinality(P) /\ cmd' = [cmd EXCEPT !.at = "events", !.from = pos']
  BY DEF Open, world, At
<1>2. Len(evs) \in Nat /\ DOMAIN evs = 1 .. Len(evs)
  BY EventsAre
<1>3. pos' \in Nat /\ pos' <= Len(evs)
  <2>1. IsFiniteSet(1 .. Len(evs)) /\ Cardinality(1 .. Len(evs)) = Len(evs)
    <3>1. IsFiniteSet(1 .. Len(evs)) /\ Cardinality(1 .. Len(evs)) = IF 1 > Len(evs) THEN 0 ELSE Len(evs) - 1 + 1
      BY <1>2, FS_Interval
    <3>2. QED BY <1>2, <3>1
  <2>2. P \subseteq 1 .. Len(evs)
    BY <1>2
  <2>3. IsFiniteSet(P) /\ Cardinality(P) <= Len(evs) /\ Cardinality(P) \in Nat
    <3> HIDE DEF P
    <3>1. QED BY <2>1, <2>2, FS_Subset, FS_CardinalityType
  <2>4. QED BY <1>1, <2>3
<1>4. Command' /\ cmd'.kind = cmd.kind /\ cmd'.at = "events" /\ cmd'.from = pos' /\ cmd'.on = cmd.on
  BY <1>1, <1>3 DEF Command, Ats
<1>5. TapeTyped' /\ \A f \in DOMAIN files : Sound(f)'
  BY <1>1 DEF RecordInv, TapeTyped, Sound, Name, Lines
<1>6. keys = {}
  BY <1>1 DEF RecordInv, Recording
<1>7. Recording'
  <2>1. cmd'.from + 1 .. pos' = {}
    <3>1. \A n \in Nat : n + 1 .. n = {}
      OBVIOUS
    <3>2. QED BY <1>3, <1>4, <3>1
  <2>2. QED BY <1>1, <1>3, <1>4, <1>6, <2>1 DEF Recording, AtHand
<1>8. QED BY <1>1, <1>4, <1>5, <1>7 DEF RecordInv

LEMMA RecordNext ==
  ASSUME World, Command, RecordInv, NextEvent
  PROVE  RecordInv' /\ Command' /\ cmd'.kind = cmd.kind /\ cmd'.on = cmd.on /\ cmd.kind = "blackbox" /\ cmd'.at # "begin"
<1> DEFINE e == evs[pos + 1]
<1>1. /\ UNCHANGED <<world, evs, box, keys, files, count>> /\ cmd.at = "events" /\ cmd.kind = "blackbox"
      /\ pos' = pos + 1 /\ pos < Len(evs)
      /\ \/ e.action \in {"create", "start"} /\ tape' = Attached(tape, {e.of}) /\ UNCHANGED <<cmd, ev>>
         \/ e.action \in {"die", "oom", "kill"} /\ ev' = e /\ To("inspect") /\ UNCHANGED tape
         \/ e.action = "unhealthy" /\ UNCHANGED <<tape, cmd, ev>>
  BY DEF NextEvent, world, At
<1>2. Command' /\ cmd'.kind = cmd.kind /\ cmd'.from = cmd.from /\ cmd'.on = cmd.on
      /\ cmd'.at = IF e.action \in {"die", "oom", "kill"} THEN "inspect" ELSE "events"
  <2>1. CASE e.action \in {"create", "start", "unhealthy"}
    BY <1>1, <2>1 DEF Command
  <2>2. CASE e.action \in {"die", "oom", "kill"}
    BY <1>1, <2>2, Towards DEF Ats
  <2>3. QED BY <1>1, <2>1, <2>2
<1>3. TapeTyped'
  <2>1. CASE e.action \in {"create", "start"}
    BY <1>1, <2>1, Attaching
  <2>2. CASE e.action \notin {"create", "start"}
    BY <1>1, <2>2 DEF RecordInv, TapeTyped, Lines
  <2>3. QED BY <2>1, <2>2
<1>4. \A f \in DOMAIN files : Sound(f)'
  BY <1>1 DEF RecordInv, Sound, Name, Lines
<1>5. Recording
  BY <1>1 DEF RecordInv
<1>6. cmd.from \in Nat /\ pos \in Nat /\ cmd.from <= pos /\ pos + 1 <= Len(evs)
  BY <1>1, <1>5, EventsAre DEF Recording
<1>7. Recording'
  <2>1. AtHand' => cmd'.from < pos' /\ ev' = evs[pos']
    BY <1>1, <1>2, <1>6 DEF AtHand
  <2>2. ASSUME NEW k \in keys
        PROVE  \E j \in 1 .. pos' : evs[j].of = k[1] /\ evs[j].action = k[3] /\ (cmd'.at = "inspect" => j < pos')
    <3>1. PICK j \in 1 .. pos : evs[j].of = k[1] /\ evs[j].action = k[3]
      BY <1>5 DEF Recording
    <3>2. j \in 1 .. pos + 1 /\ j < pos + 1
      BY <1>6
    <3>3. QED BY <1>1, <3>1, <3>2
  <2>3. ASSUME NEW i \in cmd.from + 1 .. pos + 1, evs[i].action = "die", box[evs[i].of].life = 1
        PROVE  Recorded(i) \/ (AtHand' /\ i = pos + 1)
    <3>1. CASE i = pos + 1
      BY <1>2, <2>3, <3>1 DEF AtHand
    <3>2. CASE i # pos + 1
      <4>1. i \in cmd.from + 1 .. pos
        BY <1>6, <3>2
      <4>2. QED BY <1>1, <1>5, <2>3, <4>1 DEF Recording, AtHand
    <3>3. QED BY <3>1, <3>2
  <2>4. pos' \in Nat /\ cmd'.from \in Nat /\ cmd'.from <= pos' /\ pos' <= Len(evs)
    BY <1>1, <1>2, <1>6
  <2>5. \A i \in cmd'.from + 1 .. pos' :
          evs[i].action = "die" /\ box[evs[i].of].life = 1 => Recorded(i) \/ (AtHand' /\ i = pos')
    BY <1>1, <1>2, <2>3
  <2>6. Recorded(1)' <=> Recorded(1)
    BY <1>1 DEF Recorded, Name
  <2>7. \A i : Recorded(i)' <=> Recorded(i)
    BY <1>1 DEF Recorded, Name
  <2>8. cmd'.at \notin {"begin", "open", "over"}
    BY <1>2
  <2>9. QED BY <1>1, <2>1, <2>2, <2>4, <2>5, <2>7, <2>8 DEF Recording
<1>8. QED BY <1>1, <1>2, <1>3, <1>4, <1>7 DEF RecordInv

\* A container that ran once died once.
LEMMA DiedOnce ==
  ASSUME World, NEW i \in 1 .. Len(evs), NEW j \in 1 .. Len(evs), evs[i].action = "die", evs[j].action = "die",
         evs[i].of = evs[j].of, box[evs[i].of].life = 1
  PROVE  i = j
<1>1. evs[i].of \in Box
  BY EventsAre DEF Happening
<1>2. Died(i, evs[i].of) /\ Died(j, evs[i].of)
  BY DEF Died
<1>3. QED BY <1>1, <1>2 DEF World, Lived

LEMMA RecordInspect ==
  ASSUME World, Command, RecordInv, InspectDead
  PROVE  RecordInv' /\ Command' /\ cmd'.kind = cmd.kind /\ cmd'.on = cmd.on /\ cmd.kind = "blackbox" /\ cmd'.at # "begin"
<1>1. /\ UNCHANGED <<world, evs, box, tape, pos, ev, files, count>> /\ cmd.at = "inspect" /\ cmd.kind = "blackbox"
      /\ keys' = keys \cup {Key} /\ To(IF Key \in keys THEN "events" ELSE "drain")
  BY DEF InspectDead, world, At
<1>2. Command' /\ cmd'.kind = cmd.kind /\ cmd'.from = cmd.from /\ cmd'.on = cmd.on
      /\ cmd'.at = IF Key \in keys THEN "events" ELSE "drain"
  BY <1>1, Towards DEF Ats
<1>3. TapeTyped' /\ \A f \in DOMAIN files : Sound(f)'
  BY <1>1 DEF RecordInv, TapeTyped, Sound, Name, Lines
<1>4. Recording
  BY <1>1 DEF RecordInv
<1>5. cmd.from \in Nat /\ pos \in 1 .. Len(evs) /\ cmd.from < pos /\ ev = evs[pos] /\ Len(evs) \in Nat
  BY <1>1, <1>4, EventsAre DEF Recording, AtHand
<1>6. Key[1] = ev.of /\ Key[3] = ev.action
  BY DEF Key
<1>7. ASSUME NEW k \in keys'
      PROVE  \E j \in 1 .. pos : evs[j].of = k[1] /\ evs[j].action = k[3]
  <2>1. CASE k \in keys
    BY <1>4, <2>1 DEF Recording
  <2>2. CASE k = Key
    BY <1>5, <1>6, <2>2
  <2>3. QED BY <1>1, <2>1, <2>2
<1>8. ASSUME NEW i \in cmd.from + 1 .. pos, evs[i].action = "die", box[evs[i].of].life = 1
      PROVE  Recorded(i) \/ (AtHand' /\ i = pos)
  <2>1. CASE i # pos
    BY <1>1, <1>4, <1>8, <2>1 DEF Recording
  <2>2. CASE i = pos /\ Key \in keys
    <3>1. PICK j \in 1 .. pos : evs[j].of = Key[1] /\ evs[j].action = Key[3] /\ j < pos
      BY <1>1, <1>4, <2>2 DEF Recording
    <3>2. j \in 1 .. Len(evs) /\ j # pos /\ evs[j].of = evs[pos].of /\ evs[j].action = "die"
      BY <1>5, <1>6, <1>8, <2>2, <3>1
    <3>3. QED BY <1>5, <1>8, <2>2, <3>2, DiedOnce
  <2>3. CASE i = pos /\ Key \notin keys
    BY <1>2, <2>3 DEF AtHand
  <2>4. QED BY <2>1, <2>2, <2>3
<1>9. \A i : Recorded(i)' <=> Recorded(i)
  BY <1>1 DEF Recorded, Name
<1>10. cmd'.at \notin {"begin", "open", "inspect", "over"}
  BY <1>2
<1>11. Recording'
  BY <1>1, <1>2, <1>5, <1>7, <1>8, <1>9, <1>10 DEF Recording
<1>12. QED BY <1>1, <1>2, <1>3, <1>11 DEF RecordInv

\* The whole lines of a tape that are kept.
LEMMA Kept ==
  ASSUME World, RecordInv, NEW c \in Box
  PROVE  LET s == Ring(Buffer(c)) IN
         /\ s \in Seq(Nat) /\ Contiguous(s) /\ Len(s) <= Keep
         /\ \A i \in 1 .. Len(s) : s[i] <= Lines(c)
<1> DEFINE w == Whole(tape[c].got)
           b == Buffer(c)
<1>1. tape[c].got \in Nat /\ tape[c].got <= 4 * Lines(c) /\ Lines(c) \in Nat
  BY LinesAre DEF RecordInv, TapeTyped, Units
<1>2. w \in Nat /\ w <= Lines(c)
  <2>1. (tape[c].got \div 2) \in Nat /\ (tape[c].got \div 2) <= 2 * Lines(c)
    BY <1>1
  <2>2. QED BY <1>1, <2>1 DEF Whole
<1>3. b = [i \in 1 .. w |-> i]
  BY DEF Buffer
<1> HIDE DEF w, b
<1>4. b \in Seq(Nat) /\ Len(b) = w /\ \A i \in 1 .. w : b[i] = i
  BY <1>2, <1>3
<1>5. CASE w > Keep
  <2> DEFINE s == SubSeq(b, w - Keep + 1, w)
  <2>1. Ring(b) = s
    BY <1>4, <1>5 DEF Ring
  <2>2. w - Keep + 1 \in 1 .. w + 1 /\ w \in (w - Keep + 1) - 1 .. w /\ w - (w - Keep + 1) + 1 = Keep
    BY <1>2, <1>5, RecorderAssumption
  <2>3. s \in Seq(Nat)
    <3>1. w - Keep + 1 \in 1 .. Len(b) + 1 /\ w \in (w - Keep + 1) - 1 .. Len(b)
      BY <1>4, <2>2
    <3>2. QED BY <1>4, <3>1, SubSeqProperties
  <2>4. Len(s) = Keep /\ \A i \in 1 .. Keep : s[i] = b[w - Keep + i]
    BY <1>2, <1>4, <1>5, <2>2, RecorderAssumption
  <2>5. ASSUME NEW i \in 1 .. Keep PROVE s[i] = w - Keep + i /\ s[i] <= Lines(c)
    <3>1. w - Keep + i \in 1 .. w
      BY <1>2, <1>5, RecorderAssumption
    <3>2. s[i] = w - Keep + i
      BY <1>4, <2>4, <3>1
    <3>3. w - Keep + i <= w
      BY <3>1
    <3>4. w - Keep + i \in Nat
      BY <3>1
    <3>5. \A a, l \in Nat : a <= w /\ w <= l => a <= l
      BY <1>2
    <3>6. w - Keep + i <= Lines(c)
      BY <1>1, <1>2, <3>3, <3>4, <3>5
    <3>7. QED BY <3>2, <3>6
  <2> HIDE DEF s
  <2>6. Contiguous(s)
    <3>1. ASSUME NEW i \in 1 .. Len(s) - 1 PROVE s[i + 1] = s[i] + 1
      <4>1. i \in 1 .. Keep /\ i + 1 \in 1 .. Keep
        BY <2>4, RecorderAssumption
      <4>2. s[i] = w - Keep + i /\ s[i + 1] = w - Keep + (i + 1)
        BY <2>5, <4>1
      <4>3. QED BY <1>2, <4>2, RecorderAssumption
    <3>2. QED BY <3>1 DEF Contiguous
  <2>7. QED BY <2>1, <2>3, <2>4, <2>5, <2>6, RecorderAssumption DEF b
<1>6. CASE ~(w > Keep)
  <2>1. Ring(b) = b /\ w <= Keep
    BY <1>2, <1>4, <1>6, RecorderAssumption DEF Ring
  <2>2. Contiguous(b)
    <3>1. ASSUME NEW i \in 1 .. w - 1 PROVE b[i + 1] = b[i] + 1
      BY <1>2, <1>4
    <3>2. QED BY <1>4, <3>1 DEF Contiguous
  <2>3. ASSUME NEW i \in 1 .. w PROVE b[i] <= Lines(c)
    BY <1>1, <1>2, <1>4
  <2>4. QED BY <1>4, <2>1, <2>2, <2>3 DEF b
<1>7. QED BY <1>5, <1>6

LEMMA RecordSave ==
  ASSUME World, Command, RecordInv, Save
  PROVE  RecordInv' /\ Command' /\ cmd'.kind = cmd.kind /\ cmd'.on = cmd.on /\ cmd.kind = "blackbox" /\ cmd'.at # "begin"
<1> DEFINE f0 == <<ev.of, ev.t, ev.action>>
           r == [code |-> ev.code, logs |-> Ring(Buffer(ev.of))]
<1>1. /\ UNCHANGED <<world, evs, box, tape, pos, ev, keys>> /\ cmd.at = "drain" /\ cmd.kind = "blackbox"
      /\ files' = [f \in DOMAIN files \cup {f0} |-> IF f = f0 THEN r ELSE files[f]] /\ To("events")
      /\ count' = count + 1
  BY DEF Save, world, At
<1>2. Command' /\ cmd'.kind = cmd.kind /\ cmd'.from = cmd.from /\ cmd'.on = cmd.on /\ cmd'.at = "events"
  BY <1>1, Towards DEF Ats
<1>3. TapeTyped'
  BY <1>1 DEF RecordInv, TapeTyped, Lines
<1>4. Recording
  BY <1>1 DEF RecordInv
<1>5. cmd.from \in Nat /\ pos \in 1 .. Len(evs) /\ cmd.from < pos /\ ev = evs[pos] /\ Len(evs) \in Nat
  BY <1>1, <1>4, EventsAre DEF Recording, AtHand
<1>6. ev \in Happening /\ ev.of \in Box /\ Name(evs[pos]) = f0 /\ f0[1] = ev.of
  BY <1>5, EventsAre DEF Happening, Name
<1>7. r.code = ev.code /\ r.logs = Ring(Buffer(ev.of))
  OBVIOUS
<1> HIDE DEF f0, r
<1>8. ASSUME NEW f \in DOMAIN files' PROVE Sound(f)'
  <2>1. CASE f = f0
    <3>1. files'[f] = r
      BY <1>1, <2>1
    <3>2. /\ r.logs \in Seq(Nat) /\ Contiguous(r.logs) /\ Len(r.logs) <= Keep
          /\ \A i \in 1 .. Len(r.logs) : r.logs[i] <= Lines(f[1])
      BY <1>6, <1>7, <2>1, Kept
    <3>3. Lines(f[1])' = Lines(f[1])
      BY <1>1 DEF Lines
    <3>4. \E i \in 1 .. Len(evs) : Name(evs[i])' = f
      BY <1>1, <1>5, <1>6, <2>1 DEF Name
    <3>5. QED BY <1>1, <3>1, <3>2, <3>3, <3>4 DEF Sound
  <2>2. CASE f # f0
    <3>1. f \in DOMAIN files /\ files'[f] = files[f]
      BY <1>1, <2>2
    <3>2. Sound(f)
      BY <3>1 DEF RecordInv
    <3>3. QED BY <1>1, <3>1, <3>2 DEF Sound, Name, Lines
  <2>3. QED BY <2>1, <2>2
<1>9. ASSUME NEW i \in cmd.from + 1 .. pos, evs[i].action = "die", box[evs[i].of].life = 1
      PROVE  Recorded(i)'
  <2>1. i \in 1 .. Len(evs)
    BY <1>5
  <2>2. CASE Name(evs[i]) = f0
    <3>1. evs[i].of = evs[pos].of /\ evs[pos].action = "die"
      BY <1>5, <1>9, <2>2 DEF Name, f0
    <3>2. i = pos
      BY <1>5, <1>9, <2>1, <3>1, DiedOnce
    <3>3. QED BY <1>1, <1>5, <1>6, <1>7, <3>2 DEF Recorded, Name
  <2>3. CASE Name(evs[i]) # f0
    <3>1. i # pos
      BY <1>6, <2>3
    <3>2. Recorded(i)
      BY <1>1, <1>4, <1>9, <3>1 DEF Recording
    <3>3. Name(evs[i]) \in DOMAIN files' /\ files'[Name(evs[i])] = files[Name(evs[i])]
      BY <1>1, <2>3, <3>2 DEF Recorded
    <3>4. QED BY <1>1, <3>2, <3>3 DEF Recorded, Name
  <2>4. QED BY <2>2, <2>3
<1>10. \A k \in keys : \E j \in 1 .. pos : evs[j].of = k[1] /\ evs[j].action = k[3]
  BY <1>4 DEF Recording
<1>11. Recording'
  BY <1>1, <1>2, <1>5, <1>9, <1>10 DEF Recording, AtHand
<1>12. QED BY <1>1, <1>2, <1>3, <1>8, <1>11 DEF RecordInv

LEMMA RecordEnds ==
  ASSUME World, Command, RecordInv, WindowEnds
  PROVE  RecordInv' /\ Command' /\ cmd'.kind = cmd.kind /\ cmd'.on = cmd.on /\ cmd.kind = "blackbox" /\ cmd'.at # "begin"
<1>1. /\ UNCHANGED <<world, evs, box, tape, pos, ev, keys, files, count>> /\ cmd.at = "events" /\ cmd.kind = "blackbox"
      /\ pos = Len(evs) \/ count >= MaxRecords
  BY DEF WindowEnds, world, At, recording
<1>2. Command' /\ cmd'.kind = cmd.kind /\ cmd'.from = cmd.from /\ cmd'.on = cmd.on /\ cmd'.at = "over"
  BY Towards DEF Ats, WindowEnds
<1>3. TapeTyped' /\ \A f \in DOMAIN files : Sound(f)'
  BY <1>1 DEF RecordInv, TapeTyped, Sound, Name, Lines
<1>4. Recording
  BY <1>1 DEF RecordInv
<1>5. \A i : Recorded(i)' <=> Recorded(i)
  BY <1>1 DEF Recorded, Name
<1>6. Recording'
  BY <1>1, <1>2, <1>4, <1>5 DEF Recording, AtHand
<1>7. QED BY <1>1, <1>2, <1>3, <1>6 DEF RecordInv

-----------------------------------------------------------------------------
(* system incident.                                                          *)

\* What is scanned of a log that is scanned as a whole.
LEMMA ScannedWhole ==
  ASSUME World, NEW c \in Box, Lines(c) <= LogLines
  PROVE  Scanned(c) = {i \in 1 .. Lines(c) : box[c].log[i].level \in {"error", "warn"}}
<1>1. Lines(c) \in Nat /\ LogLines \in Nat
  BY LinesAre, ScanAssumption
<1>2. \A i \in 1 .. Lines(c) : i + LogLines > Lines(c)
  BY <1>1
<1>3. QED BY <1>2 DEF Scanned

\* An error that was logged stays, who logged it and is not there has gone, and
\* a log that did not tell of its first error never will.
LEMMA Logging ==
  ASSUME World, NEW c \in Box, NEW k \in Failures(c, Faulty(c))
  PROVE  /\ k \in Signal /\ k[1] = c /\ k[3] = "log"
         /\ box[c].state = "none" => Gone(c)
         /\ World' /\ Grows => k \in Failures(c, Faulty(c))' /\ (Told(c)' => Told(c))
<1>1. PICK i \in 1 .. Lines(c) : i \in Faulty(c) /\ box[c].log[i].level = "error" /\ k = <<c, box[c].log[i].t, "log">>
  BY DEF Failures, Faulty
<1>2. Lines(c) \in Nat /\ box[c].log[i].t \in Nat /\ box[c].log \in Seq(Line)
  BY LinesAre
<1>3. box[c].log # << >>
  BY <1>2 DEF Lines
<1>4. ASSUME World', Grows PROVE k \in Failures(c, Faulty(c))' /\ (Told(c)' => Told(c))
  <2>1. Lines(c)' \in Nat /\ Lines(c) <= Lines(c)'
    BY <1>4 DEF World, Typed, Container, Lines, Grows
  <2>2. \A j \in 1 .. Lines(c) : j \in 1 .. Lines(c)' /\ box'[c].log[j] = box[c].log[j]
    BY <1>2, <1>4, <2>1 DEF Grows
  <2>3. i \in Faulty(c)'
    BY <1>1, <2>2 DEF Faulty
  <2>4. k \in Failures(c, Faulty(c))'
    BY <1>1, <2>2, <2>3 DEF Failures
  <2>5. ASSUME Told(c)' PROVE Told(c)
    <3>1. LogLines \in Nat /\ Lines(c)' <= LogLines /\ Lines(c) <= LogLines
      BY <1>2, <2>1, <2>5, ScanAssumption DEF Told
    <3>2. PICK m \in (Signals(c) \cap Faulty(c))' : \A j \in Faulty(c)' : m <= j
      BY <2>5 DEF Told
    <3>3. m \in 1 .. Lines(c)
      <4>1. m \in 1 .. Lines(c)' /\ m <= i
        BY <2>3, <3>2 DEF Faulty
      <4>2. QED BY <1>2, <2>1, <4>1
    <3>4. Scanned(c) = {j \in 1 .. Lines(c) : box[c].log[j].level \in {"error", "warn"}}
      BY <3>1, ScannedWhole
    <3>5. Scanned(c)' = {j \in 1 .. Lines(c)' : box'[c].log[j].level \in {"error", "warn"}}
      <4>1. \A j \in 1 .. Lines(c)' : j + LogLines > Lines(c)'
        BY <2>1, <3>1
      <4>2. QED BY <4>1 DEF Scanned
    <3>6. {x \in Scanned(c)' : x < m} = {x \in Scanned(c) : x < m}
      <4>1. ASSUME NEW x \in 1 .. Lines(c)', x < m PROVE x \in 1 .. Lines(c)
        BY <1>2, <2>1, <3>3, <4>1
      <4>2. QED BY <2>2, <3>4, <3>5, <4>1
    <3>7. Before(c, m)' = Before(c, m)
      <4>1. \A x \in {y \in Scanned(c) : y < m} : box'[c].log[x] = box[c].log[x]
        BY <2>2, <3>4
      <4>2. Before(c, m)' = {box'[c].log[x].key : x \in {y \in Scanned(c)' : y < m}}
        BY DEF Before
      <4>3. QED BY <3>6, <4>1, <4>2 DEF Before
    <3>8. m \in Signals(c)
      BY <2>2, <3>2, <3>3, <3>4, <3>5, <3>7 DEF Signals
    <3>9. m \in Faulty(c) /\ \A j \in Faulty(c) : m <= j
      BY <2>2, <3>2, <3>3 DEF Faulty
    <3>10. QED BY <3>1, <3>8, <3>9 DEF Told
  <2>6. QED BY <2>4, <2>5
<1>5. QED BY <1>1, <1>2, <1>3, <1>4 DEF Gone, Signal

\* A log that tells of its first error tells of one no later than any other.
LEMMA Telling ==
  ASSUME World, NEW c \in Box, NEW k \in Failures(c, Faulty(c)), Told(c)
  PROVE  \E h \in Errors(c) : h[1] = c /\ h[2] <= k[2]
<1>1. PICK i \in Faulty(c) : k = <<c, box[c].log[i].t, "log">>
  BY DEF Failures
<1>2. PICK m \in Signals(c) \cap Faulty(c) : \A j \in Faulty(c) : m <= j
  BY DEF Told
<1>3. m \in 1 .. Lines(c) /\ i \in 1 .. Lines(c) /\ m <= i
  BY <1>1, <1>2 DEF Faulty
<1>4. box[c].log[m].t <= box[c].log[i].t
  BY <1>3 DEF World, Logged
<1>5. <<c, box[c].log[m].t, "log">> \in Errors(c)
  BY <1>2 DEF Errors, Failures
<1>6. QED BY <1>1, <1>4, <1>5

LEMMA ErrorsAre ==
  ASSUME World, NEW c \in Box
  PROVE  Errors(c) \subseteq Signal
<1>1. Errors(c) \subseteq Failures(c, Faulty(c))
  BY DEF Errors, Failures
<1>2. QED BY <1>1, Logging

\* Where nothing has been written, all stays as it is.
LEMMA SameLogs ==
  ASSUME UNCHANGED box
  PROVE  /\ \A k : Wrote(k)' <=> Wrote(k)
         /\ \A k : Gone(k[1])' <=> Gone(k[1])
         /\ \A c : Told(c)' <=> Told(c)
BY DEF Wrote, Failures, Faulty, Gone, Told, Signals, Scanned, Before, Lines

LEMMA IncidentWorld ==
  ASSUME World, World', Grows, IncidentInv, UNCHANGED <<cmd, looking, faults>>
  PROVE  IncidentInv'
<1>1. UNCHANGED <<heard, todo, known, report>>
  BY DEF looking
<1>2. ASSUME NEW k \in known, Wrote(k)
      PROVE  Wrote(k)' /\ (Explained(k) => Explained(k)') /\ (Gone(k[1]) => Gone(k[1])')
  <2>1. k[1] \in Box
    BY DEF IncidentInv, Signal
  <2>2. Wrote(k)' /\ (Told(k[1])' => Told(k[1]))
    BY <1>2, <2>1, Logging DEF Wrote
  <2>3. Explained(k) => Explained(k)'
    BY <1>1, <2>2 DEF Explained
  <2>4. QED BY <2>1, <2>2, <2>3 DEF Grows
<1>3. \A k \in known : k[3] \in {"event", "log"}
  BY DEF IncidentInv, Signal
<1>4. cmd.kind = "incident" /\ cmd.at \in {"list", "logs", "over"} =>
        \A k \in known : IF k[3] = "event" THEN k \in heard ELSE Wrote(k)'
  BY <1>2 DEF IncidentInv
<1>5. cmd.kind = "incident" /\ cmd.at \in {"logs", "over"} /\ faults = 0 =>
        \A k \in known : k[3] = "log" => Gone(k[1])' \/ Explained(k)' \/ (cmd.at = "logs" /\ k[1] \in todo)
  <2> SUFFICES ASSUME cmd.kind = "incident", cmd.at \in {"logs", "over"}, faults = 0, NEW k \in known, k[3] = "log"
               PROVE  Gone(k[1])' \/ Explained(k)' \/ (cmd.at = "logs" /\ k[1] \in todo)
    OBVIOUS
  <2>1. Wrote(k) /\ (Gone(k[1]) \/ Explained(k) \/ (cmd.at = "logs" /\ k[1] \in todo))
    BY DEF IncidentInv
  <2>2. QED BY <1>2, <2>1
<1>6. cmd.kind = "incident" /\ cmd.at = "over" => report \in Analyze(heard, Depends) \cup Analyze(heard, Alone)
  BY DEF IncidentInv
<1>7. Analyze(heard, Depends)' = Analyze(heard, Depends) /\ Analyze(heard, Alone)' = Analyze(heard, Alone)
  BY <1>1
<1>8. heard \subseteq Signal /\ known \subseteq Signal /\ todo \subseteq Box /\ faults \in Nat
  BY DEF IncidentInv
<1>9. QED BY <1>1, <1>4, <1>5, <1>6, <1>7, <1>8 DEF IncidentInv

LEMMA IncidentElse ==
  ASSUME IncidentInv, UNCHANGED <<world, looking>>, cmd'.kind = cmd.kind, cmd.kind # "incident" \/ UNCHANGED cmd,
         faults' = faults \/ faults' = faults + 1
  PROVE  IncidentInv'
<1>1. UNCHANGED <<heard, todo, known, report, box>>
  BY DEF looking, world
<1>2. faults \in Nat /\ faults' \in Nat /\ (faults' = 0 => faults = 0)
  BY DEF IncidentInv
<1>3. Analyze(heard, Depends)' = Analyze(heard, Depends) /\ Analyze(heard, Alone)' = Analyze(heard, Alone)
  BY <1>1
<1>4. \A k : (Wrote(k)' <=> Wrote(k)) /\ (Gone(k[1])' <=> Gone(k[1])) /\ (Explained(k)' <=> Explained(k))
  <2>1. \A k : Told(k[1])' <=> Told(k[1])
    BY <1>1, SameLogs
  <2>2. QED BY <1>1, <2>1, SameLogs DEF Explained
<1>5. QED BY <1>1, <1>2, <1>3, <1>4 DEF IncidentInv

LEMMA IncidentEvents ==
  ASSUME World, Command, IncidentInv, ReadEvents
  PROVE  IncidentInv' /\ Command' /\ cmd'.kind = cmd.kind /\ cmd'.on = cmd.on /\ cmd.kind = "incident" /\ cmd'.at # "begin"
<1>1. /\ UNCHANGED <<world, box, evs, todo, report, faults>> /\ cmd.kind = "incident"
      /\ heard' = Struck /\ known' = Struck \cup UNION {Failures(c, Faulty(c)) : c \in Present}
  BY DEF ReadEvents, world, At
<1>2. Command' /\ cmd'.kind = cmd.kind /\ cmd'.at = "list" /\ cmd'.on = cmd.on
  BY Towards DEF ReadEvents, Ats
<1>3. Struck \subseteq Signal /\ \A k \in Struck : k[3] = "event"
  BY EventsAre DEF Struck, Happening, Signal
<1>4. ASSUME NEW k \in known' PROVE k \in Signal /\ IF k[3] = "event" THEN k \in Struck ELSE Wrote(k)
  <2>1. CASE k \in Struck
    BY <1>3, <2>1
  <2>2. CASE k \notin Struck
    <3>1. PICK c \in Present : k \in Failures(c, Faulty(c))
      BY <1>1, <2>2
    <3>2. c \in Box
      BY DEF Present
    <3>3. k \in Signal /\ k[1] = c /\ k[3] = "log"
      BY <3>1, <3>2, Logging
    <3>4. QED BY <3>1, <3>3 DEF Wrote
  <2>3. QED BY <2>1, <2>2
<1>5. known' \subseteq Signal /\ heard' \subseteq Signal /\ todo' \subseteq Box /\ faults' \in Nat
  BY <1>1, <1>3, <1>4 DEF IncidentInv
<1>6. \A k \in known' : IF k[3] = "event" THEN k \in heard' ELSE Wrote(k)'
  BY <1>1, <1>4, SameLogs
<1>7. IncidentInv'
  BY <1>2, <1>5, <1>6 DEF IncidentInv
<1>8. QED BY <1>1, <1>2, <1>7

LEMMA IncidentList ==
  ASSUME World, Command, IncidentInv, ListAll
  PROVE  IncidentInv' /\ Command' /\ cmd'.kind = cmd.kind /\ cmd'.on = cmd.on /\ cmd.kind = "incident" /\ cmd'.at # "begin"
<1>1. /\ UNCHANGED <<world, box, heard, known, report, faults>> /\ cmd.kind = "incident" /\ cmd.at = "list"
      /\ todo' = Present
  BY DEF ListAll, world, At
<1>2. Command' /\ cmd'.kind = cmd.kind /\ cmd'.at = "logs" /\ cmd'.on = cmd.on
  BY Towards DEF ListAll, Ats
<1>3. ASSUME NEW k \in known, k[3] = "log" PROVE Gone(k[1]) \/ k[1] \in Present
  <2>1. k[1] \in Box /\ Wrote(k)
    BY <1>1, <1>3 DEF IncidentInv, Signal
  <2>2. QED BY <2>1, Logging DEF Present, Wrote
<1>4. \A k \in known : IF k[3] = "event" THEN k \in heard ELSE Wrote(k)'
  BY <1>1, SameLogs DEF IncidentInv
<1>5. \A k \in known : k[3] = "log" => Gone(k[1])' \/ k[1] \in todo'
  BY <1>1, <1>3, SameLogs
<1>6. heard \subseteq Signal /\ known \subseteq Signal /\ todo' \subseteq Box /\ faults \in Nat
  BY <1>1 DEF IncidentInv, Present
<1>7. IncidentInv'
  BY <1>1, <1>2, <1>4, <1>5, <1>6 DEF IncidentInv
<1>8. QED BY <1>1, <1>2, <1>7

LEMMA IncidentRead ==
  ASSUME World, Command, IncidentInv, NEW c \in Box, ReadLog(c)
  PROVE  IncidentInv'
<1>1. /\ UNCHANGED <<world, box, cmd, known, report>> /\ cmd.kind = "incident" /\ cmd.at = "logs"
      /\ todo' = todo \ {c}
      /\ \/ box[c].state # "none" /\ heard' = heard \cup Errors(c) /\ faults' = faults
         \/ box[c].state = "none" /\ heard' = heard /\ faults' = faults
         \/ faults' = faults + 1 /\ heard' = heard
  BY DEF ReadLog, world, At, Fault
<1>2. faults \in Nat /\ faults' \in Nat /\ heard \subseteq heard' /\ heard' \subseteq Signal
  BY <1>1, ErrorsAre DEF IncidentInv
<1>3. ASSUME NEW k \in known, k[3] = "log", faults' = 0
      PROVE  Gone(k[1]) \/ Explained(k)' \/ k[1] \in todo'
  <2>1. faults' = faults /\ faults = 0
    BY <1>1, <1>2, <1>3
  <2>2. Wrote(k) /\ (Gone(k[1]) \/ Explained(k) \/ k[1] \in todo)
    BY <1>1, <1>3, <2>1 DEF IncidentInv
  <2>3. Explained(k) => Explained(k)'
    <3>1. Told(k[1])' <=> Told(k[1])
      BY <1>1, SameLogs
    <3>2. QED BY <1>2, <3>1 DEF Explained
  <2>4. CASE k[1] = c
    <3>1. box[c].state = "none" => Gone(c)
      BY <2>2, <2>4, Logging DEF Wrote
    <3>2. CASE box[c].state # "none"
      <4>1. heard' = heard \cup Errors(c)
        BY <1>1, <1>2, <2>1, <3>2
      <4>2. Told(c) => \E h \in Errors(c) : h[1] = c /\ h[2] <= k[2]
        BY <2>2, <2>4, Telling DEF Wrote
      <4>3. Told(c)' <=> Told(c)
        BY <1>1, SameLogs
      <4>4. QED BY <2>4, <4>1, <4>2, <4>3 DEF Explained
    <3>3. QED BY <2>4, <3>1, <3>2
  <2>5. QED BY <1>1, <2>2, <2>3, <2>4
<1>4. \A k \in known : IF k[3] = "event" THEN k \in heard' ELSE Wrote(k)'
  BY <1>1, <1>2, SameLogs DEF IncidentInv
<1>5. \A k \in known : k[3] = "log" /\ faults' = 0 => Gone(k[1])' \/ Explained(k)' \/ k[1] \in todo'
  BY <1>1, <1>3, SameLogs
<1>6. known' \subseteq Signal /\ todo' \subseteq Box
  BY <1>1 DEF IncidentInv
<1>7. QED BY <1>1, <1>2, <1>4, <1>5, <1>6 DEF IncidentInv

LEMMA IncidentReport ==
  ASSUME World, Command, IncidentInv, Report
  PROVE  IncidentInv' /\ Command' /\ cmd'.kind = cmd.kind /\ cmd'.on = cmd.on /\ cmd.kind = "incident" /\ cmd'.at # "begin"
<1>1. /\ UNCHANGED <<world, box, heard, todo, known, faults>> /\ cmd.kind = "incident" /\ cmd.at = "logs" /\ todo = {}
      /\ report' \in Analyze(heard, Depends) \cup Analyze(heard, Alone)
  BY DEF Report, world, At
<1>2. Command' /\ cmd'.kind = cmd.kind /\ cmd'.at = "over" /\ cmd'.on = cmd.on
  BY Towards DEF Report, Ats
<1>3. Analyze(heard, Depends)' = Analyze(heard, Depends) /\ Analyze(heard, Alone)' = Analyze(heard, Alone)
  BY <1>1
<1>4. \A k : (Wrote(k)' <=> Wrote(k)) /\ (Gone(k[1])' <=> Gone(k[1])) /\ (Explained(k)' <=> Explained(k))
  <2>1. \A k : Told(k[1])' <=> Told(k[1])
    BY <1>1, SameLogs
  <2>2. QED BY <1>1, <2>1, SameLogs DEF Explained
<1>5. \A k \in known : IF k[3] = "event" THEN k \in heard ELSE Wrote(k)
  BY <1>1 DEF IncidentInv
<1>6. faults = 0 => \A k \in known : k[3] = "log" => Gone(k[1]) \/ Explained(k)
  BY <1>1 DEF IncidentInv
<1>7. heard \subseteq Signal /\ known \subseteq Signal /\ todo \subseteq Box /\ faults \in Nat
  BY DEF IncidentInv
<1>8. IncidentInv'
  BY <1>1, <1>2, <1>3, <1>4, <1>5, <1>6, <1>7 DEF IncidentInv
<1>9. QED BY <1>1, <1>2, <1>8

\* What Analyze makes of the failures it is given: a root when there are any,
\* earlier than the failures of what it depends on and of what it took along.
LEMMA Analyzed ==
  ASSUME NEW signals, signals \subseteq Signal, NEW edges, NEW r \in Analyze(signals, edges)
  PROVE  /\ signals = {} => r = NoReport
         /\ signals # {} => /\ r.root \in Failing(signals) /\ r.root \in Box
                            /\ \A d \in Closure(edges, r.root) \cap Failing(signals) :
                                 First(signals, d) >= First(signals, r.root)
                            /\ \A c \in r.blast : First(signals, c) >= First(signals, r.root)
<1> DEFINE bad == Failing(signals)
           roots == {c \in bad : \A d \in Closure(edges, c) \cap bad : First(signals, d) >= First(signals, c)}
           earliest == {c \in roots : \A d \in roots : First(signals, c) <= First(signals, d)}
<1>1. bad = {} <=> signals = {}
  BY DEF Failing
<1>2. CASE bad = {}
  BY <1>1, <1>2 DEF Analyze
<1>3. CASE bad # {}
  <2>1. PICK x \in earliest :
          r = [root |-> x,
               blast |-> {c \in bad \cap (IF edges = Alone THEN bad \ {x} ELSE Closure(Dependents(edges), x)) :
                            First(signals, c) >= First(signals, x)}]
    BY <1>3 DEF Analyze
  <2>2. x \in bad /\ x \in Box
    BY DEF Failing, Signal
  <2>3. QED BY <1>1, <1>3, <2>1, <2>2
<1>4. QED BY <1>2, <1>3

\* The first failure of one that failed is the least of its failures.
LEMMA FirstIs ==
  ASSUME NEW signals, signals \subseteq Signal, NEW c \in Failing(signals)
  PROVE  First(signals, c) \in Nat /\ (\E s \in signals : s[1] = c /\ s[2] = First(signals, c)) /\ \A s \in signals : s[1] = c => First(signals, c) <= s[2]
<1> DEFINE T == {s[2] : s \in {x \in signals : x[1] = c}}
<1>1. T \subseteq Nat /\ T # {}
  BY DEF Failing, Signal
<1>2. First(signals, c) = Min(T)
  BY DEF First
<1>3. \A s \in signals : s[1] = c => s[2] \in T
  OBVIOUS
<1>4. \A t \in T : \E s \in signals : s[1] = c /\ s[2] = t
  OBVIOUS
<1> HIDE DEF T
<1>5. First(signals, c) \in T /\ \A y \in T : First(signals, c) <= y
  BY <1>1, <1>2, Least
<1>6. QED BY <1>1, <1>3, <1>4, <1>5

\* Without edges the root is the first of all failures, whatever _closure does.
LEMMA AloneIsFirst ==
  ASSUME NEW signals, signals \subseteq Signal, signals # {}, NEW edges, NEW r \in Analyze(signals, edges), edges = Alone
  PROVE  \A d \in Failing(signals) : First(signals, d) >= First(signals, r.root)
<1> DEFINE bad == Failing(signals)
           roots == {c \in bad : \A d \in Closure(edges, c) \cap bad : First(signals, d) >= First(signals, c)}
           T == {First(signals, c) : c \in bad}
<1>1. bad # {}
  BY DEF Failing
<1>2. \A c \in bad : First(signals, c) \in Nat
  BY FirstIs
<1>3. T \subseteq Nat /\ T # {}
  BY <1>1, <1>2
<1>4. PICK t \in T : \A y \in T : t <= y
  <2> HIDE DEF T
  <2>1. QED BY <1>3, HasLeast
<1>5. PICK c \in bad : t = First(signals, c)
  OBVIOUS
<1>6. \A d \in bad : First(signals, c) <= First(signals, d)
  BY <1>4, <1>5
<1>7. c \in roots
  BY <1>2, <1>6
<1>8. PICK x \in roots : (\A d \in roots : First(signals, x) <= First(signals, d)) /\ r.root = x
  BY <1>1 DEF Analyze
<1>9. \A d \in bad : First(signals, x) <= First(signals, d)
  <2>1. x \in bad /\ First(signals, x) \in Nat /\ First(signals, c) \in Nat /\ First(signals, x) <= First(signals, c)
    BY <1>2, <1>7, <1>8
  <2>2. QED BY <1>2, <1>6, <2>1
<1>10. QED BY <1>2, <1>8, <1>9

-----------------------------------------------------------------------------
(* The three commands together.                                              *)

LEMMA Starts ==
  ASSUME Init
  PROVE  IInv
<1> USE BoxAssumption DEF Init
<1>1. \A c \in Box : box[c].log = << >> /\ Lines(c) = 0
  BY DEF Lines
<1>2. Typed
  <2>1. << >> \in Seq(Line)
    OBVIOUS
  <2>2. {[state |-> x, life |-> IF x = "running" THEN 1 ELSE 0, log |-> << >>] : x \in {"none", "running"}} \subseteq Container
    <3>1. ASSUME NEW x \in {"none", "running"}
          PROVE  [state |-> x, life |-> IF x = "running" THEN 1 ELSE 0, log |-> << >>] \in Container
      BY <2>1 DEF Container
    <3>2. QED BY <3>1
  <2>3. QED BY <2>2 DEF Typed
<1>3. evs = << >> /\ Len(evs) = 0 /\ evs \in Seq(Happening)
  OBVIOUS
<1>4. \A c \in Box : box[c].state = "running" => box[c].life >= 1
  OBVIOUS
<1>5. World
  BY <1>1, <1>2, <1>3, <1>4 DEF World, Logged, Lived
<1>6. Command
  <2>1. cmd.on \subseteq Box
    OBVIOUS
  <2>2. QED BY <2>1 DEF Command, Ats
<1>7. FollowInv
  <2>1. pull = [c \in Box |-> [at |-> "idle", n |-> 0, since |-> 0]]
    BY DEF Pull
  <2>2. FollowTyped
    BY <2>1 DEF FollowTyped, Answer
  <2>3. Polls
    BY <2>1 DEF Polls
  <2>4. Listed
    BY DEF Listed, IsInjective
  <2>5. ASSUME NEW c \in Box PROVE Steady(c)
    <3>1. 1 .. 0 = {} /\ [i \in 1 .. 0 |-> i] = << >>
      OBVIOUS
    <3>2. Len(lines[c]) = 0 /\ late[c] = {} /\ lines[c] = << >> /\ seen[c] = {} /\ mark[c] = 1 /\ pull[c].at = "idle"
      BY <2>1
    <3>3. QED BY <1>1, <3>1, <3>2 DEF Steady
  <2>6. QED BY <2>2, <2>3, <2>4, <2>5 DEF FollowInv
<1>8. RecordInv
  BY <1>1, <1>3 DEF RecordInv, TapeTyped, Recording, AtHand, Units
<1>9. IncidentInv
  BY DEF IncidentInv
<1>10. QED BY <1>5, <1>6, <1>7, <1>8, <1>9 DEF IInv

LEMMA Keeps ==
  ASSUME IInv, [Next]_vars
  PROVE  IInv'
<1> USE DEF IInv
<1>1. ASSUME NEW c \in Box, Create(c) \/ Start(c) \/ Write(c) \/ Die(c) \/ Killed(c) \/ Oom(c) \/ Unhealthy(c) \/ Tick PROVE IInv'
  <2>1. World' /\ Grows
    BY <1>1, WorldMoves
  <2>2. UNCHANGED <<cmd, following, recording, looking, faults>> /\ cmd.at # "over"
    BY <1>1 DEF Create, Start, Write, Die, Killed, Oom, Unhealthy, Tick, Happens
  <2>3. FollowInv' /\ RecordInv' /\ IncidentInv'
    BY <2>1, <2>2, FollowWorld, RecordWorld, IncidentWorld
  <2>4. QED BY <2>1, <2>2, <2>3 DEF Command
<1>2. ASSUME UNCHANGED world PROVE World'
  <2>1. UNCHANGED <<box, evs, clock>>
    BY <1>2 DEF world
  <2>2. QED BY <2>1 DEF World, Typed, Logged, Lived, Lines, Died
<1>3. CASE Tick
  <2>1. clock' = clock + 1 /\ UNCHANGED <<box, evs, cmd, following, recording, looking, faults>> /\ cmd.at # "over"
    BY <1>3 DEF Tick
  <2>2. World' /\ Grows
    <3>1. CASE Box = {}
      BY <2>1, <3>1 DEF World, Typed, Logged, Lived, Grows, Lines, Died
    <3>2. CASE Box # {}
      BY <1>3, <3>2, WorldMoves
    <3>3. QED BY <3>1, <3>2
  <2>3. FollowInv' /\ RecordInv' /\ IncidentInv'
    BY <2>1, <2>2, FollowWorld, RecordWorld, IncidentWorld
  <2>4. QED BY <2>1, <2>2, <2>3 DEF Command
<1>4. CASE Follow
  <2>1. FollowInv' /\ Command' /\ cmd'.kind = cmd.kind /\ cmd.kind = "logs"
    BY <1>4, FollowFollow DEF Follow, At
  <2>2. UNCHANGED <<world, recording, looking, faults>>
    BY <1>4 DEF Follow
  <2>3. QED BY <1>2, <2>1, <2>2, RecordElse, IncidentElse
<1>5. CASE Polled
  <2>1. FollowInv' /\ Command' /\ cmd'.kind = cmd.kind /\ cmd.kind = "logs"
    BY <1>5, FollowPolled
  <2>2. UNCHANGED <<world, recording, looking, faults>>
    BY <1>5 DEF Polled
  <2>3. QED BY <1>2, <2>1, <2>2, RecordElse, IncidentElse
<1>6. ASSUME NEW c \in Box, Read(c) \/ Merge(c) \/ GiveUp(c) \/ Late(c) PROVE IInv'
  <2>1. FollowInv'
    BY <1>6, FollowRead, FollowMerge, FollowGiveUp, FollowLate
  <2>2. UNCHANGED <<world, cmd, recording, looking>> /\ (faults' = faults \/ faults' = faults + 1)
    BY <1>6 DEF Read, Merge, GiveUp, Late, Fault
  <2>3. QED BY <1>2, <2>1, <2>2, RecordElse, IncidentElse DEF Command
<1>7. CASE Attach \/ Open \/ NextEvent \/ InspectDead \/ Save \/ WindowEnds
  <2>1. RecordInv' /\ Command' /\ cmd'.kind = cmd.kind /\ cmd'.on = cmd.on /\ cmd.kind = "blackbox" /\ cmd'.at # "begin"
    BY <1>7, RecordAttach, RecordOpen, RecordNext, RecordInspect, RecordSave, RecordEnds
  <2>2. UNCHANGED <<world, following, looking, faults>>
    BY <1>7 DEF Attach, Open, NextEvent, InspectDead, Save, WindowEnds
  <2>3. QED BY <1>2, <2>1, <2>2, FollowElse, IncidentElse
<1>8. ASSUME NEW c \in Box, FollowerInspect(c) \/ Chunk(c) PROVE IInv'
  <2>1. RecordInv'
    BY <1>8, RecordFollower
  <2>2. UNCHANGED <<world, cmd, following, looking, faults>>
    BY <1>8 DEF FollowerInspect, Chunk
  <2>3. QED BY <1>2, <2>1, <2>2, FollowElse, IncidentElse DEF Command
<1>9. CASE ReadEvents \/ ListAll \/ Report
  <2>1. IncidentInv' /\ Command' /\ cmd'.kind = cmd.kind /\ cmd'.on = cmd.on /\ cmd.kind = "incident" /\ cmd'.at # "begin"
    BY <1>9, IncidentEvents, IncidentList, IncidentReport
  <2>2. UNCHANGED <<world, following, recording>>
    BY <1>9 DEF ReadEvents, ListAll, Report
  <2>3. QED BY <1>2, <2>1, <2>2, FollowElse, RecordElse
<1>10. ASSUME NEW c \in Box, ReadLog(c) PROVE IInv'
  <2>1. IncidentInv'
    BY <1>10, IncidentRead
  <2>2. UNCHANGED <<world, cmd, following, recording>>
    BY <1>10 DEF ReadLog
  <2>3. QED BY <1>2, <2>1, <2>2, FollowElse, RecordElse DEF Command
<1>11. CASE UNCHANGED vars
  <2>1. UNCHANGED <<world, cmd, following, recording, looking, faults>>
    BY <1>11 DEF vars
  <2>2. QED BY <1>2, <2>1, FollowElse, RecordElse, IncidentElse DEF Command
<1>12. QED BY <1>1, <1>3, <1>4, <1>5, <1>6, <1>7, <1>8, <1>9, <1>10, <1>11 DEF Next

LEMMA Invariant == Spec => []IInv
<1>1. Init => IInv
  BY Starts
<1>2. IInv /\ [Next]_vars => IInv'
  BY Keeps
<1>3. QED BY <1>1, <1>2, PTL DEF Spec

\* Each line of a host that did not fail is listed once and in its order, and
\* none is missed: the second polls overlap in is told by what was seen of it.
THEOREM EachLineOnce == Spec => []LinesOnce
<1>1. IInv => LinesOnce
  <2> SUFFICES ASSUME IInv, At("logs", "sleep") \/ At("logs", "over"), NEW c \in cmd.on
               PROVE  IF c \in errors \cup cut THEN IsInjective(lines[c])
                      ELSE lines[c] = [i \in 1 .. pull[c].n |-> i]
    BY DEF LinesOnce
  <2>1. c \in Box
    BY DEF IInv, Command
  <2>2. CASE c \in errors \cup cut
    BY <2>1, <2>2 DEF IInv, FollowInv, Listed
  <2>3. CASE c \notin errors \cup cut
    <3>1. pull[c].at = "done"
      BY <2>1, <2>3 DEF IInv, FollowInv, Polls, At
    <3>2. c \in Box \ (Failed \cup cut)
      BY <2>1, <2>3, <3>1 DEF Failed
    <3>3. QED BY <2>3, <3>1, <3>2 DEF IInv, FollowInv, Steady
  <2>4. QED BY <2>2, <2>3
<1>2. QED BY <1>1, Invariant, PTL

\* The flight recorder has a record of every first death in its window, unless
\* it had its fill, and each record is of an event and of whole lines.
THEOREM FirstDeathsRecorded == Spec => []DeathsRecorded
<1>1. IInv => DeathsRecorded
  <2> SUFFICES ASSUME IInv PROVE DeathsRecorded
    OBVIOUS
  <2>1. ASSUME NEW f \in DOMAIN files
        PROVE  /\ \E i \in DOMAIN evs : <<evs[i].of, evs[i].t, evs[i].action>> = f
               /\ \A i \in 1 .. Len(files[f].logs) - 1 : files[f].logs[i + 1] = files[f].logs[i] + 1
               /\ Len(files[f].logs) <= Keep
               /\ \A i \in DOMAIN files[f].logs : files[f].logs[i] <= Lines(f[1])
    <3>1. Sound(f)
      BY DEF IInv, RecordInv
    <3>2. DOMAIN evs = 1 .. Len(evs) /\ DOMAIN files[f].logs = 1 .. Len(files[f].logs)
      BY <3>1, EventsAre DEF IInv, Sound
    <3>3. QED BY <3>1, <3>2 DEF Sound, Contiguous, Name
  <2>2. ASSUME At("blackbox", "over"), count < MaxRecords, NEW i \in cmd.from + 1 .. Len(evs),
               evs[i].action = "die", box[evs[i].of].life = 1
        PROVE  /\ <<evs[i].of, evs[i].t, "die">> \in DOMAIN files
               /\ files[<<evs[i].of, evs[i].t, "die">>].code = evs[i].code
    <3>1. Recording /\ cmd.at = "over"
      BY <2>2 DEF At, IInv, RecordInv
    <3>2. pos = Len(evs)
      <4>1. count \in Nat
        BY DEF IInv, RecordInv
      <4>2. ~(count >= MaxRecords)
        BY <2>2, <4>1, RecorderAssumption
      <4>3. QED BY <3>1, <4>2 DEF Recording
    <3>3. Recorded(i)
      BY <2>2, <3>1, <3>2 DEF Recording, AtHand
    <3>4. QED BY <2>2, <3>3 DEF Recorded, Name
  <2>3. QED BY <2>1, <2>2 DEF DeathsRecorded
<1>2. QED BY <1>1, Invariant, PTL

\* An incident names a root when there is a failure to explain, and it did not
\* fail after anything it depends on, however the world moved meanwhile.
THEOREM RootFailedFirst == Spec => []RootIsFirst
<1>1. IInv => RootIsFirst
  <2> SUFFICES ASSUME IInv, At("incident", "over"), faults = 0 PROVE RootIsFirst
    BY DEF RootIsFirst
  <2> DEFINE was == {k \in known : k[3] = "log" => k[1] \in Present /\ Told(k[1])}
             root == report.root
  <2>1. PICK edges : report \in Analyze(heard, edges) /\ edges \in {Depends, Alone}
    BY DEF IInv, IncidentInv, At
  <2>2. heard \subseteq Signal /\ was \subseteq Signal
    BY DEF IInv, IncidentInv
  <2>3. ASSUME NEW k \in was PROVE \E h \in heard : h[1] = k[1] /\ h[2] <= k[2]
    <3>1. k[3] \in {"event", "log"} /\ k[2] \in Nat
      BY <2>2 DEF Signal
    <3>2. CASE k[3] = "event"
      <4>1. k \in heard
        BY <3>2 DEF IInv, IncidentInv, At
      <4>2. QED BY <3>1, <4>1
    <3>3. CASE k[3] = "log"
      BY <3>3 DEF IInv, IncidentInv, At, Gone, Present, Explained
    <3>4. QED BY <3>1, <3>2, <3>3
  <2> HIDE DEF was
  <2>4. was # {} => root # "none"
    <3>1. was # {} => heard # {}
      BY <2>3
    <3>2. QED BY <2>1, <2>2, <3>1, Analyzed, BoxAssumption
  <2>5. ASSUME NEW d \in Failing(was), root # "none", d \in Closure(Depends, root)
        PROVE  First(was, d) >= First(heard, root)
    <3>1. (First(was, d) \in Nat) /\ \E k \in was : k[1] = d /\ k[2] = First(was, d)
      BY <2>2, FirstIs
    <3>2. PICK h \in heard : h[1] = d /\ h[2] <= First(was, d) /\ h[2] \in Nat
      BY <2>2, <2>3, <3>1 DEF Signal
    <3>3. d \in Failing(heard) /\ heard # {}
      BY <3>2 DEF Failing
    <3>4. First(heard, d) >= First(heard, root)
      <4>1. CASE edges = Depends
        BY <2>1, <2>2, <2>5, <3>3, <4>1, Analyzed
      <4>2. CASE edges = Alone
        BY <2>1, <2>2, <3>3, <4>2, AloneIsFirst
      <4>3. QED BY <2>1, <4>1, <4>2
    <3>5. First(heard, d) \in Nat /\ First(heard, d) <= h[2]
      BY <2>2, <3>2, <3>3, FirstIs
    <3>6. root \in Failing(heard)
      BY <2>1, <2>2, <3>3, Analyzed
    <3>7. First(heard, root) \in Nat
      BY <2>2, <3>6, FirstIs
    <3>8. QED BY <3>1, <3>2, <3>4, <3>5, <3>7
  <2>6. ASSUME NEW c \in report.blast PROVE First(heard, c) >= First(heard, root)
    <3>1. CASE heard = {}
      <4>1. report = NoReport
        BY <2>1, <2>2, <3>1, Analyzed
      <4>2. report.blast = {}
        BY <4>1 DEF NoReport
      <4>3. QED BY <2>6, <4>2
    <3>2. CASE heard # {}
      BY <2>1, <2>2, <2>6, <3>2, Analyzed
    <3>3. QED BY <3>1, <3>2
  <2>7. QED BY <2>4, <2>5, <2>6 DEF RootIsFirst, was
<1>2. QED BY <1>1, Invariant, PTL
=============================================================================
