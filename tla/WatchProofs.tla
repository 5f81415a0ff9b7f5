----------------------------- MODULE WatchProofs -----------------------------
(***************************************************************************)
(* Proofs about what looks at the fleet and acts on what it has seen, or   *)
(* shows it: `fleet watch`, `fleet canary` and `system watch` (Monitor)    *)
(* for any hosts, containers, changes and sinks, the exporter and the      *)
(* portal (Serving) for any number of clients and any times, the commands  *)
(* of a database service (Service) for any number of processes and faults, *)
(* and `system remediate` (Remedy) for any containers, ailments and rules. *)
(***************************************************************************)
EXTENDS Monitor, Serving, Service, Remedy, FunctionTheorems, FiniteSetTheorems, SequenceTheorems,
        WellFoundedInduction, TLAPS

----------------------------------------------------------------------------
(* The triage.                                                             *)

LEMMA CriticalYields ==
  ASSUME NEW rule, NEW looked
  PROVE  (\E x \in Yields(rule, looked) : x.severity = "critical")
           <=> \E i \in DOMAIN looked : looked[i][1] /\ looked[i][2] = "critical"
<1> DEFINE at(i) == Finding(looked[i][2], looked[i][3], rule, i)
           Holding == {j \in DOMAIN looked : looked[j][1]}
<1>1. \A i : at(i).severity = looked[i][2]
  BY DEF Finding
<1>2. Yields(rule, looked) = {at(i) : i \in Holding}
  BY Zenon DEF Yields
<1> HIDE DEF at
<1>3. (\E x \in {at(i) : i \in Holding} : x.severity = "critical") <=> \E i \in Holding : at(i).severity = "critical"
  OBVIOUS
<1>4. QED BY <1>1, <1>2, <1>3

\* What the daemon says of a container is grave exactly when it is wrong.
LEMMA CriticalState ==
  ASSUME NEW f \in Facts
  PROVE  (\E x \in StateRules(f) : x.severity = "critical")
           <=> \/ f.error \/ f.oom \/ f.status = "restarting" \/ f.restarts >= 3 \/ f.unhealthy
               \/ f.status \in {"created", "exited", "dead"} /\ f.code \in DOMAIN ExitCodes
<1> DEFINE looping == Restarting(f) \/ f.restarts >= 3
           ended == f.status \in {"exited", "dead"} \/ Restarting(f) \/ (f.status = "created" /\ f.code # 0)
           known == f.code \in DOMAIN ExitCodes
           killed == f.code = 137 /\ ~f.oom
           a1 == <<f.error, "critical", "start-error">>
           a2 == <<f.oom, "critical", "oom-killed">>
           a3 == <<looping, "critical", "crash-loop">>
           a4 == <<ended /\ known, "critical", IF known THEN ExitCodes[f.code] ELSE "">>
           a5 == <<ended /\ killed, "warning", "sigkill">>
           a6 == <<ended /\ f.code = 143, "info", "sigterm">>
           a7 == <<ended /\ ~known /\ ~killed /\ f.code \notin {0, 143} /\ ~looping /\ ~f.oom, "warning", "app-error">>
           a8 == <<f.unhealthy, "critical", "unhealthy">>
           a9 == <<f.status = "created", "warning", "never-started">>
           a10 == <<f.status = "paused", "warning", "paused">>
           looked == <<a1, a2, a3, a4, a5, a6, a7, a8, a9, a10>>
<1>1. StateRules(f) = Yields(1, looked)
  BY Zenon DEF StateRules
<1>2. /\ a1[1] = f.error /\ a2[1] = f.oom /\ (a3[1] <=> looping) /\ (a4[1] <=> ended /\ known) /\ a8[1] = f.unhealthy
      /\ a1[2] = "critical" /\ a2[2] = "critical" /\ a3[2] = "critical" /\ a4[2] = "critical" /\ a8[2] = "critical"
      /\ a5[2] # "critical" /\ a6[2] # "critical" /\ a7[2] # "critical" /\ a9[2] # "critical" /\ a10[2] # "critical"
  OBVIOUS
<1> HIDE DEF a1, a2, a3, a4, a5, a6, a7, a8, a9, a10
<1>3. DOMAIN looked = 1 .. 10
  OBVIOUS
<1>4. /\ looked[1] = a1 /\ looked[2] = a2 /\ looked[3] = a3 /\ looked[4] = a4 /\ looked[5] = a5
      /\ looked[6] = a6 /\ looked[7] = a7 /\ looked[8] = a8 /\ looked[9] = a9 /\ looked[10] = a10
  OBVIOUS
<1> HIDE DEF looked
<1>5. (\E i \in DOMAIN looked : looked[i][1] /\ looked[i][2] = "critical")
        <=> a1[1] \/ a2[1] \/ a3[1] \/ a4[1] \/ a8[1]
  <2>1. \A i \in 1 .. 10 : looked[i][2] = "critical" => i \in {1, 2, 3, 4, 8}
    BY <1>2, <1>4
  <2>2. QED BY <1>2, <1>3, <1>4, <2>1
<1>6. ended /\ known <=> (f.status \in {"created", "exited", "dead"} \/ Restarting(f)) /\ known
  BY DEF ExitCodes
<1>7. (\E x \in StateRules(f) : x.severity = "critical")
        <=> \E i \in DOMAIN looked : looked[i][1] /\ looked[i][2] = "critical"
  BY <1>1, CriticalYields
<1>8. f.error \in BOOLEAN /\ f.oom \in BOOLEAN /\ f.unhealthy \in BOOLEAN
  BY DEF Facts
<1>9. QED BY <1>2, <1>5, <1>6, <1>7, <1>8 DEF Restarting

\* A signature hits a log when it claims one of its lines.
LEMMA InHits ==
  ASSUME NEW f, NEW code
  PROVE  Hits(f, code) # {} <=>
           \E i \in DOMAIN f.logs : code \in f.logs[i].hits /\ (code = "app-crash" => f.logs[i].hits = {code})
BY Zenon DEF Hits

LEMMA HitComplains ==
  ASSUME NEW f, NEW code, Hits(f, code) # {}, ~(code = "missing-env" /\ f.set)
  PROVE  \E i \in DOMAIN f.logs : Complains(f, f.logs[i])
<1>1. PICK i \in DOMAIN f.logs : code \in f.logs[i].hits /\ (code = "app-crash" => f.logs[i].hits = {code})
  BY InHits
<1> DEFINE line == f.logs[i]
<1>2. code \in line.hits /\ (code = "app-crash" => line.hits = {code})
  BY <1>1
<1> HIDE DEF line
<1>3. f.set /\ "missing-env" \in line.hits => code \notin {"missing-env", "app-crash"}
  BY <1>2
<1>4. Complains(f, line)
  BY <1>2, <1>3 DEF Complains
<1>5. QED BY <1>4 DEF line

\* The log of a container that failed is grave exactly when a line complains, and
\* that of another never is.
LEMMA CriticalLog ==
  ASSUME NEW f \in Facts
  PROVE  (\E x \in LogRules(f) : x.severity = "critical")
           <=> Failing(f) /\ \E i \in DOMAIN f.logs : Complains(f, f.logs[i])
<1> DEFINE severity(code) == IF code = "missing-env" /\ f.set THEN "info" ELSE LogSeverity(f)
           leftover == \E i \in DOMAIN f.logs : f.logs[i].hits = {} /\ f.logs[i].error
           signs == [j \in DOMAIN Signatures |-> <<Hits(f, Signatures[j]) # {}, severity(Signatures[j]), Signatures[j]>>]
           rest == << <<leftover, LogSeverity(f), "log-errors">> >>
<1>1. LogRules(f) = Yields(2, signs) \cup Yields(3, rest)
  BY Zenon DEF LogRules
<1>2. DOMAIN Signatures = 1 .. 12
  BY DEF Signatures
<1>3. DOMAIN rest = {1} /\ (rest[1][1] <=> leftover) /\ rest[1][2] = LogSeverity(f)
  OBVIOUS
<1>4. DOMAIN signs = 1 .. 12
  BY <1>2
<1>5. \A j \in 1 .. 12 : (signs[j][1] <=> Hits(f, Signatures[j]) # {}) /\ signs[j][2] = severity(Signatures[j])
  BY <1>2
<1> HIDE DEF signs, rest
<1>6. (\E x \in LogRules(f) : x.severity = "critical")
        <=> \/ \E j \in DOMAIN signs : signs[j][1] /\ signs[j][2] = "critical"
            \/ \E j \in DOMAIN rest : rest[j][1] /\ rest[j][2] = "critical"
  BY <1>1, CriticalYields
<1> HIDE DEF severity, leftover
<1>7. (\E x \in LogRules(f) : x.severity = "critical")
        <=> \/ \E j \in 1 .. 12 : Hits(f, Signatures[j]) # {} /\ severity(Signatures[j]) = "critical"
            \/ leftover /\ LogSeverity(f) = "critical"
  BY <1>3, <1>4, <1>5, <1>6
<1> USE DEF severity, leftover
<1>8. LogSeverity(f) = "critical" <=> Failing(f)
  BY DEF LogSeverity
<1>9. \A j \in 1 .. 12 : severity(Signatures[j]) = "critical"
        <=> Failing(f) /\ ~(Signatures[j] = "missing-env" /\ f.set)
  BY <1>8
<1>10. ASSUME NEW j \in 1 .. 12, Hits(f, Signatures[j]) # {}, ~(Signatures[j] = "missing-env" /\ f.set)
       PROVE  \E i \in DOMAIN f.logs : Complains(f, f.logs[i])
  <2> HIDE DEF severity, leftover
  <2>1. QED BY <1>10, HitComplains
<1>11. ASSUME NEW i \in DOMAIN f.logs, Complains(f, f.logs[i]), ~leftover
       PROVE  \E j \in 1 .. 12 : Hits(f, Signatures[j]) # {} /\ ~(Signatures[j] = "missing-env" /\ f.set)
  <2>1. f.logs[i].hits \subseteq Signs /\ f.logs[i].hits # {}
    <3>1. f.logs \in Seq(LogLine)
      BY DEF Facts
    <3>2. f.logs[i] \in LogLine
      BY <3>1
    <3>3. QED BY <1>11, <3>2 DEF LogLine, Complains
  <2>2. CASE f.logs[i].hits = {"app-crash"}
    <3>1. PICK j \in 1 .. 12 : Signatures[j] = "app-crash"
      BY <1>2, <2>1, <2>2 DEF Signs
    <3>2. QED BY <1>2, <2>2, <3>1, InHits
  <2>3. CASE f.logs[i].hits # {"app-crash"}
    <3>1. PICK c \in f.logs[i].hits : c # "app-crash" /\ ~(c = "missing-env" /\ f.set)
      BY <1>11, <2>1, <2>3 DEF Complains
    <3>2. PICK j \in 1 .. 12 : Signatures[j] = c
      BY <1>2, <2>1, <3>1 DEF Signs
    <3>3. QED BY <1>2, <3>1, <3>2, InHits
  <2>4. QED BY <2>2, <2>3
<1>12. leftover => \E i \in DOMAIN f.logs : Complains(f, f.logs[i])
  BY DEF Complains
<1> HIDE DEF severity, leftover
<1>13. QED BY <1>7, <1>8, <1>9, <1>10, <1>11, <1>12

LEMMA CriticalRest ==
  ASSUME NEW f \in Facts, NEW x \in ImageRules(f) \cup ConfigRules(f)
  PROVE  x.severity # "critical"
<1> DEFINE image == << <<f.newer, "warning", "stale-image">>, <<~f.pinned, "info", "unpinned-image">> >>
           config == << <<f.privileged, "warning", "privileged">>, <<f.socket, "warning", "docker-socket-mounted">>,
                        <<f.status = "exited" /\ f.code # 0 /\ f.policy = "no", "info", "no-restart-policy">> >>
<1>1. ImageRules(f) = Yields(4, image) /\ ConfigRules(f) = Yields(5, config)
  BY Zenon DEF ImageRules, ConfigRules
<1>2. DOMAIN image = 1 .. 2 /\ DOMAIN config = 1 .. 3
  OBVIOUS
<1>3. image[1][2] # "critical" /\ image[2][2] # "critical"
  OBVIOUS
<1>4. config[1][2] # "critical" /\ config[2][2] # "critical" /\ config[3][2] # "critical"
  OBVIOUS
<1> HIDE DEF image, config
<1>5. (\A i \in DOMAIN image : image[i][2] # "critical") /\ (\A i \in DOMAIN config : config[i][2] # "critical")
  BY <1>2, <1>3, <1>4
<1>6. QED BY <1>1, <1>5, CriticalYields

\* The verdict on a container is "failing" exactly when something is wrong with it.
LEMMA VerdictIsFailing ==
  ASSUME NEW f \in Facts
  PROVE  /\ Diagnose(f).verdict \in {"failing", "degraded", "healthy"}
         /\ Diagnose(f).verdict = "failing" <=> Wrong(f)
<1> DEFINE found == StateRules(f) \cup LogRules(f) \cup ImageRules(f) \cup ConfigRules(f)
           severities == {x.severity : x \in found}
<1>1. Diagnose(f).verdict = Verdict(found)
  BY DEF Diagnose
<1>2. Verdict(found) = IF "critical" \in severities THEN "failing" ELSE IF "warning" \in severities THEN "degraded" ELSE "healthy"
  BY Zenon DEF Verdict
<1>3. "critical" \in severities
        <=> (\E x \in StateRules(f) : x.severity = "critical") \/ \E x \in LogRules(f) : x.severity = "critical"
  BY CriticalRest
<1> HIDE DEF severities
<1>4. "critical" \in severities <=> Wrong(f)
  BY <1>3, CriticalState, CriticalLog DEF Wrong, Failing, Restarting, Facts
<1>5. QED BY <1>1, <1>2, <1>4

----------------------------------------------------------------------------
(* Numbers.  A set of numbers stands for a property of them, where a pencil  *)
(* proof would use induction.                                                *)

\* A nonempty set of natural numbers has a least element.
LEMMA HasLeast ==
  ASSUME NEW T, T \subseteq Nat, T # {}
  PROVE  \E x \in T : \A y \in T : x <= y
<1> DEFINE R == OpToRel(<, Nat)
<1>1. IsWellFoundedOn(R, Nat)
  BY NatLessThanWellFounded, Zenon
<1>2. R = {ss \in Nat \X Nat : ss[1] < ss[2]}
  BY Zenon DEF OpToRel
<1> HIDE DEF R
<1>3. PICK x \in T : \A y \in T : ~ (<<y, x>> \in R)
  BY <1>1, WFMin
<1>4. \A y \in T : ~ (y < x)
  BY <1>2, <1>3
<1>5. QED BY <1>4

\* What holds of 0 and of the successor of each holds up to n.
LEMMA UpTo ==
  ASSUME NEW n \in Nat, NEW T, 0 \in T, \A i \in 0 .. n - 1 : i \in T => i + 1 \in T
  PROVE  0 .. n \subseteq T
<1> DEFINE Bad == {i \in 0 .. n : i \notin T}
<1> SUFFICES ASSUME Bad # {} PROVE FALSE
  OBVIOUS
<1>1. Bad \subseteq Nat
  OBVIOUS
<1>2. PICK i \in Bad : \A j \in Bad : i <= j
  <2> HIDE DEF Bad
  <2>1. QED BY <1>1, HasLeast
<1>3. i \in 0 .. n /\ i \notin T /\ i # 0
  OBVIOUS
<1>4. i - 1 \in 0 .. n - 1 /\ i - 1 \notin Bad
  BY <1>2, <1>3
<1>5. i - 1 \in T
  BY <1>4
<1>6. (i - 1) + 1 \in T
  BY <1>4, <1>5
<1>7. QED BY <1>3, <1>6

----------------------------------------------------------------------------
(* The watch, the canary and `system watch`.                               *)

Verdicts == {"healthy", "degraded", "failing", "down"}

Shaped(t) ==
  t = [at |-> t.at, vitals |-> t.vitals, left |-> t.left, one |-> t.one, read |-> t.read, row |-> t.row]

\* A row of a snapshot, and what `system watch` tells of a container.
IsRow(r) == r = [verdict |-> r.verdict, reasons |-> r.reasons] /\ r.verdict \in Verdicts
IsBox(b) == b = [verdict |-> b.verdict, found |-> b.found, state |-> b.state]
AreBoxes(r) == r.boxes = [c \in Container |-> r.boxes[c]] /\ \A c \in Container : IsBox(r.boxes[c])

RowOK(t) ==
  t.at = "done" =>
    /\ cmd.kind = "watch" => IsRow(t.row)
    /\ cmd.kind = "system" /\ t.row.verdict # "down" => AreBoxes(t.row)

MonitorTyped ==
  /\ world \in [Host -> HostState]
  /\ cmd \in [kind : {"watch", "system", "canary"}, at : {"begin", "poll", "canary", "baseline", "over"}, polls : Nat, http : BOOLEAN]
  /\ cmd.at \in {"canary", "baseline"} => cmd.kind = "canary"
  /\ cmd.at = "poll" => cmd.kind # "canary"
  /\ calm \subseteq Host
  /\ try = [h \in Host |-> try[h]]
  /\ \A h \in Host : Shaped(try[h]) /\ RowOK(try[h]) /\ (cmd.kind = "canary" => try[h].at \notin {"vitals", "list"})

\* What is wrong on a host, and what is so with its service when it answers.
Present(h) == {c \in Container : world[h].box[c] # Gone}
Ill(h, c) == world[h].box[c] # Gone /\ Wrong(world[h].box[c])
ServiceFares(h, verdict) ==
  world[h].reach /\ world[h].box[Service] # Gone /\ (verdict = "failing" <=> Wrong(world[h].box[Service]))
ServiceRuns(h) == world[h].box[Service].status = "running"

\* An attempt at a host that has not changed since it was first asked: what was
\* read of it is so, and what is left to read is the rest.
Looks(h, t) ==
  /\ cmd.kind = "watch" /\ t.at \in {"list", "inspect", "log"} => t.vitals = world[h].vitals
  /\ t.at \in {"vitals", "list"} => t.read = << >>
  /\ t.at \in {"inspect", "log"} =>
       /\ t.read = [c \in DOMAIN t.read |-> world[h].box[c]] /\ DOMAIN t.read \subseteq Present(h)
       /\ t.at = "log" => t.one[1] \in Present(h) /\ t.one = <<t.one[1], world[h].box[t.one[1]]>>
       /\ LET all == DOMAIN t.read \cup t.left \cup (IF t.at = "log" THEN {t.one[1]} ELSE {})
          IN all = IF cmd.kind = "canary" THEN {Service} ELSE Present(h)
  /\ t.at = "done" /\ t.row.verdict # "down" =>
       /\ cmd.kind = "watch" =>
            (t.row.verdict = "failing" <=> Spent(world[h].vitals) \/ \E c \in Container : Ill(h, c))
       /\ cmd.kind = "system" => \A c \in Container : t.row.boxes[c].verdict = "failing" <=> Ill(h, c)
       /\ cmd.kind = "canary" => ServiceFares(h, t.row.verdict) /\ (t.row.served => ServiceRuns(h))

Attempts == \A h \in calm : Looks(h, try[h])

Comparison ==
  /\ cmd.at = "baseline" =>
       \A h \in Canary \cap calm :
         side[h].verdict # "down" => ServiceFares(h, side[h].verdict) /\ (side[h].served => ServiceRuns(h))
  /\ go =>
       /\ cmd.at = "over"
       /\ \A h \in Canary \cap calm :
            /\ \E v : v # "failing" /\ ServiceFares(h, v)
            /\ cmd.http /\ (\A b \in Host \ Canary : Served(b)) => ServiceRuns(h)

\* The rows that lead from the first snapshot through the batches of changes.
Rows(h, row) ==
  row = [n \in 0 .. Len(events) |-> IF n = 0 THEN first[h] ELSE AfterBatch(row[n - 1], events[n], h)]
Boxes(c, b) ==
  b = [n \in 0 .. Len(events) |-> IF n = 0 THEN first[Local].boxes[c] ELSE BoxAfterBatch(b[n - 1], events[n], c)]

Changelog ==
  /\ \E S : events \in Seq(S)
  /\ first = << >> => events = << >>
  /\ told = [s \in DOMAIN Sink |-> told[s]] /\ deaf = [s \in DOMAIN Sink |-> deaf[s]]
  /\ \A s \in DOMAIN Sink : told[s] \cup deaf[s] \subseteq 1 .. Len(events)
  /\ cmd.kind # "watch" => \A s \in DOMAIN Sink : told[s] \cup deaf[s] = {}
  /\ cmd.kind = "watch" /\ first # << >> =>
       /\ \A h \in Host : IsRow(prev[h]) /\ \E row : Rows(h, row) /\ row[Len(events)] = prev[h]
       /\ \A s \in DOMAIN Sink : \A i \in 1 .. Len(events) :
            events[i] # {} /\ Changed(i, Sink[s]) => (i \in told[s]) # (i \in deaf[s])
  /\ cmd.kind = "system" /\ first # << >> =>
       AreBoxes(prev[Local]) /\ \A c \in Container : \E b : Boxes(c, b) /\ b[Len(events)] = prev[Local].boxes[c]

MonitorInv == MonitorTyped /\ Attempts /\ Comparison /\ Changelog

LEMMA WaitingIs ==
  ASSUME NEW at
  PROVE  Waiting(at) = [at |-> at, vitals |-> Unprobed, left |-> {}, one |-> << >>, read |-> << >>, row |-> NoRow]
BY DEF Waiting

\* An attempt that is about to begin, or at rest.
LEMMA WaitingOK ==
  ASSUME NEW h, NEW at \in {"idle", "vitals", "list"}
  PROVE  Shaped(Waiting(at)) /\ RowOK(Waiting(at)) /\ Waiting(at).at = at /\ (at # "list" \/ cmd.kind # "watch" => Looks(h, Waiting(at)))
BY WaitingIs DEF Shaped, RowOK, Looks

\* The parts of an attempt that a step replaces.
LEMMA RowOf ==
  ASSUME NEW at, NEW vitals, NEW left, NEW one, NEW read, NEW row, NEW new
  PROVE  [[at |-> at, vitals |-> vitals, left |-> left, one |-> one, read |-> read, row |-> row] EXCEPT !.row = new]
           = [at |-> at, vitals |-> vitals, left |-> left, one |-> one, read |-> read, row |-> new]
OBVIOUS

LEMMA DownIs ==
  ASSUME NEW why
  PROVE  Down(why) = [at |-> "done", vitals |-> Unprobed, left |-> {}, one |-> << >>, read |-> << >>,
                      row |-> [verdict |-> "down", reasons |-> {<<why>>}]]
<1>1. Down(why) = [Waiting("done") EXCEPT !.row = [verdict |-> "down", reasons |-> {<<why>>}]]
  BY Zenon DEF Down
<1>2. QED BY <1>1, WaitingIs, RowOf, Zenon

LEMMA DownOK ==
  ASSUME NEW h, NEW why
  PROVE  Shaped(Down(why)) /\ RowOK(Down(why)) /\ Looks(h, Down(why)) /\ Down(why).at = "done"
BY DownIs DEF Shaped, RowOK, Looks, IsRow, Verdicts

LEMMA InitMonitorInv == Init => MonitorInv
<1> SUFFICES ASSUME Init PROVE MonitorInv
  OBVIOUS
<1>1. /\ world \in Begins /\ try = [h \in Host |-> Waiting("idle")]
      /\ cmd.kind \in {"watch", "system", "canary"} /\ cmd = [kind |-> cmd.kind, at |-> "begin", polls |-> 0, http |-> cmd.http] /\ cmd.http \in BOOLEAN
      /\ prev = << >> /\ first = << >> /\ events = << >> /\ told = [s \in DOMAIN Sink |-> {}] /\ deaf = told
      /\ side = << >> /\ go = FALSE /\ calm = {} /\ changed = 0
  BY DEF Init
<1>2. MonitorTyped
  <2>1. world \in [Host -> HostState] /\ calm \subseteq Host
    BY <1>1, MonitorAssumption
  <2>2. cmd \in [kind : {"watch", "system", "canary"}, at : {"begin", "poll", "canary", "baseline", "over"}, polls : Nat, http : BOOLEAN]
        /\ cmd.at = "begin"
    BY <1>1
  <2>3. \A h \in Host : try[h] = Waiting("idle")
    BY <1>1
  <2>4. \A h \in Host : Shaped(try[h]) /\ RowOK(try[h]) /\ try[h].at = "idle"
    BY <2>3, WaitingOK
  <2>5. QED BY <1>1, <2>1, <2>2, <2>4 DEF MonitorTyped
<1>3. Attempts /\ Comparison
  BY <1>1 DEF Attempts, Comparison
<1>4. Changelog
  <2>1. events \in Seq({}) /\ \A s \in DOMAIN Sink : told[s] = {} /\ deaf[s] = {}
    BY <1>1
  <2>2. \E S : events \in Seq(S)
    BY <2>1
  <2>3. QED BY <1>1, <2>1, <2>2 DEF Changelog
<1>5. QED BY <1>2, <1>3, <1>4 DEF MonitorInv

\* A step that reports nothing.
LEMMA SameChangelog ==
  ASSUME Changelog, UNCHANGED <<prev, first, events, told, deaf>>, cmd'.kind = cmd.kind
  PROVE  Changelog'
<1>1. /\ (\E S : events \in Seq(S))'
      /\ (first = << >> => events = << >>)'
      /\ (told = [s \in DOMAIN Sink |-> told[s]] /\ deaf = [s \in DOMAIN Sink |-> deaf[s]])'
      /\ (\A s \in DOMAIN Sink : told[s] \cup deaf[s] \subseteq 1 .. Len(events))'
      /\ (cmd.kind # "watch" => \A s \in DOMAIN Sink : told[s] \cup deaf[s] = {})'
  BY DEF Changelog
<1>2. (cmd.kind = "watch" /\ first # << >> =>
         /\ \A h \in Host : IsRow(prev[h]) /\ \E row : Rows(h, row) /\ row[Len(events)] = prev[h]
         /\ \A s \in DOMAIN Sink : \A i \in 1 .. Len(events) :
              events[i] # {} /\ Changed(i, Sink[s]) => (i \in told[s]) # (i \in deaf[s]))'
  BY DEF Changelog, Rows, Changed, IsRow
<1>3. (cmd.kind = "system" /\ first # << >> =>
         AreBoxes(prev[Local]) /\ \A c \in Container : \E b : Boxes(c, b) /\ b[Len(events)] = prev[Local].boxes[c])'
  BY DEF Changelog, Boxes, AreBoxes, IsBox
<1>4. QED BY <1>1, <1>2, <1>3 DEF Changelog

\* A step of the attempt at one host.
LEMMA OneAttempt ==
  ASSUME MonitorInv, NEW h \in Host,
         UNCHANGED <<world, cmd, prev, first, events, told, deaf, side, go, calm, changed>>,
         try' = [try EXCEPT ![h] = try'[h]],
         Shaped(try[h])', RowOK(try[h])', cmd.kind = "canary" => try'[h].at \notin {"vitals", "list"},
         h \in calm => Looks(h, try[h])'
  PROVE  MonitorInv'
<1>1. \A x \in Host : x # h => try'[x] = try[x]
  BY DEF MonitorInv, MonitorTyped
<1>2. try' = [x \in Host |-> try'[x]]
  BY DEF MonitorInv, MonitorTyped
<1>3. MonitorTyped'
  BY <1>1, <1>2 DEF MonitorInv, MonitorTyped, Shaped, RowOK, AreBoxes
<1>4. Attempts'
  <2>1. ASSUME NEW x \in calm', x # h PROVE Looks(x, try[x])'
    <3>1. x \in calm /\ x \in Host /\ try'[x] = try[x] /\ Looks(x, try[x])
      BY <1>1, <2>1 DEF MonitorInv, MonitorTyped, Attempts
    <3>2. QED BY <3>1 DEF Looks, Present, Ill, ServiceFares, ServiceRuns
  <2>2. QED BY <2>1 DEF Attempts
<1>5. Comparison'
  BY DEF MonitorInv, Comparison, ServiceFares, ServiceRuns, Served
<1>6. Changelog'
  BY SameChangelog DEF MonitorInv
<1>7. QED BY <1>3, <1>4, <1>5, <1>6 DEF MonitorInv

LEMMA GoesTo ==
  ASSUME MonitorInv, NEW h \in Host, NEW t, Goes(h, t)
  PROVE  /\ UNCHANGED <<world, cmd, prev, first, events, told, deaf, side, go, calm, changed>>
         /\ try' = [try EXCEPT ![h] = try'[h]] /\ try'[h] = t
BY DEF MonitorInv, MonitorTyped, Goes

\* An attempt that ends without a result.
LEMMA Gave ==
  ASSUME MonitorInv, NEW h \in Host, NEW why, Goes(h, Down(why))
  PROVE  MonitorInv'
<1>1. /\ UNCHANGED <<world, cmd, prev, first, events, told, deaf, side, go, calm, changed>>
      /\ try' = [try EXCEPT ![h] = try'[h]] /\ try'[h] = Down(why)
  BY GoesTo
<1>2. Shaped(Down(why)) /\ RowOK(Down(why)) /\ Looks(h, Down(why)) /\ Down(why).at = "done"
  BY DownOK
<1>3. Shaped(try[h])' /\ RowOK(try[h])' /\ Looks(h, try[h])' /\ try'[h].at = "done"
  BY <1>1, <1>2 DEF Shaped, RowOK, Looks, AreBoxes, Present, Ill, ServiceFares, ServiceRuns
<1>4. QED BY <1>1, <1>3, OneAttempt

LEMMA LeftOf ==
  ASSUME NEW at, NEW vitals, NEW left, NEW one, NEW read, NEW row, NEW new
  PROVE  [[at |-> at, vitals |-> vitals, left |-> left, one |-> one, read |-> read, row |-> row] EXCEPT !.left = new]
           = [at |-> at, vitals |-> vitals, left |-> new, one |-> one, read |-> read, row |-> row]
OBVIOUS

\* An attempt of given parts, and what a step makes of it.
Attempt(at, vitals, left, one, read, row) ==
  [at : {at}, vitals : {vitals}, left : {left}, one : {one}, read : {read}, row : {row}]

LEMMA IsAttempt ==
  ASSUME NEW at, NEW vitals, NEW left, NEW one, NEW read, NEW row, NEW t \in Attempt(at, vitals, left, one, read, row)
  PROVE  t = [at |-> at, vitals |-> vitals, left |-> left, one |-> one, read |-> read, row |-> row]
BY DEF Attempt

LEMMA AfterVitals ==
  ASSUME NEW t, Shaped(t), NEW at, NEW vitals
  PROVE  [t EXCEPT !.vitals = vitals, !.at = at]
           = [at |-> at, vitals |-> vitals, left |-> t.left, one |-> t.one, read |-> t.read, row |-> t.row]
<1>1. PICK d, l, o, r, w : d = t.vitals /\ l = t.left /\ o = t.one /\ r = t.read /\ w = t.row
  OBVIOUS
<1>2. t \in Attempt(t.at, d, l, o, r, w)
  BY <1>1 DEF Shaped, Attempt
<1>3. [t EXCEPT !.vitals = vitals, !.at = at] \in Attempt(at, vitals, l, o, r, w)
  BY <1>2 DEF Attempt
<1>4. QED BY <1>1, <1>3, IsAttempt, Zenon

LEMMA AfterList ==
  ASSUME NEW t, Shaped(t), NEW at, NEW left
  PROVE  [t EXCEPT !.at = at, !.left = left]
           = [at |-> at, vitals |-> t.vitals, left |-> left, one |-> t.one, read |-> t.read, row |-> t.row]
<1>1. PICK d, l, o, r, w : d = t.vitals /\ l = t.left /\ o = t.one /\ r = t.read /\ w = t.row
  OBVIOUS
<1>2. t \in Attempt(t.at, d, l, o, r, w)
  BY <1>1 DEF Shaped, Attempt
<1>3. [t EXCEPT !.at = at, !.left = left] \in Attempt(at, d, left, o, r, w)
  BY <1>2 DEF Attempt
<1>4. QED BY <1>1, <1>3, IsAttempt, Zenon

LEMMA AfterInspect ==
  ASSUME NEW t, Shaped(t), NEW at, NEW left, NEW one
  PROVE  [t EXCEPT !.at = at, !.left = left, !.one = one]
           = [at |-> at, vitals |-> t.vitals, left |-> left, one |-> one, read |-> t.read, row |-> t.row]
<1>1. PICK d, l, o, r, w : d = t.vitals /\ l = t.left /\ o = t.one /\ r = t.read /\ w = t.row
  OBVIOUS
<1>2. t \in Attempt(t.at, d, l, o, r, w)
  BY <1>1 DEF Shaped, Attempt
<1>3. [t EXCEPT !.at = at, !.left = left, !.one = one] \in Attempt(at, d, left, one, r, w)
  BY <1>2 DEF Attempt
<1>4. QED BY <1>1, <1>3, IsAttempt, Zenon

\* A call that does not give what it should finds the host down.
LEMMA CallFails ==
  ASSUME MonitorInv, NEW h \in Host, NEW at, NEW t, Calls(h, at, t), ~(world[h].reach /\ Goes(h, t))
  PROVE  MonitorInv'
<1>1. Goes(h, Down("unreachable"))
  BY DEF Calls, MonitorInv, MonitorTyped, HostState
<1>2. QED BY <1>1, Gave

\* An attempt that goes on, or ends with a result.
LEMMA Proceeds ==
  ASSUME MonitorInv, NEW h \in Host, NEW t, Goes(h, t), Shaped(t), RowOK(t),
         cmd.kind = "canary" => t.at \notin {"vitals", "list"}, h \in calm => Looks(h, t)
  PROVE  MonitorInv'
<1>1. /\ UNCHANGED <<world, cmd, prev, first, events, told, deaf, side, go, calm, changed>>
      /\ try' = [try EXCEPT ![h] = try'[h]] /\ try'[h] = t
  BY GoesTo
<1>2. /\ Shaped(try[h])' /\ RowOK(try[h])' /\ (cmd.kind = "canary" => try'[h].at \notin {"vitals", "list"})
  BY <1>1 DEF Shaped, RowOK, AreBoxes
<1>3. h \in calm => Looks(h, try[h])'
  BY <1>1 DEF Looks, Present, Ill, ServiceFares, ServiceRuns
<1>4. QED BY <1>1, <1>2, <1>3, OneAttempt

LEMMA Calm ==
  ASSUME MonitorInv, NEW h \in Host
  PROVE  /\ Shaped(try[h]) /\ RowOK(try[h]) /\ (cmd.kind = "canary" => try[h].at \notin {"vitals", "list"})
         /\ h \in calm => Looks(h, try[h])
BY DEF MonitorInv, MonitorTyped, Attempts

LEMMA ReadVitalsMonitor ==
  ASSUME MonitorInv, NEW h \in Host, ReadVitals(h)
  PROVE  MonitorInv'
<1> DEFINE t == [try[h] EXCEPT !.vitals = world[h].vitals, !.at = "list"]
<1>1. Calls(h, "vitals", t)
  BY DEF ReadVitals
<1>2. Shaped(try[h]) /\ try[h].at = "vitals" /\ cmd.kind # "canary" /\ (h \in calm => Looks(h, try[h]))
  BY <1>1, Calm DEF Calls
<1>3. t = [at |-> "list", vitals |-> world[h].vitals, left |-> try[h].left, one |-> try[h].one, read |-> try[h].read, row |-> try[h].row]
  <2>1. PICK v : v = world[h].vitals
    OBVIOUS
  <2>2. t = [try[h] EXCEPT !.vitals = v, !.at = "list"]
    BY <2>1
  <2>3. [try[h] EXCEPT !.vitals = v, !.at = "list"]
          = [at |-> "list", vitals |-> v, left |-> try[h].left, one |-> try[h].one, read |-> try[h].read, row |-> try[h].row]
    BY <1>2, AfterVitals, Zenon
  <2> HIDE DEF t
  <2>4. QED BY <2>1, <2>2, <2>3, Zenon
<1> HIDE DEF t
<1>4. CASE Goes(h, t)
  <2>1. Shaped(t) /\ RowOK(t) /\ t.at = "list"
    BY <1>3 DEF Shaped, RowOK
  <2>2. h \in calm => Looks(h, t)
    BY <1>2, <1>3 DEF Looks
  <2>3. QED BY <1>2, <1>4, <2>1, <2>2, Proceeds
<1>5. QED BY <1>1, <1>4, CallFails

LEMMA ListMonitor ==
  ASSUME MonitorInv, NEW h \in Host, List(h)
  PROVE  MonitorInv'
<1> DEFINE t == [try[h] EXCEPT !.at = "inspect", !.left = {c \in Container : world[h].box[c] # Gone}]
<1>1. PICK p : p = Present(h)
  OBVIOUS
<1>2. Calls(h, "list", t)
  BY DEF List
<1>3. Shaped(try[h]) /\ try[h].at = "list" /\ cmd.kind # "canary" /\ (h \in calm => Looks(h, try[h]))
  BY <1>2, Calm DEF Calls
<1>4. t = [at |-> "inspect", vitals |-> try[h].vitals, left |-> p, one |-> try[h].one, read |-> try[h].read, row |-> try[h].row]
  <2>1. t = [try[h] EXCEPT !.at = "inspect", !.left = p]
    BY <1>1 DEF Present
  <2>2. [try[h] EXCEPT !.at = "inspect", !.left = p]
          = [at |-> "inspect", vitals |-> try[h].vitals, left |-> p, one |-> try[h].one, read |-> try[h].read, row |-> try[h].row]
    BY <1>3, AfterList, Zenon
  <2> HIDE DEF t
  <2>3. QED BY <2>1, <2>2, Zenon
<1> HIDE DEF t
<1>5. CASE Goes(h, t)
  <2>1. Shaped(t) /\ RowOK(t) /\ t.at = "inspect"
    BY <1>4 DEF Shaped, RowOK
  <2>2. h \in calm => Looks(h, t)
    BY <1>1, <1>3, <1>4 DEF Looks
  <2>3. QED BY <1>3, <1>5, <2>1, <2>2, Proceeds
<1>6. QED BY <1>2, <1>5, CallFails

LEMMA InspectMonitor ==
  ASSUME MonitorInv, NEW h \in Host, Inspect(h)
  PROVE  MonitorInv'
<1>1. PICK c \in try[h].left :
        Calls(h, "inspect", IF world[h].box[c] = Gone THEN Down("no such container")
                            ELSE [try[h] EXCEPT !.at = "log", !.left = @ \ {c}, !.one = <<c, world[h].box[c]>>])
  BY DEF Inspect
<1>2. PICK m : m = [try[h] EXCEPT !.at = "log", !.left = @ \ {c}, !.one = <<c, world[h].box[c]>>]
  OBVIOUS
<1>3. Calls(h, "inspect", IF world[h].box[c] = Gone THEN Down("no such container") ELSE m)
  BY <1>1, <1>2
<1>4. Shaped(try[h]) /\ try[h].at = "inspect" /\ (h \in calm => Looks(h, try[h]))
  BY <1>3, Calm DEF Calls
<1>5. m = [at |-> "log", vitals |-> try[h].vitals, left |-> try[h].left \ {c}, one |-> <<c, world[h].box[c]>>,
           read |-> try[h].read, row |-> try[h].row]
  <2>1. PICK l, o : l = try[h].left \ {c} /\ o = <<c, world[h].box[c]>>
    OBVIOUS
  <2>2. m = [try[h] EXCEPT !.at = "log", !.left = l, !.one = o]
    BY <1>2, <2>1
  <2>3. [try[h] EXCEPT !.at = "log", !.left = l, !.one = o]
          = [at |-> "log", vitals |-> try[h].vitals, left |-> l, one |-> o, read |-> try[h].read, row |-> try[h].row]
    BY <1>4, AfterInspect, Zenon
  <2>4. QED BY <2>1, <2>2, <2>3
<1>6. CASE world[h].box[c] = Gone
  BY <1>3, <1>6, CallFails, Gave
<1>7. CASE world[h].box[c] # Gone /\ Goes(h, m)
  <2>1. Shaped(m) /\ RowOK(m) /\ m.at = "log"
    BY <1>5 DEF Shaped, RowOK
  <2>2. h \in calm => Looks(h, m)
    BY <1>4, <1>5, <1>7, MonitorAssumption DEF Looks, Present
  <2>3. QED BY <1>7, <2>1, <2>2, Proceeds
<1>8. QED BY <1>3, <1>6, <1>7, CallFails

LEMMA SameFacts ==
  ASSUME NEW f \in Facts
  PROVE  [f EXCEPT !.logs = f.logs] = f
BY DEF Facts

\* The daemon shows facts of what is present.
LEMMA PresentFacts ==
  ASSUME MonitorInv, NEW h \in Host, NEW c \in Present(h)
  PROVE  c \in Container /\ world[h].box[c] \in Facts
<1>1. world[h] \in HostState
  BY DEF MonitorInv, MonitorTyped
<1>2. QED BY <1>1 DEF HostState, Present

LEMMA ReadLogMonitor ==
  ASSUME MonitorInv, NEW h \in Host, ReadLog(h)
  PROVE  MonitorInv'
<1>1. PICK c, f, r : /\ c = try[h].one[1] /\ f = [try[h].one[2] EXCEPT !.logs = world[h].box[c].logs]
                     /\ r = [x \in DOMAIN try[h].read \cup {c} |-> IF x = c THEN f ELSE try[h].read[x]]
  OBVIOUS
<1>2. PICK m : m = [try[h] EXCEPT !.at = "inspect", !.one = << >>, !.read = r]
  OBVIOUS
<1>3. Calls(h, "log", IF world[h].box[c] = Gone THEN Down("no such container") ELSE m)
  <2>1. Calls(h, "log", IF world[h].box[c] = Gone THEN Down("no such container")
                        ELSE [try[h] EXCEPT !.at = "inspect", !.one = << >>,
                                            !.read = [x \in DOMAIN @ \cup {c} |-> IF x = c THEN f ELSE @[x]]])
    BY <1>1, Zenon DEF ReadLog
  <2>2. [try[h] EXCEPT !.at = "inspect", !.one = << >>, !.read = [x \in DOMAIN @ \cup {c} |-> IF x = c THEN f ELSE @[x]]] = m
    BY <1>1, <1>2
  <2>3. QED BY <2>1, <2>2, Zenon
<1>4. Shaped(try[h]) /\ try[h].at = "log" /\ (h \in calm => Looks(h, try[h]))
  BY <1>3, Calm DEF Calls
<1>5. m = [at |-> "inspect", vitals |-> try[h].vitals, left |-> try[h].left, one |-> << >>, read |-> r, row |-> try[h].row]
  <2>1. PICK none : none = << >>
    OBVIOUS
  <2>2. m = [try[h] EXCEPT !.at = "inspect", !.one = none, !.read = r]
    BY <1>2, <2>1
  <2>3. m = [at |-> "inspect", vitals |-> try[h].vitals, left |-> try[h].left, one |-> none, read |-> r, row |-> try[h].row]
    <3>1. PICK d, l, o, q, w : d = try[h].vitals /\ l = try[h].left /\ o = try[h].one /\ q = try[h].read /\ w = try[h].row
      OBVIOUS
    <3>2. try[h] \in Attempt("log", d, l, o, q, w)
      BY <1>4, <3>1 DEF Shaped, Attempt
    <3>3. m \in Attempt("inspect", d, l, none, r, w)
      BY <2>2, <3>2 DEF Attempt
    <3>4. QED BY <3>1, <3>3, IsAttempt, Zenon
  <2>4. QED BY <2>1, <2>3
<1>6. CASE world[h].box[c] = Gone
  BY <1>3, <1>6, CallFails, Gave
<1>7. CASE world[h].box[c] # Gone /\ Goes(h, m)
  <2>1. Shaped(m) /\ RowOK(m) /\ m.at = "inspect"
    BY <1>5 DEF Shaped, RowOK
  <2>2. ASSUME h \in calm PROVE Looks(h, m)
    <3>1. Looks(h, try[h]) /\ c \in Present(h) /\ try[h].one[2] = world[h].box[c]
      BY <1>1, <1>4, <2>2 DEF Looks
    <3>2. f = world[h].box[c]
      BY <1>1, <3>1, PresentFacts, SameFacts
    <3>3. try[h].read = [x \in DOMAIN try[h].read |-> world[h].box[x]]
      BY <1>4, <3>1 DEF Looks
    <3>4. DOMAIN r = DOMAIN try[h].read \cup {c}
      BY <1>1
    <3>5. \A x \in DOMAIN r : r[x] = world[h].box[x]
      BY <1>1, <3>2, <3>3, <3>4
    <3>6. r = [x \in DOMAIN r |-> world[h].box[x]]
      BY <1>1, <3>4, <3>5
    <3>7. QED BY <1>1, <1>4, <1>5, <3>1, <3>4, <3>6 DEF Looks
  <2>3. QED BY <1>7, <2>1, <2>2, Proceeds
<1>8. QED BY <1>3, <1>6, <1>7, CallFails

\* What the row of a host tells.
LEMMA RowIs ==
  ASSUME NEW vitals, NEW read, NEW r, r = Assess(vitals, Problems(read))
  PROVE  /\ IsRow(r) /\ r.verdict # "down"
         /\ (\A c \in DOMAIN read : read[c] \in Facts) =>
              (r.verdict = "failing" <=> Spent(vitals) \/ \E c \in DOMAIN read : Wrong(read[c]))
<1> DEFINE problems == Problems(read)
           of(verdicts) == {<<p.container, p.verdict, p.why>> : p \in {x \in problems : x.verdict \in verdicts}}
           bad == of({"failing"}) \cup If(Over(vitals.disk, 90), <<"disk", vitals.disk>>)
                    \cup If(Under(vitals.mem, 5), <<"mem", vitals.mem>>)
           poor == of({"degraded"}) \cup If(Over(vitals.disk, 80) /\ ~Over(vitals.disk, 90), <<"disk", vitals.disk>>)
                    \cup If(Under(vitals.mem, 10) /\ ~Under(vitals.mem, 5), <<"mem", vitals.mem>>)
                    \cup If(Over(vitals.load, 2), <<"load", vitals.load>>)
<1>1. r = [verdict |-> IF bad # {} THEN "failing" ELSE IF poor # {} THEN "degraded" ELSE "healthy", reasons |-> bad \cup poor]
  BY Zenon DEF Assess
<1>2. of({"failing"}) # {} <=> \E p \in problems : p.verdict = "failing"
  <2> HIDE DEF problems
  <2>1. QED OBVIOUS
<1>3. (\E p \in problems : p.verdict = "failing") <=> \E c \in DOMAIN read : Diagnose(read[c]).verdict = "failing"
  <2> DEFINE tells(c) ==
        [container |-> c, verdict |-> Diagnose(read[c]).verdict,
         why |-> IF Diagnose(read[c]).cause # "" THEN Diagnose(read[c]).cause ELSE Foremost(Diagnose(read[c]).findings).code]
  <2>1. problems = {tells(c) : c \in {x \in DOMAIN read : Diagnose(read[x]).verdict # "healthy"}}
    BY Zenon DEF Problems
  <2>2. \A c : tells(c).verdict = Diagnose(read[c]).verdict
    OBVIOUS
  <2> HIDE DEF tells, problems
  <2>3. QED BY <2>1, <2>2
<1> HIDE DEF problems, of
<1>4. bad # {} <=> (of({"failing"}) # {} \/ Spent(vitals))
  BY DEF Over, Under, If, Spent
<1> HIDE DEF bad, poor
<1>5. IsRow(r) /\ r.verdict # "down" /\ (r.verdict = "failing" <=> bad # {})
  BY <1>1 DEF IsRow, Verdicts
<1>6. ASSUME \A c \in DOMAIN read : read[c] \in Facts
      PROVE  (\E c \in DOMAIN read : Diagnose(read[c]).verdict = "failing") <=> \E c \in DOMAIN read : Wrong(read[c])
  BY <1>6, VerdictIsFailing
<1>7. QED BY <1>2, <1>3, <1>4, <1>5, <1>6

LEMMA DoneIs ==
  ASSUME NEW row, NEW t, t = [Waiting("done") EXCEPT !.row = row]
  PROVE  /\ t = [at |-> "done", vitals |-> Unprobed, left |-> {}, one |-> << >>, read |-> << >>, row |-> row]
         /\ Shaped(t)
<1>1. t = [at |-> "done", vitals |-> Unprobed, left |-> {}, one |-> << >>, read |-> << >>, row |-> row]
  BY WaitingIs, RowOf, Zenon
<1>2. QED BY <1>1 DEF Shaped

\* What an attempt has read when nothing is left.
LEMMA AllRead ==
  ASSUME MonitorInv, NEW h \in Host, h \in calm, try[h].at = "inspect", try[h].left = {}
  PROVE  /\ DOMAIN try[h].read = (IF cmd.kind = "canary" THEN {Service} ELSE Present(h))
         /\ \A c \in DOMAIN try[h].read : /\ c \in Container /\ try[h].read[c] = world[h].box[c]
                                         /\ try[h].read[c] \in Facts /\ world[h].box[c] # Gone
<1>1. Looks(h, try[h])
  BY Calm
<1>2. /\ DOMAIN try[h].read = (IF cmd.kind = "canary" THEN {Service} ELSE Present(h))
      /\ DOMAIN try[h].read \subseteq Present(h)
  BY <1>1 DEF Looks
<1>3. \A c \in DOMAIN try[h].read : try[h].read[c] = world[h].box[c]
  BY <1>1 DEF Looks
<1>4. QED BY <1>2, <1>3, PresentFacts DEF Present

LEMMA ReportMonitor ==
  ASSUME MonitorInv, NEW h \in Host, Report(h)
  PROVE  MonitorInv'
<1>1. PICK r, t : r = Row(try[h]) /\ t = [Waiting("done") EXCEPT !.row = r]
  OBVIOUS
<1>2. try[h].at = "inspect" /\ try[h].left = {} /\ cmd.kind = "watch" /\ Goes(h, t)
  BY <1>1 DEF Report
<1>3. t = [at |-> "done", vitals |-> Unprobed, left |-> {}, one |-> << >>, read |-> << >>, row |-> r] /\ Shaped(t)
  BY <1>1, DoneIs
<1>4. r = Assess(try[h].vitals, Problems(try[h].read))
  BY <1>1 DEF Row
<1>5. IsRow(r) /\ r.verdict # "down"
  BY <1>4, RowIs
<1>6. RowOK(t)
  BY <1>2, <1>3, <1>5 DEF RowOK
<1>7. ASSUME h \in calm PROVE Looks(h, t)
  <2>1. try[h].vitals = world[h].vitals
    BY <1>2, <1>7, Calm DEF Looks
  <2>2. r.verdict = "failing" <=> Spent(world[h].vitals) \/ \E c \in DOMAIN try[h].read : Wrong(try[h].read[c])
    BY <1>2, <1>4, <1>7, <2>1, AllRead, RowIs
  <2>3. (\E c \in DOMAIN try[h].read : Wrong(try[h].read[c])) <=> \E c \in Container : Ill(h, c)
    BY <1>2, <1>7, AllRead DEF Ill, Present
  <2>4. QED BY <1>2, <1>3, <2>2, <2>3 DEF Looks
<1>8. QED BY <1>2, <1>3, <1>6, <1>7, Proceeds

LEMMA CompareMonitor ==
  ASSUME MonitorInv, NEW h \in Host, Compare(h)
  PROVE  MonitorInv'
<1>1. PICK f, its : f = try[h].read[Service] /\ its = world[h].box[Service]
  OBVIOUS
<1>2. PICK verdict, restarts, errors : /\ verdict = Diagnose(f).verdict /\ restarts = f.restarts
                                       /\ errors = Cardinality({i \in DOMAIN f.logs : f.logs[i].error})
  OBVIOUS
<1>3. /\ try[h].at = "inspect" /\ try[h].left = {} /\ cmd.kind = "canary"
      /\ \E served \in BOOLEAN :
           /\ served => cmd.http /\ its # Gone /\ its.status = "running"
           /\ Goes(h, IF ~world[h].reach THEN Down("unreachable")
                      ELSE [Waiting("done") EXCEPT !.row = [verdict |-> verdict, restarts |-> restarts,
                                                           errors |-> errors, served |-> served]])
  BY <1>1, <1>2, Zenon DEF Compare
<1>4. PICK served \in BOOLEAN :
        /\ served => its.status = "running"
        /\ Goes(h, IF ~world[h].reach THEN Down("unreachable")
                   ELSE [Waiting("done") EXCEPT !.row = [verdict |-> verdict, restarts |-> restarts,
                                                        errors |-> errors, served |-> served]])
  BY <1>3, Zenon
<1>5. PICK row, t : /\ row = [verdict |-> verdict, restarts |-> restarts, errors |-> errors, served |-> served]
                    /\ t = [Waiting("done") EXCEPT !.row = row]
  OBVIOUS
<1>6. Goes(h, IF ~world[h].reach THEN Down("unreachable") ELSE t)
  BY <1>4, <1>5, Zenon
<1>7. CASE ~world[h].reach
  BY <1>6, <1>7, Gave
<1>8. CASE world[h].reach
  <2>1. t = [at |-> "done", vitals |-> Unprobed, left |-> {}, one |-> << >>, read |-> << >>, row |-> row] /\ Shaped(t)
    BY <1>5, DoneIs
  <2>2. RowOK(t) /\ t.at = "done" /\ t.row = row /\ row.verdict = verdict /\ (row.served <=> served)
    BY <1>3, <1>5, <2>1 DEF RowOK
  <2>3. ASSUME h \in calm PROVE Looks(h, t)
    <3>1. f = world[h].box[Service] /\ f \in Facts /\ world[h].box[Service] # Gone
      BY <1>1, <1>3, <2>3, AllRead
    <3>2. verdict = "failing" <=> Wrong(f)
      BY <1>2, <3>1, VerdictIsFailing
    <3>3. ServiceFares(h, t.row.verdict) /\ (t.row.served => ServiceRuns(h))
      BY <1>1, <1>4, <1>8, <2>2, <3>1, <3>2 DEF ServiceFares, ServiceRuns
    <3>4. QED BY <1>3, <2>2, <3>3 DEF Looks
  <2>4. Goes(h, t)
    BY <1>6, <1>8
  <2>5. QED BY <1>3, <2>1, <2>2, <2>3, <2>4, Proceeds
<1>9. QED BY <1>7, <1>8

LEMMA ListStatesMonitor ==
  ASSUME MonitorInv, NEW h \in Host, ListStates(h)
  PROVE  MonitorInv'
<1> DEFINE f == try[h].read
           found(c) == {x.code : x \in {y \in Diagnose(f[c]).findings : y.severity # "info"}}
           state(c) == IF world[h].box[c] = Gone THEN "" ELSE world[h].box[c].status
           boxOf(c) == IF c \in DOMAIN f THEN [verdict |-> Diagnose(f[c]).verdict, found |-> found(c), state |-> state(c)]
                      ELSE Unlisted
<1>1. PICK boxes : boxes = [c \in Container |-> boxOf(c)]
  OBVIOUS
<1>2. PICK row : row = [verdict |-> "up", boxes |-> boxes]
  OBVIOUS
<1>3. PICK t : t = [Waiting("done") EXCEPT !.row = row]
  OBVIOUS
<1>4. cmd.kind = "system" /\ try[h].left = {} /\ Calls(h, "inspect", t)
  <2>1. PICK u : u = [Waiting("done") EXCEPT !.row = [verdict |-> "up", boxes |-> [c \in Container |-> boxOf(c)]]]
    OBVIOUS
  <2>2. cmd.kind = "system" /\ try[h].left = {} /\ Calls(h, "inspect", u)
    BY <2>1, Zenon DEF ListStates
  <2> HIDE DEF boxOf
  <2>3. u = t
    BY <1>1, <1>2, <1>3, <2>1, Zenon
  <2>4. QED BY <2>2, <2>3, Zenon
<1>5. t = [at |-> "done", vitals |-> Unprobed, left |-> {}, one |-> << >>, read |-> << >>, row |-> row] /\ Shaped(t)
  BY <1>3, DoneIs
<1>6. \A c \in Container : boxes[c] = boxOf(c)
  BY <1>1
<1>7. Unlisted.verdict = "none"
  BY DEF Unlisted
<1>8. \A c : c \in DOMAIN f => boxOf(c).verdict = Diagnose(f[c]).verdict
  <2> HIDE DEF f, found, state
  <2>1. QED OBVIOUS
<1>9. RowOK(t)
  <2>1. \A c \in Container : IsBox(boxOf(c))
    BY DEF IsBox, Unlisted
  <2> HIDE DEF boxOf
  <2>2. AreBoxes(row)
    BY <1>1, <1>2, <1>6, <2>1 DEF AreBoxes
  <2>3. QED BY <1>4, <1>5, <2>2 DEF RowOK
<1>10. ASSUME h \in calm PROVE Looks(h, t)
  <2>1. try[h].at = "inspect"
    BY <1>4 DEF Calls
  <2>2. DOMAIN f = Present(h)
    BY <1>4, <1>10, <2>1, AllRead
  <2>3. ASSUME NEW c \in Container PROVE boxes[c].verdict = "failing" <=> Ill(h, c)
    <3>1. CASE c \in DOMAIN f
      <4>1. f[c] = world[h].box[c] /\ f[c] \in Facts /\ world[h].box[c] # Gone
        BY <1>4, <1>10, <2>1, <3>1, AllRead
      <4>2. boxes[c].verdict = Diagnose(f[c]).verdict
        <5> HIDE DEF boxOf, f
        <5>1. QED BY <1>6, <1>8, <3>1
      <4>3. QED BY <4>1, <4>2, VerdictIsFailing DEF Ill
    <3>2. CASE c \notin DOMAIN f
      <4>1. world[h].box[c] = Gone
        BY <2>2, <3>2 DEF Present
      <4>2. boxes[c] = Unlisted
        BY <1>6, <3>2
      <4> HIDE DEF boxOf, f
      <4>3. QED BY <1>7, <4>1, <4>2 DEF Ill
    <3>3. QED BY <3>1, <3>2
  <2> HIDE DEF boxOf, f
  <2>4. QED BY <1>2, <1>4, <1>5, <2>3 DEF Looks
<1>11. CASE Goes(h, t)
  BY <1>4, <1>5, <1>9, <1>10, <1>11, Proceeds
<1>12. QED BY <1>4, <1>11, CallFails

LEMMA GiveUpMonitor ==
  ASSUME MonitorInv, NEW h \in Host, GiveUp(h)
  PROVE  MonitorInv'
BY Gave DEF GiveUp

\* Change of a host by others: what is known of it is no longer relied on.
LEMMA ChangeMonitor ==
  ASSUME MonitorInv, NEW h \in Host, NEW w \in HostState, Change(h, w)
  PROVE  MonitorInv'
<1>1. /\ world' = [world EXCEPT ![h] = w] /\ calm' = calm \ {h} /\ cmd.at # "over"
      /\ UNCHANGED <<try, cmd, prev, first, events, told, deaf, side, go>>
  BY DEF Change
<1>2. world' \in [Host -> HostState] /\ \A x \in Host : x # h => world'[x] = world[x]
  BY <1>1 DEF MonitorInv, MonitorTyped
<1>3. MonitorTyped'
  BY <1>1, <1>2 DEF MonitorInv, MonitorTyped, Shaped, RowOK, AreBoxes
<1>4. Attempts'
  <2>1. ASSUME NEW x \in calm' PROVE Looks(x, try[x])'
    <3>1. x \in calm /\ x \in Host /\ x # h /\ world'[x] = world[x] /\ Looks(x, try[x])
      BY <1>1, <1>2 DEF MonitorInv, MonitorTyped, Attempts
    <3>2. QED BY <1>1, <3>1 DEF Looks, Present, Ill, ServiceFares, ServiceRuns
  <2>2. QED BY <2>1 DEF Attempts
<1>5. Comparison'
  <2>1. \A x \in Canary \cap calm' : x \in Canary \cap calm /\ world'[x] = world[x]
    BY <1>1, <1>2 DEF MonitorInv, MonitorTyped
  <2>2. QED BY <1>1, <2>1 DEF MonitorInv, Comparison, ServiceFares, ServiceRuns
<1>6. Changelog'
  <2>1. Changelog /\ UNCHANGED <<cmd, prev, first, events, told, deaf>>
    BY <1>1 DEF MonitorInv
  <2>2. QED BY <2>1, SameChangelog
<1>7. QED BY <1>3, <1>4, <1>5, <1>6 DEF MonitorInv

LEMMA ChangesMonitor ==
  ASSUME MonitorInv, NEW h \in Host, Changes(h)
  PROVE  MonitorInv'
<1>1. world[h] \in HostState
  BY DEF MonitorInv, MonitorTyped
<1>2. CASE \E up \in BOOLEAN : Change(h, [world[h] EXCEPT !.reach = up])
  <2>1. \A up \in BOOLEAN : [world[h] EXCEPT !.reach = up] \in HostState
    BY <1>1 DEF HostState
  <2>2. QED BY <1>2, <2>1, ChangeMonitor
<1>3. CASE \E v \in Vitals : Change(h, [world[h] EXCEPT !.vitals = v])
  <2>1. \A v \in Vitals : [world[h] EXCEPT !.vitals = v] \in HostState
    BY <1>1, MonitorAssumption DEF HostState
  <2>2. QED BY <1>3, <2>1, ChangeMonitor
<1>4. CASE \E c \in Container, f \in Condition \cup {Gone} : Change(h, [world[h] EXCEPT !.box[c] = f])
  <2>1. \A c \in Container, f \in Condition \cup {Gone} : [world[h] EXCEPT !.box[c] = f] \in HostState
    <3>1. Condition \cup {Gone} \subseteq Facts \cup {Gone}
      BY MonitorAssumption
    <3> HIDE DEF Facts, Gone
    <3>2. QED BY <1>1, <3>1 DEF HostState
  <2>2. QED BY <1>4, <2>1, ChangeMonitor
<1>5. QED BY <1>2, <1>3, <1>4 DEF Changes

\* The attempts of a round that begins.
LEMMA StartMonitor ==
  ASSUME MonitorInv, Start, world' = world, cmd'.kind = cmd.kind,
         cmd' \in [kind : {"watch", "system", "canary"}, at : {"begin", "poll", "canary", "baseline", "over"}, polls : Nat, http : BOOLEAN],
         cmd'.at \in {"canary", "baseline"} => cmd.kind = "canary", cmd'.at = "poll" => cmd.kind # "canary"
  PROVE  MonitorTyped' /\ Attempts'
<1>1. PICK begins : begins = [Waiting("inspect") EXCEPT !.left = {Service}]
  OBVIOUS
<1>2. begins = [at |-> "inspect", vitals |-> Unprobed, left |-> {Service}, one |-> << >>, read |-> << >>, row |-> NoRow]
  BY <1>1, WaitingIs, LeftOf, Zenon
<1>3. Asked' \subseteq Host
  BY MonitorAssumption DEF Asked
<1>4. /\ try' = [h \in Host |-> IF h \notin Asked' THEN Waiting("idle")
                             ELSE IF cmd.kind = "watch" THEN Waiting("vitals")
                             ELSE IF cmd.kind = "system" THEN Waiting("list") ELSE begins]
      /\ calm' = calm \cup Asked'
  BY <1>1, Zenon DEF Start
<1>5. ASSUME NEW h \in Host
      PROVE  /\ Shaped(try[h])' /\ RowOK(try[h])' /\ (cmd.kind = "canary" => try'[h].at \notin {"vitals", "list"})
             /\ Looks(h, try[h])' /\ try'[h].at # "done"
  <2>1. CASE try'[h] \in {Waiting("idle"), Waiting("vitals")}
    <3>1. CASE try'[h] = Waiting("idle")
      BY <3>1, WaitingIs DEF Shaped, RowOK, Looks
    <3>2. CASE try'[h] = Waiting("vitals")
      <4>1. Waiting("idle") # Waiting("vitals")
        BY WaitingIs
      <4>2. cmd.kind # "canary"
        BY <1>2, <1>4, <3>2, <4>1, WaitingIs
      <4>3. QED BY <3>2, <4>2, WaitingIs DEF Shaped, RowOK, Looks
    <3>3. QED BY <2>1, <3>1, <3>2
  <2>2. CASE try'[h] = Waiting("list") /\ cmd.kind = "system"
    BY <2>2, WaitingIs DEF Shaped, RowOK, Looks
  <2>3. CASE try'[h] = begins /\ cmd.kind = "canary"
    BY <1>2, <2>3 DEF Shaped, RowOK, Looks
  <2>4. cmd.kind \in {"watch", "system", "canary"}
    BY DEF MonitorInv, MonitorTyped
  <2>5. QED BY <1>4, <2>1, <2>2, <2>3, <2>4
<1>6. MonitorTyped'
  <2>1. world \in [Host -> HostState] /\ calm' \subseteq Host /\ try' = [h \in Host |-> try'[h]]
    BY <1>3, <1>4 DEF MonitorInv, MonitorTyped
  <2>2. QED BY <1>5, <2>1 DEF MonitorTyped
<1>7. Attempts'
  BY <1>5, <1>6 DEF Attempts, MonitorTyped
<1>8. QED BY <1>6, <1>7

LEMMA BeginMonitor ==
  ASSUME MonitorInv, Begin
  PROVE  MonitorInv'
<1>1. /\ cmd' = [cmd EXCEPT !.at = IF cmd.kind = "canary" THEN "canary" ELSE "poll", !.polls = @ + 1]
      /\ cmd.at = "begin" /\ Start /\ UNCHANGED <<world, prev, first, events, told, deaf, side, go, changed>>
  BY DEF Begin
<1>2. cmd \in [kind : {"watch", "system", "canary"}, at : {"begin", "poll", "canary", "baseline", "over"}, polls : Nat, http : BOOLEAN]
  BY DEF MonitorInv, MonitorTyped
<1>3. /\ cmd' \in [kind : {"watch", "system", "canary"}, at : {"begin", "poll", "canary", "baseline", "over"}, polls : Nat, http : BOOLEAN]
      /\ cmd'.kind = cmd.kind /\ cmd'.at = IF cmd.kind = "canary" THEN "canary" ELSE "poll"
  <2>1. PICK k, a, p : k = cmd.kind /\ a = (IF k = "canary" THEN "canary" ELSE "poll") /\ p = cmd.polls + 1
    OBVIOUS
  <2>2. cmd \in [kind : {k}, at : {cmd.at}, polls : Nat, http : BOOLEAN] /\ cmd' = [cmd EXCEPT !.at = a, !.polls = p] /\ p \in Nat
    BY <1>1, <1>2, <2>1
  <2>3. cmd' \in [kind : {k}, at : {a}, polls : Nat, http : BOOLEAN]
    BY <2>2
  <2>4. k \in {"watch", "system", "canary"} /\ a \in {"poll", "canary"}
    BY <1>2, <2>1
  <2>5. QED BY <2>1, <2>3, <2>4
<1>4. MonitorTyped' /\ Attempts'
  BY <1>1, <1>3, StartMonitor
<1>5. Comparison'
  BY <1>1, <1>3 DEF MonitorInv, Comparison
<1>6. Changelog'
  <2>1. Changelog /\ UNCHANGED <<prev, first, events, told, deaf>> /\ cmd'.kind = cmd.kind
    BY <1>1, <1>3 DEF MonitorInv
  <2>2. QED BY <2>1, SameChangelog
<1>7. QED BY <1>4, <1>5, <1>6 DEF MonitorInv

\* What a finished attempt at a host found.
LEMMA Found ==
  ASSUME MonitorInv, All, NEW h \in Asked
  PROVE  /\ h \in Host /\ Snapshot[h] = try[h].row
         /\ cmd.kind = "watch" => IsRow(try[h].row)
         /\ cmd.kind = "system" /\ try[h].row.verdict # "down" => AreBoxes(try[h].row)
         /\ cmd.kind = "canary" /\ h \in calm /\ try[h].row.verdict # "down" =>
              ServiceFares(h, try[h].row.verdict) /\ (try[h].row.served => ServiceRuns(h))
<1>1. h \in Host /\ Snapshot[h] = try[h].row /\ try[h].at = "done"
  BY MonitorAssumption DEF Asked, Snapshot, All
<1>2. RowOK(try[h]) /\ (h \in calm => Looks(h, try[h]))
  BY <1>1, Calm
<1>3. QED BY <1>1, <1>2 DEF RowOK, Looks

LEMMA BaselineMonitor ==
  ASSUME MonitorInv, Baseline
  PROVE  MonitorInv'
<1>1. /\ cmd' = [cmd EXCEPT !.at = "baseline"] /\ side' = Snapshot /\ All
      /\ cmd.at = "canary" /\ Start /\ UNCHANGED <<world, prev, first, events, told, deaf, go, changed>>
  BY DEF Baseline
<1>2. cmd \in [kind : {"watch", "system", "canary"}, at : {"begin", "poll", "canary", "baseline", "over"}, polls : Nat, http : BOOLEAN]
      /\ cmd.kind = "canary"
  BY <1>1 DEF MonitorInv, MonitorTyped
<1>3. /\ cmd' \in [kind : {"watch", "system", "canary"}, at : {"begin", "poll", "canary", "baseline", "over"}, polls : Nat, http : BOOLEAN]
      /\ cmd'.kind = cmd.kind /\ cmd'.at = "baseline"
  BY <1>1, <1>2
<1>4. MonitorTyped' /\ Attempts'
  BY <1>1, <1>2, <1>3, StartMonitor
<1>5. Comparison'
  <2>1. ~go'
    BY <1>1 DEF MonitorInv, Comparison
  <2>2. Asked = Canary /\ Asked' = Host \ Canary
    BY <1>1, <1>2, <1>3 DEF Asked
  <2>3. Canary \cap calm' = Canary \cap calm
    BY <1>1, <2>2 DEF Start
  <2>4. ASSUME NEW h \in Canary \cap calm, Snapshot[h].verdict # "down"
        PROVE  ServiceFares(h, Snapshot[h].verdict) /\ (Snapshot[h].served => ServiceRuns(h))
    BY <1>1, <1>2, <2>2, <2>4, Found
  <2>5. \A h \in Canary \cap calm' :
          side'[h].verdict # "down" => ServiceFares(h, side[h].verdict)' /\ (side'[h].served => ServiceRuns(h)')
    BY <1>1, <2>3, <2>4 DEF ServiceFares, ServiceRuns
  <2>6. QED BY <2>1, <2>5 DEF Comparison
<1>6. Changelog'
  <2>1. Changelog /\ UNCHANGED <<prev, first, events, told, deaf>> /\ cmd'.kind = cmd.kind
    BY <1>1, <1>3 DEF MonitorInv
  <2>2. QED BY <2>1, SameChangelog
<1>7. QED BY <1>4, <1>5, <1>6 DEF MonitorInv

\* What a canary must have done for a go.
LEMMA GoMeans ==
  ASSUME NEW c, NEW b, ~NoGo(c, b), NEW h \in Canary
  PROVE  /\ c[h].verdict \notin {"down", "failing"}
         /\ cmd.http /\ (\A x \in Host \ Canary : b[x].verdict = "down" \/ b[x].served) => c[h].served
<1>1. Reached(c, Canary) = Canary /\ c[h].verdict # "failing"
      /\ (cmd.http => ~(Unserved(c, Canary) > Unserved(b, Host \ Canary)))
  BY DEF NoGo
<1>2. c[h].verdict # "down"
  BY <1>1 DEF Reached
<1>3. ASSUME cmd.http, \A x \in Host \ Canary : b[x].verdict = "down" \/ b[x].served, ~c[h].served
      PROVE  FALSE
  <2>1. PICK mine, theirs : /\ mine = {x \in Reached(c, Canary) : ~c[x].served}
                            /\ theirs = {x \in Reached(b, Host \ Canary) : ~b[x].served}
    OBVIOUS
  <2>2. Unserved(c, Canary) = Cardinality(mine) /\ Unserved(b, Host \ Canary) = Cardinality(theirs)
    BY <2>1, Zenon DEF Unserved
  <2>3. theirs = {}
    BY <1>3, <2>1 DEF Reached
  <2>4. h \in mine /\ mine \subseteq Host
    BY <1>1, <1>3, <2>1, MonitorAssumption
  <2>5. IsFiniteSet(mine)
    BY <2>4, MonitorAssumption, FS_Subset
  <2>6. Cardinality(theirs) = 0
    BY <2>3, FS_EmptySet
  <2>7. Cardinality(mine) \in Nat /\ Cardinality(mine) # 0
    BY <2>4, <2>5, FS_CardinalityType, FS_EmptySet
  <2>8. ~(Cardinality(mine) > Cardinality(theirs))
    BY <1>1, <1>3, <2>2
  <2>9. QED BY <2>6, <2>7, <2>8
<1>4. QED BY <1>1, <1>2, <1>3

LEMMA DecideMonitor ==
  ASSUME MonitorInv, Decide
  PROVE  MonitorInv'
<1>1. /\ cmd' = [cmd EXCEPT !.at = "over"] /\ cmd.at = "baseline" /\ (go' <=> ~NoGo(side, Snapshot))
      /\ side' = [h \in Host |-> IF h \in Canary THEN side[h] ELSE Snapshot[h]]
      /\ UNCHANGED <<world, try, prev, first, events, told, deaf, calm, changed>>
  BY DEF Decide
<1>2. cmd \in [kind : {"watch", "system", "canary"}, at : {"begin", "poll", "canary", "baseline", "over"}, polls : Nat, http : BOOLEAN]
  BY DEF MonitorInv, MonitorTyped
<1>3. /\ cmd' \in [kind : {"watch", "system", "canary"}, at : {"begin", "poll", "canary", "baseline", "over"}, polls : Nat, http : BOOLEAN]
      /\ cmd'.kind = cmd.kind /\ cmd'.at = "over"
  BY <1>1, <1>2
<1>4. MonitorTyped'
  BY <1>1, <1>3 DEF MonitorInv, MonitorTyped, Shaped, RowOK, AreBoxes
<1>5. Attempts'
  BY <1>1, <1>3 DEF MonitorInv, Attempts, Looks, Present, Ill, ServiceFares, ServiceRuns
<1>6. Comparison'
  <2>1. Canary \subseteq Host /\ cmd'.http = cmd.http
    BY <1>1, <1>2, MonitorAssumption
  <2>2. ASSUME go', NEW h \in Canary \cap calm'
        PROVE  /\ (\E v : v # "failing" /\ ServiceFares(h, v))'
               /\ (cmd.http /\ (\A b \in Host \ Canary : Served(b)) => ServiceRuns(h))'
    <3>1. side[h].verdict \notin {"down", "failing"} /\ h \in Canary \cap calm
      BY <1>1, <2>2, GoMeans
    <3>2. ServiceFares(h, side[h].verdict) /\ (side[h].served => ServiceRuns(h))
      BY <1>1, <3>1 DEF MonitorInv, Comparison
    <3>3. (\E v : v # "failing" /\ ServiceFares(h, v))'
      BY <1>1, <3>1, <3>2 DEF ServiceFares
    <3>4. ASSUME cmd'.http, \A b \in Host \ Canary : Served(b)' PROVE ServiceRuns(h)'
      <4>1. PICK snap : snap = Snapshot
        OBVIOUS
      <4>2. \A b \in Host \ Canary : snap[b].verdict = "down" \/ snap[b].served
        BY <1>1, <3>4, <4>1 DEF Served
      <4>3. ~NoGo(side, snap) /\ cmd.http
        BY <1>1, <2>1, <2>2, <3>4, <4>1
      <4>4. side[h].served
        BY <2>2, <4>2, <4>3, GoMeans
      <4>5. QED BY <1>1, <3>2, <4>4 DEF ServiceRuns
    <3>5. QED BY <3>3, <3>4
  <2>3. QED BY <1>3, <2>2 DEF Comparison
<1>7. Changelog'
  <2>1. Changelog /\ UNCHANGED <<prev, first, events, told, deaf>> /\ cmd'.kind = cmd.kind
    BY <1>1, <1>3 DEF MonitorInv
  <2>2. QED BY <2>1, SameChangelog
<1>8. QED BY <1>4, <1>5, <1>6, <1>7 DEF MonitorInv

\* A command that ends leaves its attempts at rest.
LEMMA Resting ==
  ASSUME MonitorInv, try' = [h \in Host |-> Waiting("idle")], UNCHANGED <<world, calm>>,
         cmd' \in [kind : {"watch", "system", "canary"}, at : {"begin", "poll", "canary", "baseline", "over"}, polls : Nat, http : BOOLEAN],
         cmd'.at = "over"
  PROVE  MonitorTyped' /\ Attempts'
<1>1. \A h \in Host : Shaped(try[h])' /\ RowOK(try[h])' /\ Looks(h, try[h])' /\ try'[h].at = "idle"
  BY WaitingIs DEF Shaped, RowOK, Looks
<1>2. QED BY <1>1 DEF MonitorInv, MonitorTyped, Attempts

\* The next round of a watch, or its end.
LEMMA NextRoundMonitor ==
  ASSUME MonitorInv, NextRound, cmd.at = "poll", world' = world
  PROVE  MonitorTyped' /\ Attempts' /\ cmd'.kind = cmd.kind /\ cmd'.at \in {"poll", "over"}
<1>1. /\ cmd \in [kind : {"watch", "system", "canary"}, at : {"begin", "poll", "canary", "baseline", "over"}, polls : Nat, http : BOOLEAN]
      /\ cmd.kind # "canary"
  BY DEF MonitorInv, MonitorTyped
<1>2. CASE cmd' = [cmd EXCEPT !.polls = @ + 1] /\ Start
  <2>1. /\ cmd' \in [kind : {"watch", "system", "canary"}, at : {"begin", "poll", "canary", "baseline", "over"}, polls : Nat, http : BOOLEAN]
        /\ cmd'.kind = cmd.kind /\ cmd'.at = "poll"
    BY <1>1, <1>2
  <2>2. QED BY <1>1, <1>2, <2>1, StartMonitor
<1>3. CASE cmd' = [cmd EXCEPT !.at = "over"] /\ try' = [h \in Host |-> Waiting("idle")] /\ UNCHANGED calm
  <2>1. /\ cmd' \in [kind : {"watch", "system", "canary"}, at : {"begin", "poll", "canary", "baseline", "over"}, polls : Nat, http : BOOLEAN]
        /\ cmd'.kind = cmd.kind /\ cmd'.at = "over"
    BY <1>1, <1>3
  <2>2. QED BY <1>3, <2>1, Resting
<1>4. QED BY <1>2, <1>3 DEF NextRound

\* The changes between two snapshots lead from one to the other.
LEMMA BatchLeads ==
  ASSUME NEW cur, NEW h \in Host, IsRow(prev[h]), IsRow(cur[h])
  PROVE  AfterBatch(prev[h], Fresh(cur), h) = cur[h]
<1> DEFINE tells(x) ==
      [host |-> x, change |-> Kind(prev[x].verdict, cur[x].verdict), to |-> cur[x].verdict,
       new |-> cur[x].reasons \ prev[x].reasons, resolved |-> prev[x].reasons \ cur[x].reasons]
           mine == {e \in Fresh(cur) : e.host = h}
           e == CHOOSE x \in mine : TRUE
<1>1. Fresh(cur) = {tells(x) : x \in {y \in Host : prev[y] # cur[y]}}
  BY Zenon DEF Fresh
<1>2. \A x : /\ tells(x).host = x /\ tells(x).to = cur[x].verdict
             /\ tells(x).new = cur[x].reasons \ prev[x].reasons /\ tells(x).resolved = prev[x].reasons \ cur[x].reasons
  OBVIOUS
<1>3. AfterBatch(prev[h], Fresh(cur), h)
        = IF mine = {} THEN prev[h] ELSE [verdict |-> e.to, reasons |-> (prev[h].reasons \cup e.new) \ e.resolved]
  BY Zenon DEF AfterBatch
<1> HIDE DEF tells
<1>4. mine = IF prev[h] = cur[h] THEN {} ELSE {tells(h)}
  BY <1>1, <1>2
<1>5. CASE prev[h] = cur[h]
  BY <1>3, <1>4, <1>5
<1>6. CASE prev[h] # cur[h]
  <2>1. mine = {tells(h)}
    BY <1>4, <1>6
  <2> HIDE DEF mine
  <2>2. e = tells(h)
    BY <2>1
  <2>3. (prev[h].reasons \cup tells(h).new) \ tells(h).resolved = cur[h].reasons
    BY <1>2
  <2>4. QED BY <1>2, <1>3, <2>1, <2>2, <2>3 DEF IsRow
<1>7. QED BY <1>5, <1>6

LEMMA NotedLeads ==
  ASSUME NEW old, NEW new, NEW c \in Container, IsBox(old[c]), IsBox(new[c])
  PROVE  BoxAfterBatch(old[c], Noted(old, new), c) = new[c]
<1> DEFINE change(x) ==
      CASE old[x] = Unlisted -> "appeared"
        [] new[x] = Unlisted -> "gone"
        [] OTHER -> IF old[x].verdict # new[x].verdict \/ old[x].state = new[x].state
                    THEN Kind(old[x].verdict, new[x].verdict) ELSE "state"
           tells(x) ==
      [of |-> x, change |-> change(x), to |-> new[x].verdict, state |-> new[x].state,
       new |-> new[x].found \ old[x].found, resolved |-> old[x].found \ new[x].found]
           mine == {e \in Noted(old, new) : e.of = c}
           e == CHOOSE x \in mine : TRUE
<1>1. Noted(old, new) = {tells(x) : x \in {y \in Container : old[y] # new[y]}}
  BY Zenon DEF Noted
<1>2. \A x : /\ tells(x).of = x /\ tells(x).to = new[x].verdict /\ tells(x).state = new[x].state /\ tells(x).change = change(x)
             /\ tells(x).new = new[x].found \ old[x].found /\ tells(x).resolved = old[x].found \ new[x].found
  <2> HIDE DEF change
  <2>1. QED OBVIOUS
<1>3. BoxAfterBatch(old[c], Noted(old, new), c)
        = IF mine = {} THEN old[c]
          ELSE IF e.change = "gone" THEN Unlisted
          ELSE [verdict |-> e.to, found |-> (old[c].found \cup e.new) \ e.resolved, state |-> e.state]
  BY Zenon DEF BoxAfterBatch
<1> HIDE DEF tells
<1>4. mine = IF old[c] = new[c] THEN {} ELSE {tells(c)}
  BY <1>1, <1>2
<1>5. CASE old[c] = new[c]
  BY <1>3, <1>4, <1>5
<1>6. CASE old[c] # new[c]
  <2>1. mine = {tells(c)}
    BY <1>4, <1>6
  <2> HIDE DEF mine
  <2>2. e = tells(c)
    BY <2>1
  <2>3. (old[c].found \cup tells(c).new) \ tells(c).resolved = new[c].found
    BY <1>2
  <2>4. change(c) = "gone" <=> new[c] = Unlisted
    <3>1. \A a, b : Kind(a, b) # "gone"
      BY DEF Kind
    <3>2. QED BY <1>6, <3>1
  <2> HIDE DEF change
  <2>5. PICK f : f = tells(c)
    OBVIOUS
  <2>6. f.to = new[c].verdict /\ f.state = new[c].state /\ (f.change = "gone" <=> new[c] = Unlisted)
        /\ (old[c].found \cup f.new) \ f.resolved = new[c].found
    BY <1>2, <2>3, <2>4, <2>5
  <2>7. BoxAfterBatch(old[c], Noted(old, new), c)
          = IF f.change = "gone" THEN Unlisted
            ELSE [verdict |-> f.to, found |-> (old[c].found \cup f.new) \ f.resolved, state |-> f.state]
    BY <1>3, <2>1, <2>2, <2>5
  <2>8. QED BY <2>6, <2>7 DEF IsBox
<1>7. QED BY <1>5, <1>6

\* The rows that lead through the batches lead through one more.
LEMMA RowsGoOn ==
  ASSUME NEW S, events \in Seq(S), NEW batch, events' = Append(events, batch), first' = first,
         NEW h, NEW row, Rows(h, row), NEW new, new = AfterBatch(row[Len(events)], batch, h)
  PROVE  (\E r : Rows(h, r) /\ r[Len(events)] = new)'
<1>1. PICK n, r : n = Len(events) /\ r = [i \in 0 .. n + 1 |-> IF i = n + 1 THEN new ELSE row[i]]
  OBVIOUS
<1>2. n \in Nat /\ Len(events') = n + 1 /\ events'[n + 1] = batch /\ \A i \in 1 .. n : events'[i] = events[i]
  BY <1>1
<1>3. \A i \in 0 .. n : row[i] = IF i = 0 THEN first[h] ELSE AfterBatch(row[i - 1], events[i], h)
  BY <1>1 DEF Rows
<1>4. ASSUME NEW i \in 0 .. n + 1
      PROVE  r[i] = IF i = 0 THEN first[h] ELSE AfterBatch(r[i - 1], events'[i], h)
  <2>1. CASE i = n + 1
    <3>1. i # 0 /\ r[i] = new /\ r[i - 1] = row[n] /\ events'[i] = batch
      BY <1>1, <1>2, <2>1
    <3>2. QED BY <1>1, <3>1
  <2>2. CASE i # n + 1
    <3>1. i \in 0 .. n /\ r[i] = row[i] /\ (i # 0 => r[i - 1] = row[i - 1] /\ events'[i] = events[i])
      BY <1>1, <1>2, <2>2
    <3>2. QED BY <1>3, <3>1
  <2>3. QED BY <2>1, <2>2
<1>5. r = [i \in 0 .. n + 1 |-> IF i = 0 THEN first[h] ELSE AfterBatch(r[i - 1], events'[i], h)]
  BY <1>1, <1>4
<1>6. r[n + 1] = new
  BY <1>1, <1>2
<1>7. Rows(h, r)' /\ r[Len(events')] = new
  BY <1>2, <1>5, <1>6 DEF Rows, AfterBatch
<1>8. QED BY <1>7

LEMMA BoxesGoOn ==
  ASSUME NEW S, events \in Seq(S), NEW batch, events' = Append(events, batch), first' = first,
         NEW c, NEW b, Boxes(c, b), NEW new, new = BoxAfterBatch(b[Len(events)], batch, c)
  PROVE  (\E r : Boxes(c, r) /\ r[Len(events)] = new)'
<1>1. PICK n, r : n = Len(events) /\ r = [i \in 0 .. n + 1 |-> IF i = n + 1 THEN new ELSE b[i]]
  OBVIOUS
<1>2. n \in Nat /\ Len(events') = n + 1 /\ events'[n + 1] = batch /\ \A i \in 1 .. n : events'[i] = events[i]
  BY <1>1
<1>3. \A i \in 0 .. n : b[i] = IF i = 0 THEN first[Local].boxes[c] ELSE BoxAfterBatch(b[i - 1], events[i], c)
  BY <1>1 DEF Boxes
<1>4. ASSUME NEW i \in 0 .. n + 1
      PROVE  r[i] = IF i = 0 THEN first[Local].boxes[c] ELSE BoxAfterBatch(r[i - 1], events'[i], c)
  <2>1. CASE i = n + 1
    <3>1. i # 0 /\ r[i] = new /\ r[i - 1] = b[n] /\ events'[i] = batch
      BY <1>1, <1>2, <2>1
    <3>2. QED BY <1>1, <3>1
  <2>2. CASE i # n + 1
    <3>1. i \in 0 .. n /\ r[i] = b[i] /\ (i # 0 => r[i - 1] = b[i - 1] /\ events'[i] = events[i])
      BY <1>1, <1>2, <2>2
    <3>2. QED BY <1>3, <3>1
  <2>3. QED BY <2>1, <2>2
<1>5. r = [i \in 0 .. n + 1 |-> IF i = 0 THEN first[Local].boxes[c] ELSE BoxAfterBatch(r[i - 1], events'[i], c)]
  BY <1>1, <1>4
<1>6. r[n + 1] = new
  BY <1>1, <1>2
<1>7. Boxes(c, r)' /\ r[Len(events')] = new
  BY <1>2, <1>5, <1>6 DEF Boxes, BoxAfterBatch
<1>8. QED BY <1>7

LEMMA RankIs ==
  /\ Rank["healthy"] = 0 /\ Rank["degraded"] = 1 /\ Rank["failing"] = 2 /\ Rank["down"] = 3
  /\ \A s \in DOMAIN Sink : Level[Sink[s]] \in 0 .. 3
<1>1. \A x \in DOMAIN Level : Level[x] \in 0 .. 3
  BY DEF Level
<1>2. QED BY <1>1, MonitorAssumption DEF Rank

\* The worst verdict of a batch is at least as bad as each in it.
LEMMA WorstIs ==
  ASSUME NEW cur, \A h \in Host : cur[h].verdict \in Verdicts, NEW e \in Fresh(cur)
  PROVE  Rank[Worst(cur, Fresh(cur))] >= Rank[e.to] /\ Rank[Worst(cur, Fresh(cur))] \in Nat
<1> DEFINE fresh == Fresh(cur)
           said == {cur[x.host].verdict : x \in fresh}
           IsWorst(v) == \A x \in fresh : Rank[v] >= Rank[cur[x.host].verdict]
<1>1. \A x \in fresh : x.host \in Host /\ x.to = cur[x.host].verdict
  BY DEF Fresh
<1>2. \E v \in said : IsWorst(v)
  <2> HIDE DEF fresh
  <2>1. said # {} /\ \A x \in fresh : cur[x.host].verdict \in {"healthy", "degraded", "failing", "down"}
    BY <1>1 DEF Verdicts, fresh
  <2>2. \A x \in fresh : cur[x.host].verdict \in said
    OBVIOUS
  <2>3. said \subseteq {"healthy", "degraded", "failing", "down"}
    BY <2>1
  <2> HIDE DEF said
  <2>4. CASE "down" \in said
    BY <2>1, <2>4, RankIs
  <2>5. CASE "down" \notin said /\ "failing" \in said
    BY <2>1, <2>2, <2>5, RankIs
  <2>6. CASE said \cap {"down", "failing"} = {} /\ "degraded" \in said
    BY <2>1, <2>2, <2>6, RankIs
  <2>7. CASE said \cap {"down", "failing", "degraded"} = {}
    <3>1. said = {"healthy"}
      BY <2>1, <2>3, <2>7
    <3>2. QED BY <2>1, <2>2, <3>1, RankIs
  <2>8. QED BY <2>4, <2>5, <2>6, <2>7
<1>3. Worst(cur, fresh) = CHOOSE v \in said : IsWorst(v)
  BY Zenon DEF Worst
<1>4. Worst(cur, fresh) \in said /\ IsWorst(Worst(cur, fresh))
  <2> HIDE DEF said, IsWorst
  <2>1. QED BY <1>2, <1>3
<1>5. Worst(cur, fresh) \in Verdicts
  BY <1>1, <1>4
<1>6. QED BY <1>1, <1>4, <1>5, RankIs DEF Verdicts

\* A batch of changes and the sinks it is for.
Wanting(cur, fresh) == IF fresh = {} THEN {} ELSE {s \in DOMAIN Sink : Rank[Worst(cur, fresh)] >= Level[Sink[s]]}
Tells(fresh, wants, broken) ==
  /\ events' = Append(events, fresh) /\ first' = first
  /\ told' = [s \in DOMAIN Sink |-> told[s] \cup If(s \in Sent(wants, broken), Len(events'))]
  /\ deaf' = [s \in DOMAIN Sink |-> deaf[s] \cup If(s \in broken, Len(events'))]

LEMMA PollMonitor ==
  ASSUME MonitorInv, Poll
  PROVE  MonitorInv'
<1>1. /\ cmd.kind = "watch" /\ cmd.at = "poll" /\ All /\ prev' = Snapshot /\ NextRound
      /\ UNCHANGED <<world, side, go, changed>>
  BY DEF Poll
<1>2. MonitorTyped' /\ Attempts' /\ cmd'.kind = "watch" /\ cmd'.at \in {"poll", "over"}
  BY <1>1, NextRoundMonitor
<1>3. Comparison'
  <2>1. ~go
    BY <1>1 DEF MonitorInv, Comparison
  <2>2. QED BY <1>1, <1>2, <2>1 DEF Comparison
<1>4. PICK cur : cur = Snapshot
  OBVIOUS
<1>5. Asked = Host /\ DOMAIN cur = Host /\ Host # {}
  BY <1>1, <1>4, MonitorAssumption DEF Asked, Snapshot
<1>6. \A h \in Host : IsRow(cur[h])
  BY <1>1, <1>4, <1>5, Found
<1>7. Changelog
  BY DEF MonitorInv
<1>8. PICK S : events \in Seq(S)
  BY <1>7 DEF Changelog
<1>9. CASE first = << >>
  <2>1. first' = cur /\ prev' = cur /\ UNCHANGED <<events, told, deaf>> /\ events = << >>
    BY <1>1, <1>4, <1>7, <1>9 DEF Poll, Changelog
  <2>2. first' # << >>
    BY <1>5, <2>1
  <2>3. ASSUME NEW h \in Host PROVE IsRow(prev[h])' /\ (\E row : Rows(h, row) /\ row[Len(events)] = prev[h])'
    <3>1. PICK row : row = [n \in 0 .. 0 |-> cur[h]]
      OBVIOUS
    <3>2. Rows(h, row)' /\ row[0] = cur[h]
      BY <2>1, <3>1 DEF Rows
    <3>3. QED BY <1>6, <2>1, <3>2 DEF IsRow
  <2>4. QED
    <3>1. Changelog'
      BY <1>2, <1>7, <2>1, <2>2, <2>3 DEF Changelog
    <3>2. QED BY <1>2, <1>3, <3>1 DEF MonitorInv
<1>10. CASE first # << >>
  <2>1. \E broken \in SUBSET Wanting(Snapshot, Fresh(Snapshot)) :
          Tells(Fresh(Snapshot), Wanting(Snapshot, Fresh(Snapshot)), broken)
    BY <1>10, Zenon DEF Poll, Tells, Wanting
  <2>2. PICK fresh, wants : fresh = Fresh(cur) /\ wants = Wanting(cur, fresh)
    OBVIOUS
  <2>3. PICK broken \in SUBSET wants : Tells(fresh, wants, broken)
    BY <1>4, <2>1, <2>2, Zenon
  <2>4. PICK n : n = Len(events)
    OBVIOUS
  <2>5. n \in Nat /\ Len(events') = n + 1 /\ events'[n + 1] = fresh /\ \A i \in 1 .. n : events'[i] = events[i]
    BY <1>8, <2>3, <2>4 DEF Tells
  <2>6. \A s \in DOMAIN Sink : /\ told'[s] = told[s] \cup (IF s \in wants \ broken THEN {n + 1} ELSE {})
                             /\ deaf'[s] = deaf[s] \cup (IF s \in broken THEN {n + 1} ELSE {})
                             /\ told[s] \cup deaf[s] \subseteq 1 .. n
    BY <1>7, <2>3, <2>4, <2>5 DEF If, Sent, Changelog, Tells
  <2>7. (\E T : events \in Seq(T))'
    <3>1. events \in Seq(S \cup {fresh})
      BY <1>8
    <3>2. events' \in Seq(S \cup {fresh})
      BY <2>3, <3>1, AppendProperties DEF Tells
    <3>3. QED BY <3>2
  <2>8. ASSUME NEW h \in Host PROVE IsRow(prev[h])' /\ (\E row : Rows(h, row) /\ row[Len(events)] = prev[h])'
    <3>1. PICK row : IsRow(prev[h]) /\ Rows(h, row) /\ row[Len(events)] = prev[h]
      BY <1>1, <1>7, <1>10 DEF Changelog
    <3>2. AfterBatch(row[Len(events)], fresh, h) = cur[h]
      BY <1>6, <2>2, <3>1, BatchLeads
    <3>3. (\E r : Rows(h, r) /\ r[Len(events)] = cur[h])'
      <4>1. PICK new : new = cur[h]
        OBVIOUS
      <4>2. (\E r : Rows(h, r) /\ r[Len(events)] = new)'
        BY <1>8, <2>3, <3>1, <3>2, <4>1, RowsGoOn DEF Tells
      <4>3. QED BY <4>1, <4>2
    <3>4. QED BY <1>1, <1>4, <1>6, <3>3 DEF IsRow
  <2>9. ASSUME NEW s \in DOMAIN Sink, NEW i \in 1 .. Len(events'), events'[i] # {}, Changed(i, Sink[s])'
        PROVE  (i \in told'[s]) # (i \in deaf'[s])
    <3>1. CASE i = n + 1
      <4>1. PICK e \in fresh : Rank[e.to] >= Level[Sink[s]]
        BY <2>5, <2>9, <3>1 DEF Changed
      <4>2. s \in wants
        <5>1. \A h \in Host : cur[h].verdict \in Verdicts
          BY <1>6 DEF IsRow
        <5>2. Rank[Worst(cur, fresh)] >= Rank[e.to] /\ Rank[Worst(cur, fresh)] \in Nat
          BY <2>2, <4>1, <5>1, WorstIs
        <5>3. e.to \in Verdicts
          BY <2>2, <5>1 DEF Fresh
        <5>4. Rank[e.to] \in Nat /\ Level[Sink[s]] \in Nat
          BY <5>3, RankIs DEF Verdicts
        <5>5. QED BY <2>2, <4>1, <5>2, <5>4 DEF Wanting
      <4>3. n + 1 \notin told[s] /\ n + 1 \notin deaf[s]
        BY <2>5, <2>6
      <4>4. QED BY <2>6, <3>1, <4>2, <4>3
    <3>2. CASE i # n + 1
      <4>1. i \in 1 .. n /\ events'[i] = events[i]
        BY <2>5, <3>2
      <4>2. events[i] # {} /\ Changed(i, Sink[s])
        BY <2>9, <4>1 DEF Changed
      <4>3. (i \in told[s]) # (i \in deaf[s])
        BY <1>1, <1>7, <1>10, <2>4, <4>1, <4>2 DEF Changelog
      <4>4. QED BY <2>5, <2>6, <4>1, <4>3
    <3>3. QED BY <3>1, <3>2
  <2>10. (\A s \in DOMAIN Sink : told[s] \cup deaf[s] \subseteq 1 .. Len(events))'
    BY <2>5, <2>6
  <2>11. (told = [s \in DOMAIN Sink |-> told[s]] /\ deaf = [s \in DOMAIN Sink |-> deaf[s]])'
    BY <2>3 DEF Tells
  <2>12. Changelog'
    BY <1>2, <1>10, <2>3, <2>7, <2>8, <2>9, <2>10, <2>11 DEF Changelog, Tells
  <2>13. QED BY <1>2, <1>3, <2>12 DEF MonitorInv
<1>11. QED BY <1>9, <1>10

LEMMA PollDaemonMonitor ==
  ASSUME MonitorInv, PollDaemon
  PROVE  MonitorInv'
<1>1. cmd.kind = "system" /\ cmd.at = "poll" /\ All /\ UNCHANGED <<world, told, deaf, side, go, changed>>
  BY DEF PollDaemon
<1>2. ~go /\ Changelog
  BY <1>1 DEF MonitorInv, Comparison
<1>3. PICK S : events \in Seq(S)
  BY <1>2 DEF Changelog
<1>4. CASE try[Local].row.verdict = "down"
  <2>1. /\ cmd' = [cmd EXCEPT !.at = "over"] /\ try' = [h \in Host |-> Waiting("idle")]
        /\ prev' = << >> /\ first' = << >> /\ events' = << >> /\ UNCHANGED calm
    BY <1>4 DEF PollDaemon
  <2>2. /\ cmd' \in [kind : {"watch", "system", "canary"}, at : {"begin", "poll", "canary", "baseline", "over"}, polls : Nat, http : BOOLEAN]
        /\ cmd'.kind = cmd.kind /\ cmd'.at = "over"
    BY <2>1 DEF MonitorInv, MonitorTyped
  <2>3. MonitorTyped' /\ Attempts'
    BY <1>1, <2>1, <2>2, Resting
  <2>4. Comparison'
    BY <1>1, <1>2, <2>2 DEF Comparison
  <2>5. (\E T : events \in Seq(T))'
    BY <2>1, << >> \in Seq({})
  <2>6. Changelog'
    <3>1. \A s \in DOMAIN Sink : told[s] \cup deaf[s] = {}
      BY <1>1, <1>2 DEF Changelog
    <3>2. QED BY <1>1, <1>2, <2>1, <2>2, <2>5, <3>1 DEF Changelog
  <2>7. QED BY <2>3, <2>4, <2>6 DEF MonitorInv
<1>5. CASE try[Local].row.verdict # "down"
  <2>1. prev' = Snapshot /\ NextRound
    BY <1>5 DEF PollDaemon
  <2>2. MonitorTyped' /\ Attempts' /\ cmd'.kind = "system" /\ cmd'.at \in {"poll", "over"}
    BY <1>1, <2>1, NextRoundMonitor
  <2>3. Comparison'
    BY <1>1, <1>2, <2>2 DEF Comparison
  <2>4. PICK cur : cur = Snapshot
    OBVIOUS
  <2>5. Asked = {Local} /\ DOMAIN cur = {Local}
    BY <1>1, <2>4 DEF Asked, Snapshot
  <2>6. AreBoxes(cur[Local])
    BY <1>1, <1>5, <2>4, <2>5, Found
  <2>7. CASE first = << >>
    <3>1. first' = cur /\ prev' = cur /\ events' = events /\ events = << >>
      BY <1>2, <1>5, <2>1, <2>4, <2>7 DEF PollDaemon, Changelog
    <3>2. first' # << >>
      BY <2>5, <3>1
    <3>3. ASSUME NEW c \in Container PROVE (\E b : Boxes(c, b) /\ b[Len(events)] = prev[Local].boxes[c])'
      <4>1. PICK b : b = [n \in 0 .. 0 |-> cur[Local].boxes[c]]
        OBVIOUS
      <4>2. Boxes(c, b)' /\ b[0] = cur[Local].boxes[c]
        BY <3>1, <4>1 DEF Boxes
      <4>3. QED BY <3>1, <4>2
    <3>4. AreBoxes(prev[Local])'
      BY <2>6, <3>1 DEF AreBoxes
    <3>5. Changelog'
      BY <1>1, <1>2, <2>2, <3>1, <3>2, <3>3, <3>4 DEF Changelog
    <3>6. QED BY <2>2, <2>3, <3>5 DEF MonitorInv
  <2>8. CASE first # << >>
    <3>1. PICK old, batch : old = prev[Local].boxes /\ batch = Noted(old, cur[Local].boxes)
      OBVIOUS
    <3>2. events' = Append(events, batch) /\ first' = first
      BY <1>5, <2>4, <2>8, <3>1, Zenon DEF PollDaemon
    <3>3. AreBoxes(prev[Local])
      BY <1>1, <1>2, <2>8 DEF Changelog
    <3>4. ASSUME NEW c \in Container PROVE (\E b : Boxes(c, b) /\ b[Len(events)] = prev[Local].boxes[c])'
      <4>1. PICK b : Boxes(c, b) /\ b[Len(events)] = prev[Local].boxes[c]
        BY <1>1, <1>2, <2>8 DEF Changelog
      <4>2. PICK new : new = cur[Local].boxes[c]
        OBVIOUS
      <4>3. BoxAfterBatch(b[Len(events)], batch, c) = new
        BY <2>6, <3>1, <3>3, <4>1, <4>2, NotedLeads DEF AreBoxes
      <4>4. (\E r : Boxes(c, r) /\ r[Len(events)] = new)'
        BY <1>3, <3>2, <4>1, <4>3, BoxesGoOn
      <4>5. prev'[Local].boxes[c] = new
        BY <2>1, <2>4, <4>2
      <4>6. QED BY <4>4, <4>5
    <3>5. (\E T : events \in Seq(T))'
      <4>1. events \in Seq(S \cup {batch})
        BY <1>3
      <4>2. events' \in Seq(S \cup {batch})
        BY <3>2, <4>1, AppendProperties
      <4>3. QED BY <4>2
    <3>6. AreBoxes(prev[Local])'
      BY <2>1, <2>4, <2>6 DEF AreBoxes
    <3>7. Len(events') = Len(events) + 1 /\ Len(events) \in Nat
      BY <1>3, <3>2
    <3>8. (\A s \in DOMAIN Sink : told[s] \cup deaf[s] \subseteq 1 .. Len(events))'
      <4>1. \A s \in DOMAIN Sink : told[s] \cup deaf[s] \subseteq 1 .. Len(events)
        BY <1>2 DEF Changelog
      <4>2. 1 .. Len(events) \subseteq 1 .. Len(events')
        BY <3>7
      <4>3. QED BY <1>1, <4>1, <4>2
    <3>9. Changelog'
      BY <1>1, <1>2, <2>2, <2>8, <3>2, <3>4, <3>5, <3>6, <3>8 DEF Changelog
    <3>10. QED BY <2>2, <2>3, <3>9 DEF MonitorInv
  <2>9. QED BY <2>7, <2>8
<1>6. QED BY <1>4, <1>5

LEMMA NextMonitorInv == MonitorInv /\ [Next]_vars => MonitorInv'
<1> SUFFICES ASSUME MonitorInv, [Next]_vars PROVE MonitorInv'
  OBVIOUS
<1>1. CASE UNCHANGED vars
  <2>1. UNCHANGED <<world, try, cmd, prev, first, events, told, deaf, side, go, calm, changed>>
    BY <1>1 DEF vars
  <2>2. MonitorTyped'
    BY <2>1 DEF MonitorInv, MonitorTyped, Shaped, RowOK, AreBoxes
  <2>3. Attempts'
    BY <2>1 DEF MonitorInv, Attempts, Looks, Present, Ill, ServiceFares, ServiceRuns
  <2>4. Comparison'
    BY <2>1 DEF MonitorInv, Comparison, ServiceFares, ServiceRuns, Served
  <2>5. Changelog'
    BY <2>1, SameChangelog DEF MonitorInv
  <2>6. QED BY <2>2, <2>3, <2>4, <2>5 DEF MonitorInv
<1>2. CASE Next
  BY <1>2, BeginMonitor, PollMonitor, PollDaemonMonitor, BaselineMonitor, DecideMonitor, ReadVitalsMonitor, ListMonitor,
     InspectMonitor, ReadLogMonitor, ReportMonitor, CompareMonitor, ListStatesMonitor, GiveUpMonitor, ChangesMonitor DEF Next
<1>3. QED BY <1>1, <1>2

----------------------------------------------------------------------------
(* What it shows.                                                          *)

\* The row that Replay ends with is the one that any rows through the batches end with.
LEMMA ReplayIs ==
  ASSUME NEW S, events \in Seq(S), NEW h, NEW row, Rows(h, row)
  PROVE  Replay(h) = row[Len(events)]
<1> DEFINE n == Len(events)
           L == CHOOSE g : g = [i \in 0 .. n |-> IF i = 0 THEN first[h] ELSE AfterBatch(g[i - 1], events[i], h)]
<1>1. Replay(h) = L[n] /\ n \in Nat
  BY Zenon, LenProperties DEF Replay
<1>2. row = [i \in 0 .. n |-> IF i = 0 THEN first[h] ELSE AfterBatch(row[i - 1], events[i], h)]
  BY DEF Rows
<1>3. L = [i \in 0 .. n |-> IF i = 0 THEN first[h] ELSE AfterBatch(L[i - 1], events[i], h)]
  BY <1>2
<1> HIDE DEF L, n
<1> DEFINE T == {i \in 0 .. n : L[i] = row[i]}
<1>4. 0 \in T
  BY <1>1, <1>2, <1>3
<1>5. ASSUME NEW i \in 0 .. n - 1, i \in T PROVE i + 1 \in T
  <2>1. i + 1 \in 0 .. n /\ i + 1 # 0 /\ (i + 1) - 1 = i /\ L[i] = row[i]
    BY <1>1, <1>5
  <2>2. L[i + 1] = AfterBatch(L[i], events[i + 1], h) /\ row[i + 1] = AfterBatch(row[i], events[i + 1], h)
    BY <1>2, <1>3, <2>1
  <2>3. QED BY <2>1, <2>2
<1>6. 0 .. n \subseteq T
  <2> HIDE DEF T
  <2>1. QED BY <1>1, <1>4, <1>5, UpTo
<1>7. L[n] = row[n]
  BY <1>1, <1>6
<1>8. QED BY <1>1, <1>7 DEF n

LEMMA ReplayBoxIs ==
  ASSUME NEW S, events \in Seq(S), NEW c, NEW b, Boxes(c, b)
  PROVE  ReplayBox(c) = b[Len(events)]
<1> DEFINE n == Len(events)
           L == CHOOSE g : g = [i \in 0 .. n |->
                  IF i = 0 THEN first[Local].boxes[c] ELSE BoxAfterBatch(g[i - 1], events[i], c)]
<1>1. ReplayBox(c) = L[n] /\ n \in Nat
  BY Zenon, LenProperties DEF ReplayBox
<1>2. b = [i \in 0 .. n |-> IF i = 0 THEN first[Local].boxes[c] ELSE BoxAfterBatch(b[i - 1], events[i], c)]
  BY DEF Boxes
<1>3. L = [i \in 0 .. n |-> IF i = 0 THEN first[Local].boxes[c] ELSE BoxAfterBatch(L[i - 1], events[i], c)]
  BY <1>2
<1> HIDE DEF L, n
<1> DEFINE T == {i \in 0 .. n : L[i] = b[i]}
<1>4. 0 \in T
  BY <1>1, <1>2, <1>3
<1>5. ASSUME NEW i \in 0 .. n - 1, i \in T PROVE i + 1 \in T
  <2>1. i + 1 \in 0 .. n /\ i + 1 # 0 /\ (i + 1) - 1 = i /\ L[i] = b[i]
    BY <1>1, <1>5
  <2>2. L[i + 1] = BoxAfterBatch(L[i], events[i + 1], c) /\ b[i + 1] = BoxAfterBatch(b[i], events[i + 1], c)
    BY <1>2, <1>3, <2>1
  <2>3. QED BY <2>1, <2>2
<1>6. 0 .. n \subseteq T
  <2> HIDE DEF T
  <2>1. QED BY <1>1, <1>4, <1>5, UpTo
<1>7. L[n] = b[n]
  BY <1>1, <1>6
<1>8. QED BY <1>1, <1>7 DEF n

\* For any hosts, changes, sinks and numbers of polls: the changes that `fleet
\* watch` and `system watch` report lead from the first snapshot to the last, and
\* every sink that wants a batch was told it or failed to take it.
THEOREM ReportsLead == Spec => []ChangesReported
<1>1. MonitorInv => ChangesReported
  <2> SUFFICES ASSUME MonitorInv PROVE ChangesReported
    OBVIOUS
  <2>1. Changelog
    BY DEF MonitorInv
  <2>2. PICK S : events \in Seq(S)
    BY <2>1 DEF Changelog
  <2>3. ASSUME cmd.kind = "system", first # << >>, NEW c \in Container PROVE prev[Local].boxes[c] = ReplayBox(c)
    <3>1. PICK b : Boxes(c, b) /\ b[Len(events)] = prev[Local].boxes[c]
      BY <2>1, <2>3 DEF Changelog
    <3>2. QED BY <2>2, <3>1, ReplayBoxIs
  <2>4. ASSUME cmd.kind = "watch", first # << >>, NEW h \in Host PROVE prev[h] = Replay(h)
    <3>1. PICK row : Rows(h, row) /\ row[Len(events)] = prev[h]
      BY <2>1, <2>4 DEF Changelog
    <3>2. QED BY <2>2, <3>1, ReplayIs
  <2>5. DOMAIN events = 1 .. Len(events)
    BY <2>2
  <2>6. QED BY <2>1, <2>3, <2>4, <2>5 DEF ChangesReported, Changelog
<1>2. QED BY <1>1, InitMonitorInv, NextMonitorInv, PTL DEF Spec

\* For any hosts, containers and facts: a host that has not changed since it was
\* asked and answers is failing exactly when one of its containers is, its disk is
\* full or its memory used up, and `system watch` says of each container whether it is.
THEOREM FailuresFound == Spec => []NoFailureMissed
<1>1. MonitorInv => NoFailureMissed
  <2> SUFFICES ASSUME MonitorInv, NEW h \in calm, try[h].at = "done", try[h].row.verdict # "down"
      PROVE  /\ cmd.kind = "watch" =>
                  (try[h].row.verdict = "failing")
                    = (Spent(world[h].vitals) \/ \E c \in Container : world[h].box[c] # Gone /\ Wrong(world[h].box[c]))
             /\ cmd.kind = "system" =>
                  \A c \in Container : (try[h].row.boxes[c].verdict = "failing")
                                         = (world[h].box[c] # Gone /\ Wrong(world[h].box[c]))
    BY Zenon DEF NoFailureMissed
  <2>1. Looks(h, try[h])
    BY DEF MonitorInv, Attempts
  <2>2. QED BY <2>1 DEF Looks, Ill
<1>2. QED BY <1>1, InitMonitorInv, NextMonitorInv, PTL DEF Spec

\* For any canary and baseline: a go is said only when every canary host answered
\* with a service that does not fail, or has changed since; and with --http, if the
\* baseline served the request, only when that service runs.
THEOREM GoIsDeserved == Spec => []GoIsEarned
<1>1. MonitorInv => GoIsEarned
  BY DEF MonitorInv, Comparison, GoIsEarned, ServiceFares, ServiceRuns
<1>2. QED BY <1>1, InitMonitorInv, NextMonitorInv, PTL DEF Spec

----------------------------------------------------------------------------
(* What is shown from memory.                                              *)

ServingTyped ==
  /\ serves \in {"exporter", "portal"} /\ now \in Nat
  /\ text \in Int /\ error \in BOOLEAN
  /\ loop \in [at : {"ask", "clear", "wait"}, since : Nat]
  /\ fleet \in [at : Int, began : Int]
  /\ client \in [Client -> [at : {"idle", "scrape", "round", "told", "scraped"}, began : Nat, shows : Int,
                            quiet : BOOLEAN, whole : BOOLEAN]]

\* The collector is on time, and without an error its text is of the last round.
LoopOK ==
  /\ loop.at = "ask" => loop.since <= now /\ now <= loop.since + Longest
  /\ loop.at = "clear" => text = loop.since /\ now <= text + Longest
  /\ loop.at = "wait" => loop.since <= now /\ now <= loop.since + Interval
  /\ text # Never /\ ~error =>
       /\ loop.at = "ask" => loop.since <= text + Longest + Interval
       /\ loop.at = "wait" => loop.since <= text + Longest

\* What the portal keeps was told at the end of a round that took its time.
FleetOK == fleet # NoFleet => fleet.at <= fleet.began + Longest

\* What a client is shown, or will be if nothing ends before it reads the error.
ClientOK(c) ==
  /\ client[c].at = "round" => now <= client[c].began + Longest
  /\ client[c].at = "told" => client[c].shows <= Ttl + Longest
  /\ client[c].at = "scrape" /\ client[c].whole /\ ~error => client[c].shows <= 2 * Longest + Interval
  /\ client[c].at = "scraped" /\ client[c].quiet /\ client[c].whole =>
       client[c].shows <= 2 * Longest + Interval

ServingInv ==
  /\ ServingTyped
  /\ serves = "exporter" => LoopOK
  /\ FleetOK
  /\ \A c \in Client : ClientOK(c)


LEMMA InitServingInv == ServingInit => ServingInv
  <1> SUFFICES ASSUME ServingInit PROVE ServingInv
    OBVIOUS
  <1>1. AtRest \in [at : {"idle", "scrape", "round", "told", "scraped"}, began : Nat, shows : Int,
                    quiet : BOOLEAN, whole : BOOLEAN] /\ NoFleet \in [at : Int, began : Int] /\ Never \in Int
    BY DEF AtRest, NoFleet, Never
  <1>2. ServingTyped
    BY <1>1 DEF ServingInit, ServingTyped
  <1>3. QED
    BY <1>2, ServingAssumption DEF ServingInit, ServingInv, LoopOK, FleetOK, ClientOK, AtRest

\* The bounds are naturals.
LEMMA ServingNats == Ttl \in Nat /\ Interval \in Nat /\ Longest \in Nat /\ MaxTime \in Nat
  BY ServingAssumption

LEMMA TickServing ==
  ASSUME ServingInv, Tick
  PROVE  ServingInv'
  <1>1. ServingTyped'
    BY DEF Tick, ServingInv, ServingTyped
  <1>2. serves' = "exporter" => LoopOK'
    BY ServingNats DEF Tick, OnTime, ServingInv, ServingTyped, LoopOK
  <1>3. FleetOK'
    BY DEF Tick, ServingInv, FleetOK
  <1>4. \A c \in Client : ClientOK(c)'
    <2> SUFFICES ASSUME NEW c \in Client PROVE ClientOK(c)'
      OBVIOUS
    <2>1. ClientOK(c) /\ client' = client /\ error' = error /\ now' = now + 1
      BY DEF Tick, ServingInv
    <2>2. client[c].at = "round" => now < client[c].began + Longest
      BY DEF Tick, OnTime
    <2>3. client[c].began \in Nat /\ now \in Nat
      BY DEF ServingInv, ServingTyped
    <2>4. QED
      BY <2>1, <2>2, <2>3, ServingNats DEF ClientOK
  <1>5. QED
    BY <1>1, <1>2, <1>3, <1>4 DEF ServingInv

\* The collector's steps.
LEMMA CollectorServing ==
  ASSUME ServingInv, serves = "exporter", Refreshed \/ Cleared \/ RefreshFails \/ RefreshAgain
  PROVE  ServingInv'
  <1>1. ServingTyped'
    <2> DEFINE M == [at : {"idle", "scrape", "round", "told", "scraped"}, began : Nat, shows : Int,
                     quiet : BOOLEAN, whole : BOOLEAN]
    <2>1. /\ serves' \in {"exporter", "portal"} /\ now' \in Nat /\ text' \in Int /\ error' \in BOOLEAN
          /\ loop' \in [at : {"ask", "clear", "wait"}, since : Nat] /\ fleet' \in [at : Int, began : Int]
      <3>1. /\ serves \in {"exporter", "portal"} /\ now \in Nat /\ text \in Int /\ error \in BOOLEAN
            /\ loop \in [at : {"ask", "clear", "wait"}, since : Nat] /\ fleet \in [at : Int, began : Int]
        BY DEF ServingInv, ServingTyped
      <3>2. CASE Refreshed
        BY <3>1, <3>2 DEF Refreshed
      <3>3. CASE Cleared
        BY <3>1, <3>3 DEF Cleared
      <3>4. CASE RefreshFails
        BY <3>1, <3>4 DEF RefreshFails
      <3>5. CASE RefreshAgain
        BY <3>1, <3>5 DEF RefreshAgain
      <3>6. QED
        BY <3>2, <3>3, <3>4, <3>5
    <2>2. client \in [Client -> M]
      BY DEF ServingInv, ServingTyped
    <2>3. ASSUME NEW d \in Client PROVE [client[d] EXCEPT !.whole = FALSE] \in M
      BY <2>2
    <2> HIDE DEF M
    <2>4. Straddled \in [Client -> M]
      BY <2>2, <2>3 DEF Straddled
    <2>5. client' \in [Client -> M]
      BY <2>2, <2>4 DEF Refreshed, Cleared, RefreshFails, RefreshAgain
    <2>6. QED
      BY <2>1, <2>5 DEF ServingTyped, M
  <1>2. LoopOK'
    BY ServingNats DEF Refreshed, Cleared, RefreshFails, RefreshAgain, ServingInv, ServingTyped, LoopOK
  <1>3. FleetOK'
    BY DEF Refreshed, Cleared, RefreshFails, RefreshAgain, ServingInv, FleetOK
  <1>4. \A c \in Client : ClientOK(c)'
    <2> SUFFICES ASSUME NEW c \in Client PROVE ClientOK(c)'
      OBVIOUS
    <2>1. ClientOK(c) /\ now' = now
      BY DEF ServingInv, Refreshed, Cleared, RefreshFails, RefreshAgain
    <2>2. CASE UNCHANGED <<client, error>>
      BY <2>1, <2>2 DEF ClientOK
    <2>3. CASE client' = Straddled
      <3>1. client'[c].at = client[c].at /\ client'[c].began = client[c].began
            /\ client'[c].shows = client[c].shows /\ client'[c].quiet = client[c].quiet
            /\ (client[c].at = "scrape" => ~client'[c].whole)
            /\ (client[c].at # "scrape" => client'[c] = client[c])
        BY <2>3 DEF Straddled, ServingInv, ServingTyped
      <3>2. QED
        BY <2>1, <3>1 DEF ClientOK
    <2>4. QED
      BY <2>2, <2>3 DEF Refreshed, Cleared, RefreshFails, RefreshAgain
  <1>5. QED
    BY <1>1, <1>2, <1>3, <1>4 DEF ServingInv, Refreshed, Cleared, RefreshFails, RefreshAgain

\* The oldest text a scrape can be given without an error.
LEMMA TextIsCurrent ==
  ASSUME ServingInv, serves = "exporter", text # Never, ~error
  PROVE  now - text <= 2 * Longest + Interval
  BY ServingNats DEF ServingInv, ServingTyped, LoopOK

\* A step of one client: the rest stay as they are.
LEMMA ClientServing ==
  ASSUME ServingInv, NEW c \in Client, NEW m, UNCHANGED <<serves, now, text, error, loop>>, FleetOK',
         fleet' \in [at : Int, began : Int],
         m \in [at : {"idle", "scrape", "round", "told", "scraped"}, began : Nat, shows : Int,
                quiet : BOOLEAN, whole : BOOLEAN],
         client' = [client EXCEPT ![c] = m],
         m.at = "round" => now <= m.began + Longest,
         m.at = "told" => m.shows <= Ttl + Longest,
         m.at = "scrape" /\ m.whole /\ ~error => m.shows <= 2 * Longest + Interval,
         m.at = "scraped" /\ m.quiet /\ m.whole => m.shows <= 2 * Longest + Interval
  PROVE  ServingInv'
  <1>1. ServingTyped'
    BY DEF ServingInv, ServingTyped
  <1>2. serves' = "exporter" => LoopOK'
    BY DEF ServingInv, LoopOK
  <1>3. client' \in [Client -> [at : {"idle", "scrape", "round", "told", "scraped"}, began : Nat, shows : Int,
                quiet : BOOLEAN, whole : BOOLEAN]] /\ client'[c] = m
        /\ \A d \in Client \ {c} : client'[d] = client[d]
    BY DEF ServingInv, ServingTyped
  <1>4. \A d \in Client : ClientOK(d)'
    BY <1>3 DEF ServingInv, ClientOK
  <1>5. QED
    BY <1>1, <1>2, <1>4 DEF ServingInv

LEMMA ScraperServing ==
  ASSUME ServingInv, serves = "exporter", NEW c \in Client, Scrape(c) \/ Scraped(c) \/ Done(c)
  PROVE  ServingInv'
  <1> DEFINE M == [at : {"idle", "scrape", "round", "told", "scraped"}, began : Nat, shows : Int,
                   quiet : BOOLEAN, whole : BOOLEAN]
  <1>1. client[c] \in M /\ client \in [Client -> M] /\ AtRest \in M /\ now \in Nat /\ text \in Int /\ error \in BOOLEAN
        /\ fleet \in [at : Int, began : Int]
    BY DEF ServingInv, ServingTyped, AtRest
  <1>2. ClientOK(c) /\ FleetOK
    BY DEF ServingInv
  <1>3. UNCHANGED <<serves, now, text, error, loop, fleet>> /\ FleetOK'
    BY <1>2 DEF Scrape, Scraped, Done, FleetOK
  <1>4. CASE Scrape(c)
    <2> DEFINE m == [AtRest EXCEPT !.at = "scrape", !.shows = IF text = Never THEN -1 ELSE now - text]
    <2>1. client' = [client EXCEPT ![c] = m]
      BY <1>4 DEF Scrape
    <2> DEFINE age == IF text = Never THEN -1 ELSE now - text
    <2>a. age \in Int
      BY <1>1
    <2> HIDE DEF age
    <2>b. m = [AtRest EXCEPT !.at = "scrape", !.shows = age]
      BY DEF age
    <2>2. m \in M /\ m.at = "scrape" /\ m.shows = age
      BY <1>1, <2>a, <2>b DEF AtRest
    <2> USE DEF age
    <2>3. ~error => m.shows <= 2 * Longest + Interval
      BY <2>2, TextIsCurrent, ServingNats
    <2> HIDE DEF m
    <2>4. QED
      BY <1>1, <1>3, <2>1, <2>2, <2>3, ClientServing
  <1>5. CASE Scraped(c)
    <2> DEFINE m == [client[c] EXCEPT !.at = "scraped", !.quiet = ~error]
    <2>1. client' = [client EXCEPT ![c] = m] /\ client[c].at = "scrape"
      BY <1>1, <1>5 DEF Scraped
    <2>2. m \in M /\ m.at = "scraped" /\ m.shows = client[c].shows /\ m.quiet = ~error /\ m.whole = client[c].whole
      BY <1>1
    <2> HIDE DEF m
    <2>3. m.quiet /\ m.whole => m.shows <= 2 * Longest + Interval
      BY <1>2, <2>1, <2>2 DEF ClientOK
    <2>4. QED
      BY <1>1, <1>3, <2>1, <2>2, <2>3, ClientServing
  <1>6. CASE Done(c)
    BY <1>1, <1>3, <1>6, ClientServing DEF Done, AtRest
  <1>7. QED
    BY <1>4, <1>5, <1>6

LEMMA TabServing ==
  ASSUME ServingInv, NEW c \in Client, FromCache(c) \/ AskFleet(c) \/ StoreFleet(c) \/ FleetFails(c) \/ Done(c)
  PROVE  ServingInv'
  <1> DEFINE M == [at : {"idle", "scrape", "round", "told", "scraped"}, began : Nat, shows : Int,
                   quiet : BOOLEAN, whole : BOOLEAN]
  <1>1. client[c] \in M /\ client \in [Client -> M] /\ AtRest \in M /\ now \in Nat /\ fleet \in [at : Int, began : Int]
    BY DEF ServingInv, ServingTyped, AtRest
  <1>2. ClientOK(c) /\ FleetOK
    BY DEF ServingInv
  <1>3. UNCHANGED <<serves, now, text, error, loop>>
    BY DEF FromCache, AskFleet, StoreFleet, FleetFails, Done
  <1>4. CASE FromCache(c)
    <2> DEFINE m == [AtRest EXCEPT !.at = "told", !.shows = now - fleet.began]
    <2>1. client' = [client EXCEPT ![c] = m] /\ UNCHANGED fleet /\ FleetFresh
      BY <1>4 DEF FromCache
    <2>a. now - fleet.began \in Int
      BY <1>1
    <2>2. m \in M /\ m.at = "told" /\ m.shows = now - fleet.began
      BY <2>a DEF AtRest
    <2> HIDE DEF m
    <2>3. m.shows <= Ttl + Longest /\ FleetOK'
      BY <1>1, <1>2, <2>1, <2>2, ServingNats DEF FleetFresh, FleetOK
    <2>4. QED
      BY <1>1, <1>3, <2>1, <2>2, <2>3, ClientServing
  <1>5. CASE AskFleet(c)
    <2> DEFINE m == [AtRest EXCEPT !.at = "round", !.began = now]
    <2>1. client' = [client EXCEPT ![c] = m] /\ UNCHANGED fleet /\ FleetOK'
      BY <1>2, <1>5 DEF AskFleet, FleetOK
    <2>2. m \in M /\ m.at = "round" /\ m.began = now
      BY <1>1 DEF AtRest
    <2> HIDE DEF m
    <2>3. now <= m.began + Longest
      BY <1>1, <2>2, ServingNats
    <2>4. QED
      BY <1>1, <1>3, <2>1, <2>2, <2>3, ClientServing
  <1>6. CASE StoreFleet(c)
    <2> DEFINE m == [client[c] EXCEPT !.at = "told", !.shows = now - client[c].began]
    <2>1. client' = [client EXCEPT ![c] = m] /\ fleet' = [at |-> now, began |-> client[c].began] /\ client[c].at = "round"
      BY <1>1, <1>6 DEF StoreFleet
    <2>a. now - client[c].began \in Int
      BY <1>1
    <2>2. m \in M /\ m.at = "told" /\ m.shows = now - client[c].began
      BY <1>1, <2>a
    <2> HIDE DEF m
    <2>3. m.shows <= Ttl + Longest /\ FleetOK' /\ fleet' \in [at : Int, began : Int]
      BY <1>1, <1>2, <2>1, <2>2, ServingNats DEF ClientOK, FleetOK
    <2>4. QED
      BY <1>1, <1>3, <2>1, <2>2, <2>3, ClientServing
  <1>7. CASE FleetFails(c) \/ Done(c)
    <2>1. client' = [client EXCEPT ![c] = AtRest] /\ UNCHANGED fleet /\ FleetOK'
      BY <1>2, <1>7 DEF FleetFails, Done, FleetOK
    <2>2. AtRest.at = "idle"
      BY DEF AtRest
    <2>3. QED
      BY <1>1, <1>3, <2>1, <2>2, ClientServing
  <1>8. QED
    BY <1>4, <1>5, <1>6, <1>7

LEMMA NextServingInv == ServingInv /\ [ServingNext]_servingVars => ServingInv'
  <1> SUFFICES ASSUME ServingInv, [ServingNext]_servingVars PROVE ServingInv'
    OBVIOUS
  <1>1. CASE Tick
    BY <1>1, TickServing
  <1>2. CASE serves = "exporter" /\ (Refreshed \/ Cleared \/ RefreshFails \/ RefreshAgain)
    BY <1>2, CollectorServing
  <1>3. CASE serves = "exporter" /\ \E c \in Scraper : Scrape(c) \/ Scraped(c) \/ Done(c)
    BY <1>3, ScraperServing DEF Client
  <1>4. CASE \E c \in Tab : FromCache(c) \/ AskFleet(c) \/ StoreFleet(c) \/ FleetFails(c) \/ Done(c)
    BY <1>4, TabServing DEF Client
  <1>5. CASE UNCHANGED servingVars
    BY <1>5 DEF servingVars, ServingInv, ServingTyped, LoopOK, FleetOK, ClientOK
  <1>6. QED
    BY <1>1, <1>2, <1>3, <1>4, <1>5 DEF ServingNext

\* What the exporter and the portal show is not too old, however rounds, scrapes
\* and failures interleave.
THEOREM ShownStaysCurrent == ServingSpec => []ShownIsCurrent
  <1>1. ServingInv => ShownIsCurrent
    BY DEF ServingInv, ClientOK, ShownIsCurrent
  <1>2. QED
    BY <1>1, InitServingInv, NextServingInv, PTL DEF ServingSpec

----------------------------------------------------------------------------
(* `system remediate`.                                                     *)

Act == [box : Box, rule : {"raise-memory", "start-exited", "restart-unhealthy"}, limit : Nat]

Stage == {"scan", "examine", "inspect", "act", "not found", "denied", "over"}

RemedyTyped ==
  /\ stage \in Stage
  /\ DOMAIN ward = Box
  /\ \A b \in Box : ward[b] = [facts |-> ward[b].facts, limit |-> ward[b].limit] /\ ward[b].limit \in Nat
  /\ targets \in Seq(Box)
  /\ DOMAIN seen \subseteq Box
  /\ \A b \in DOMAIN seen : seen[b] = [report |-> seen[b].report, limit |-> seen[b].limit, calm |-> seen[b].calm]

\* The causes found of a container that need a person, and whether it is left to
\* one.
Personal(b) == Codes(seen[b].report) \cap NeedsHuman
LeftAlone(b) == Personal(b) # {} /\ ~Has(seen[b].report, "oom-killed")

\* No container is examined twice, so its diagnosis stands.
Once ==
  /\ stage = "scan" => DOMAIN seen = {}
  /\ stage = "inspect" => targets # << >>
  /\ \A i \in 1..Len(targets) : targets[i] \notin DOMAIN seen
  /\ \A i, j \in 1..Len(targets) : i # j => targets[i] # targets[j]

\* The actions that may be taken on what has been seen.
Allowed == {a \in Act : a.box \in DOMAIN seen /\ ~LeftAlone(a.box)}
Result == [action : Allowed, status : {"done", "failed"}]

RemedyInv ==
  /\ RemedyTyped /\ Once
  /\ actions \in Seq(Allowed)
  /\ taken \in Seq(Result)
  /\ \A b \in DOMAIN seen : LeftAlone(b) => Suggest(b, Personal(b)) \subseteq suggestions

LEMMA InitRemedyInv == RemedyInit => RemedyInv
  <1> SUFFICES ASSUME RemedyInit PROVE RemedyInv
    OBVIOUS
  <1>1. DOMAIN seen = {} /\ targets = << >> /\ actions = << >> /\ taken = << >> /\ stage = "scan"
    BY DEF RemedyInit
  <1>2. /\ DOMAIN ward = Box
        /\ \A b \in Box : ward[b] = [facts |-> ward[b].facts, limit |-> ward[b].limit] /\ ward[b].limit \in Nat
    BY RemedyAssumption DEF RemedyInit
  <1>3. RemedyTyped /\ Once
    BY <1>1, <1>2 DEF RemedyTyped, Once, Stage
  <1>4. QED
    BY <1>1, <1>3 DEF RemedyInv

\* What has been seen stays as it is for the plan, whatever others do.
LEMMA SeenStays ==
  ASSUME RemedyTyped, Once, actions \in Seq(Allowed), taken \in Seq(Result), DOMAIN seen \subseteq DOMAIN seen',
         \A b \in DOMAIN seen : seen'[b].report = seen[b].report
  PROVE  /\ Allowed \subseteq Allowed' /\ actions \in Seq(Allowed') /\ taken \in Seq(Result')
         /\ \A b \in DOMAIN seen : Personal(b)' = Personal(b) /\ (LeftAlone(b)' <=> LeftAlone(b))
  <1>1. \A b \in DOMAIN seen : Personal(b)' = Personal(b) /\ (LeftAlone(b)' <=> LeftAlone(b))
    BY DEF Personal, LeftAlone
  <1>2. Allowed \subseteq Allowed'
    BY <1>1 DEF Allowed
  <1>3. Result \subseteq Result'
    BY <1>2 DEF Result
  <1>4. QED
    BY <1>1, <1>2, <1>3, SeqMonotonic

\* Steps of the call that leave seen alone.
LEMMA QuietRemedy ==
  ASSUME RemedyInv, RemedyTyped', Once', UNCHANGED seen, suggestions \subseteq suggestions',
         actions' \in Seq(Allowed), taken' \in Seq(Result)
  PROVE  RemedyInv'
  <1>1. /\ Allowed' = Allowed /\ Result' = Result
        /\ \A b \in DOMAIN seen : Personal(b)' = Personal(b) /\ (LeftAlone(b)' <=> LeftAlone(b))
    BY DEF Allowed, Result, Personal, LeftAlone
  <1>2. QED
    BY <1>1 DEF RemedyInv

LEMMA ScanRemedy ==
  ASSUME RemedyInv, Scan
  PROVE  RemedyInv'
  <1> DEFINE ill == {b \in Box : ward[b].facts # Removed /\ Diagnose(ward[b].facts).verdict # "healthy"}
  <1>1. /\ stage = "scan" /\ stage' = "examine" /\ targets' \in SetToSeqs(ill)
        /\ UNCHANGED <<ward, rules, report, actions, suggestions, taken, seen, turns>>
    BY DEF Scan
  <1>2. IsFiniteSet(ill) /\ Cardinality(ill) \in Nat /\ ill \subseteq Box
    BY RemedyAssumption, FS_Subset, FS_CardinalityType
  <1> HIDE DEF ill
  <1>3. /\ targets' \in [1..Cardinality(ill) -> ill]
        /\ \A i, j \in 1..Cardinality(ill) : i # j => targets'[i] # targets'[j]
    BY <1>1 DEF SetToSeqs
  <1>4. targets' \in Seq(Box) /\ Len(targets') = Cardinality(ill)
    <2>1. targets' \in [1..Cardinality(ill) -> Box]
      BY <1>2, <1>3
    <2>2. targets' \in Seq(Box)
      BY <1>2, <2>1, SeqDef
    <2>3. Len(targets') \in Nat /\ DOMAIN targets' = 1..Len(targets')
      BY <2>2, LenProperties
    <2>4. QED
      BY <1>2, <2>1, <2>2, <2>3
  <1>5. RemedyTyped'
    BY <1>1, <1>4 DEF RemedyInv, RemedyTyped, Stage
  <1>6. Once'
    BY <1>1, <1>3, <1>4 DEF RemedyInv, Once
  <1>7. QED
    BY <1>1, <1>5, <1>6, QuietRemedy DEF RemedyInv

LEMMA ExamineRemedy ==
  ASSUME RemedyInv, Examine
  PROVE  RemedyInv'
  <1>1. /\ stage = "examine" /\ targets # << >> /\ stage' \in {"inspect", "not found"}
        /\ UNCHANGED <<ward, rules, targets, actions, suggestions, taken, seen, turns>>
    BY DEF Examine
  <1>2. RemedyTyped' /\ Once'
    BY <1>1 DEF RemedyInv, RemedyTyped, Once, Stage
  <1>3. QED
    BY <1>1, <1>2, QuietRemedy DEF RemedyInv

LEMMA StartActingRemedy ==
  ASSUME RemedyInv, StartActing
  PROVE  RemedyInv'
  <1> DEFINE n == Min({MaxActions, Len(actions)})
  <1>1. /\ stage = "examine" /\ stage' = "act" /\ actions' = SubSeq(actions, 1, n)
        /\ UNCHANGED <<ward, rules, targets, report, suggestions, taken, seen, turns>>
    BY DEF StartActing
  <1>2. Len(actions) \in Nat /\ MaxActions \in Nat /\ \A i \in 1..Len(actions) : actions[i] \in Allowed
    BY RemedyAssumption, LenProperties, ElementOfSeq DEF RemedyInv
  <1>3. n \in Int /\ n <= Len(actions)
    <2>1. \E x \in {MaxActions, Len(actions)} : \A y \in {MaxActions, Len(actions)} : x <= y
      BY <1>2
    <2>2. n \in {MaxActions, Len(actions)} /\ \A y \in {MaxActions, Len(actions)} : n <= y
      BY <2>1 DEF Min
    <2>3. QED
      BY <1>2, <2>2
  <1> HIDE DEF n
  <1>4. \A i \in 1..n : actions[i] \in Allowed
    BY <1>2, <1>3
  <1>5. actions' \in Seq(Allowed)
    BY <1>1, <1>3, <1>4, SubSeqProperties
  <1>6. RemedyTyped' /\ Once'
    BY <1>1 DEF RemedyInv, RemedyTyped, Once, Stage
  <1>7. QED
    BY <1>1, <1>5, <1>6, QuietRemedy DEF RemedyInv

LEMMA ActRemedy ==
  ASSUME RemedyInv, Do \/ Fails
  PROVE  RemedyInv'
  <1>1. /\ stage = "act" /\ actions # << >> /\ actions' = Tail(actions)
        /\ \E s \in {"done", "failed"} : Took(Head(actions), s)
        /\ UNCHANGED <<rules, stage, targets, report, suggestions, seen, turns>>
    BY DEF Do, Fails
  <1>2. actions \in Seq(Allowed) /\ taken \in Seq(Result)
    BY DEF RemedyInv
  <1>3. Head(actions) \in Allowed /\ actions' \in Seq(Allowed)
    BY <1>1, <1>2, HeadTailProperties
  <1>4. Head(actions) \in Act
    BY <1>3 DEF Allowed
  <1>5. taken' \in Seq(Result)
    <2>1. PICK s \in {"done", "failed"} : taken' = Append(taken, [action |-> Head(actions), status |-> s])
      BY <1>1 DEF Took
    <2>2. [action |-> Head(actions), status |-> s] \in Result
      BY <1>3 DEF Result
    <2>3. QED
      BY <1>2, <2>1, <2>2, AppendProperties
  <1>6. /\ DOMAIN ward' = Box
        /\ \A b \in Box : ward'[b] = [facts |-> ward'[b].facts, limit |-> ward'[b].limit] /\ ward'[b].limit \in Nat
    <2> DEFINE a == Head(actions)
    <2>1. DOMAIN ward = Box /\ \A b \in Box : ward[b] = [facts |-> ward[b].facts, limit |-> ward[b].limit]
                                              /\ ward[b].limit \in Nat
      BY DEF RemedyInv, RemedyTyped
    <2>2. CASE Fails
      BY <2>1, <2>2 DEF Fails
    <2>3. CASE Do
      <3>1. PICK after \in Applied(a) : ward' = [ward EXCEPT ![a.box] = after]
        BY <2>3 DEF Do
      <3>2. a.box \in Box /\ a.limit \in Nat
        BY <1>4 DEF Act
      <3>3. \E f, l : l \in Nat /\ after = [facts |-> f, limit |-> l]
        <4>1. ward[a.box] = [facts |-> ward[a.box].facts, limit |-> ward[a.box].limit] /\ ward[a.box].limit \in Nat
          BY <2>1, <3>2
        <4>2. CASE a.rule = "raise-memory"
          <5>1. after = [ward[a.box] EXCEPT !.limit = a.limit]
            BY <3>1, <4>2 DEF Applied
          <5>2. after = [facts |-> ward[a.box].facts, limit |-> a.limit]
            BY <4>1, <5>1
          <5>3. QED
            BY <3>2, <5>2
        <4>3. CASE a.rule # "raise-memory"
          <5>1. PICK f \in Restarted(ward[a.box].facts, a.rule) : after = [ward[a.box] EXCEPT !.facts = f]
            BY <3>1, <4>3 DEF Applied
          <5>2. after = [facts |-> f, limit |-> ward[a.box].limit]
            BY <4>1, <5>1
          <5>3. QED
            BY <4>1, <5>2
        <4>4. QED
          BY <4>2, <4>3
      <3>4. after = [facts |-> after.facts, limit |-> after.limit] /\ after.limit \in Nat
        BY <3>3
      <3>5. QED
        BY <2>1, <3>1, <3>2, <3>4
    <2>4. QED
      BY <2>2, <2>3
  <1>7. RemedyTyped' /\ Once'
    BY <1>1, <1>6 DEF RemedyInv, RemedyTyped, Once
  <1>8. QED
    BY <1>1, <1>3, <1>5, <1>7, QuietRemedy DEF RemedyInv

LEMMA EndRemedy ==
  ASSUME RemedyInv, Denied \/ Return
  PROVE  RemedyInv'
  <1>1. stage = "act" /\ stage' \in {"denied", "over"} /\ UNCHANGED <<ward, targets, actions, suggestions, taken, seen>>
    BY DEF Denied, Return
  <1>2. RemedyTyped' /\ Once'
    BY <1>1 DEF RemedyInv, RemedyTyped, Once, Stage
  <1>3. QED
    BY <1>1, <1>2, QuietRemedy DEF RemedyInv

\* The plan for a container acts on that container only, and not at all when its
\* diagnosis leaves it to a person.
LEMMA PlanOfOne ==
  ASSUME NEW b \in Box, NEW r, NEW limit \in Nat
  PROVE  /\ Planned(b, r, limit) \in Seq({a \in Act : a.box = b})
         /\ Blocked(r) # {} /\ ~Has(r, "oom-killed") => Planned(b, r, limit) = << >>
  <1> DEFINE Its == {a \in Act : a.box = b}
             raise == IF Raises(b, r, limit) THEN <<Action(b, "raise-memory", Grown(limit))>> ELSE << >>
             start == <<Action(b, "start-exited", 0)>>
             restart == <<Action(b, "restart-unhealthy", 0)>>
  <1>1. Grown(limit) \in Nat
    BY DEF Grown
  <1>2. /\ Action(b, "raise-memory", Grown(limit)) \in Its /\ Action(b, "start-exited", 0) \in Its
        /\ Action(b, "restart-unhealthy", 0) \in Its
    BY <1>1 DEF Action, Act
  <1>3. raise \in Seq(Its) /\ start \in Seq(Its) /\ restart \in Seq(Its)
    <2> HIDE DEF Its
    <2>1. \A a \in Its : <<a>> \in Seq(Its)
      OBVIOUS
    <2>2. << >> \in Seq(Its)
      OBVIOUS
    <2>3. QED
      BY <1>2, <2>1, <2>2
  <1>4. ~Has(r, "oom-killed") => raise = << >> /\ ~RaisesAndStarts(b, r, limit)
    BY DEF Raises, RaisesAndStarts
  <1>5. Planned(b, r, limit) \in {raise, raise \o start, raise \o restart}
    BY DEF Planned
  <1>6. Blocked(r) # {} /\ ~RaisesAndStarts(b, r, limit) => Planned(b, r, limit) = raise
    BY DEF Planned
  <1> HIDE DEF raise, start, restart, Its
  <1>7. Planned(b, r, limit) \in Seq(Its)
    BY <1>3, <1>5, ConcatProperties
  <1>8. QED
    BY <1>4, <1>6, <1>7 DEF Its

LEMMA InspectRemedy ==
  ASSUME RemedyInv, InspectLimit
  PROVE  RemedyInv'
  <1>a. PICK b : b = Head(targets)
    OBVIOUS
  <1>b. PICK limit : limit = ward[b].limit
    OBVIOUS
  <1>c. PICK record : record = [report |-> report, limit |-> limit, calm |-> TRUE]
    OBVIOUS
  <1>1. stage = "inspect" /\ UNCHANGED <<ward, rules, report, taken, turns>>
    BY DEF InspectLimit
  <1>2. CASE ward[b].facts = Removed
    <2>1. stage' = "not found" /\ UNCHANGED <<targets, actions, suggestions, seen>>
      BY <1>a, <1>2 DEF InspectLimit
    <2>2. RemedyTyped' /\ Once'
      BY <1>1, <2>1 DEF RemedyInv, RemedyTyped, Once, Stage
    <2>3. QED
      BY <1>1, <2>1, <2>2, QuietRemedy DEF RemedyInv
  <1>3. CASE ward[b].facts # Removed
    <2>1. /\ stage' = "examine" /\ targets' = Tail(targets) /\ actions' = actions \o Planned(b, report, limit)
          /\ suggestions' = suggestions \cup Suggested(b, report, limit)
          /\ seen' = [x \in DOMAIN seen \cup {b} |-> IF x = b THEN record ELSE seen[x]]
      BY <1>3, <1>a, <1>b, <1>c DEF InspectLimit
    <2>2. /\ targets \in Seq(Box) /\ targets # << >> /\ b \in Box /\ targets' \in Seq(Box)
          /\ Len(targets) \in Nat /\ Len(targets) > 0 /\ b = targets[1]
          /\ Len(targets') = Len(targets) - 1 /\ \A i \in 1..Len(targets') : targets'[i] = targets[i + 1]
      BY <1>1, <1>a, <2>1, HeadTailProperties, LenProperties, EmptySeq DEF RemedyInv, RemedyTyped, Once
    <2>3. b \notin DOMAIN seen /\ limit \in Nat
      <3>1. 1 \in 1..Len(targets)
        BY <2>2
      <3>2. b \notin DOMAIN seen
        BY <2>2, <3>1 DEF RemedyInv, Once
      <3>3. QED
        BY <1>b, <2>2, <3>2 DEF RemedyInv, RemedyTyped
    <2>4. record = [report |-> record.report, limit |-> record.limit, calm |-> record.calm] /\ record.report = report
      BY <1>c
    <2>5. /\ DOMAIN seen' = DOMAIN seen \cup {b} /\ seen'[b] = record
          /\ \A x \in DOMAIN seen : seen'[x] = seen[x]
      BY <2>1, <2>3
    <2>6. RemedyTyped'
      BY <1>1, <2>1, <2>2, <2>4, <2>5 DEF RemedyInv, RemedyTyped, Stage
    <2>7. Once'
      <3>1. \A i \in 1..Len(targets') : i + 1 \in 1..Len(targets) /\ i + 1 # 1 /\ 1 \in 1..Len(targets)
        BY <2>2
      <3>2. \A i \in 1..Len(targets') : targets'[i] \notin DOMAIN seen'
        BY <2>2, <2>5, <3>1 DEF RemedyInv, Once
      <3>3. \A i, j \in 1..Len(targets') : i # j => targets'[i] # targets'[j]
        <4> SUFFICES ASSUME NEW i \in 1..Len(targets'), NEW j \in 1..Len(targets'), i # j
                     PROVE  targets'[i] # targets'[j]
          OBVIOUS
        <4>1. i + 1 # j + 1
          OBVIOUS
        <4>2. targets[i + 1] # targets[j + 1]
          BY <3>1, <4>1 DEF RemedyInv, Once
        <4>3. QED
          BY <2>2, <4>2
      <3>4. QED
        BY <2>1, <3>2, <3>3 DEF Once
    <2>8. /\ Allowed \subseteq Allowed' /\ actions \in Seq(Allowed') /\ taken \in Seq(Result')
          /\ \A x \in DOMAIN seen : Personal(x)' = Personal(x) /\ (LeftAlone(x)' <=> LeftAlone(x))
      BY <2>5, SeenStays DEF RemedyInv
    <2>9. Personal(b)' = Blocked(report) /\ (LeftAlone(b)' <=> Blocked(report) # {} /\ ~Has(report, "oom-killed"))
      <3>1. seen'[b].report = report
        BY <2>4, <2>5
      <3>2. QED
        BY <3>1 DEF Personal, LeftAlone, Blocked
    <2>10. Planned(b, report, limit) \in Seq(Allowed')
      <3>1. CASE Blocked(report) # {} /\ ~Has(report, "oom-killed")
        BY <2>2, <2>3, <3>1, PlanOfOne, EmptySeq
      <3>2. CASE ~(Blocked(report) # {} /\ ~Has(report, "oom-killed"))
        <4>1. b \in DOMAIN seen' /\ ~LeftAlone(b)'
          BY <2>5, <2>9, <3>2
        <4>2. {a \in Act : a.box = b} \subseteq Allowed'
          BY <4>1 DEF Allowed
        <4>3. Planned(b, report, limit) \in Seq({a \in Act : a.box = b})
          BY <2>2, <2>3, PlanOfOne
        <4>4. QED
          BY <4>2, <4>3, SeqMonotonic
      <3>3. QED
        BY <3>1, <3>2
    <2>11. actions' \in Seq(Allowed')
      BY <2>1, <2>8, <2>10, ConcatProperties
    <2>12. \A x \in DOMAIN seen' : LeftAlone(x)' => Suggest(x, Personal(x)') \subseteq suggestions'
      <3> SUFFICES ASSUME NEW x \in DOMAIN seen', LeftAlone(x)' PROVE Suggest(x, Personal(x)') \subseteq suggestions'
        OBVIOUS
      <3>1. CASE x # b
        BY <2>1, <2>5, <2>8, <3>1 DEF RemedyInv
      <3>2. CASE x = b
        <4>1. ~Has(report, "oom-killed")
          BY <2>9, <3>2
        <4>2. Suggest(b, Blocked(report)) \subseteq Suggested(b, report, limit)
          BY <4>1 DEF Suggested, RaisesAndStarts, Raises
        <4>3. Personal(x)' = Blocked(report)
          BY <2>9, <3>2
        <4>4. QED
          BY <2>1, <3>2, <4>2, <4>3
      <3>3. QED
        BY <3>1, <3>2
    <2>13. QED
      BY <1>1, <2>6, <2>7, <2>8, <2>11, <2>12 DEF RemedyInv, Suggest
  <1>4. QED
    BY <1>2, <1>3

LEMMA OthersRemedy ==
  ASSUME RemedyInv, NEW b \in Box, Others(b)
  PROVE  RemedyInv'
  <1>1. PICK to : /\ Disturb(b, to)
                  /\ \/ \E f : to = [ward[b] EXCEPT !.facts = f]
                     \/ \E m \in Memory : to = [ward[b] EXCEPT !.limit = m]
    BY DEF Others
  <1>2. /\ ward' = [ward EXCEPT ![b] = to]
        /\ seen' = [x \in DOMAIN seen |-> IF x = b THEN [seen[x] EXCEPT !.calm = FALSE] ELSE seen[x]]
        /\ UNCHANGED <<rules, stage, targets, report, actions, suggestions, taken>>
    BY <1>1 DEF Disturb
  <1>3. \A x \in Box : ward[x] = [facts |-> ward[x].facts, limit |-> ward[x].limit] /\ ward[x].limit \in Nat
    BY DEF RemedyInv, RemedyTyped
  <1>4. \E f, l : l \in Nat /\ to = [facts |-> f, limit |-> l]
    <2>1. ward[b] = [facts |-> ward[b].facts, limit |-> ward[b].limit] /\ ward[b].limit \in Nat
      BY <1>3
    <2>2. CASE \E f : to = [ward[b] EXCEPT !.facts = f]
      <3>1. PICK f : to = [ward[b] EXCEPT !.facts = f]
        BY <2>2
      <3>2. to = [facts |-> f, limit |-> ward[b].limit]
        BY <2>1, <3>1
      <3>3. QED
        BY <2>1, <3>2
    <2>3. CASE \E m \in Memory : to = [ward[b] EXCEPT !.limit = m]
      <3>1. PICK m \in Memory : to = [ward[b] EXCEPT !.limit = m]
        BY <2>3
      <3>2. to = [facts |-> ward[b].facts, limit |-> m] /\ m \in Nat
        BY <2>1, <3>1, RemedyAssumption
      <3>3. QED
        BY <3>2
    <2>4. QED
      BY <1>1, <2>2, <2>3
  <1>5. to = [facts |-> to.facts, limit |-> to.limit] /\ to.limit \in Nat
    BY <1>4
  <1>6. \A x \in DOMAIN seen : seen[x] = [report |-> seen[x].report, limit |-> seen[x].limit, calm |-> seen[x].calm]
    BY DEF RemedyInv, RemedyTyped
  <1>7. DOMAIN seen' = DOMAIN seen
    BY <1>2
  <1>8. \A x \in DOMAIN seen : /\ seen'[x] = [report |-> seen'[x].report, limit |-> seen'[x].limit, calm |-> seen'[x].calm]
                               /\ seen'[x].report = seen[x].report
    <2> SUFFICES ASSUME NEW x \in DOMAIN seen
                 PROVE  /\ seen'[x] = [report |-> seen'[x].report, limit |-> seen'[x].limit, calm |-> seen'[x].calm]
                        /\ seen'[x].report = seen[x].report
      OBVIOUS
    <2>1. CASE x # b
      BY <1>2, <1>6, <2>1
    <2>2. CASE x = b
      <3>1. seen'[x] = [seen[x] EXCEPT !.calm = FALSE]
        BY <1>2, <2>2
      <3>2. seen'[x] = [report |-> seen[x].report, limit |-> seen[x].limit, calm |-> FALSE]
        BY <1>6, <3>1
      <3>3. QED
        BY <3>2
    <2>3. QED
      BY <2>1, <2>2
  <1>9. RemedyTyped'
    <2>1. DOMAIN ward' = Box
      BY <1>2 DEF RemedyInv, RemedyTyped
    <2>2. \A x \in Box : ward'[x] = [facts |-> ward'[x].facts, limit |-> ward'[x].limit] /\ ward'[x].limit \in Nat
      BY <1>2, <1>3, <1>5 DEF RemedyInv, RemedyTyped
    <2>3. QED
      BY <1>2, <1>7, <1>8, <2>1, <2>2 DEF RemedyInv, RemedyTyped
  <1>10. Once'
    BY <1>2, <1>7 DEF RemedyInv, Once
  <1>11. /\ actions' \in Seq(Allowed') /\ taken' \in Seq(Result')
         /\ \A x \in DOMAIN seen : Personal(x)' = Personal(x) /\ (LeftAlone(x)' <=> LeftAlone(x))
    BY <1>2, <1>7, <1>8, SeenStays DEF RemedyInv
  <1>12. QED
    BY <1>2, <1>7, <1>9, <1>10, <1>11 DEF RemedyInv, Suggest

LEMMA NextRemedyInv == RemedyInv /\ [RemedyNext]_remedyVars => RemedyInv'
  <1> SUFFICES ASSUME RemedyInv, [RemedyNext]_remedyVars PROVE RemedyInv'
    OBVIOUS
  <1>1. CASE UNCHANGED remedyVars
    BY <1>1 DEF remedyVars, RemedyInv, RemedyTyped, Once, Allowed, Result, LeftAlone, Personal
  <1>2. QED
    BY <1>1, ScanRemedy, ExamineRemedy, InspectRemedy, StartActingRemedy, ActRemedy, EndRemedy, OthersRemedy
       DEF RemedyNext

\* A container whose diagnosis names a cause that needs a person is left alone,
\* with a suggestion for each such cause - unless it was killed for its memory.
THEOREM PersonHasDecided == RemedySpec => []PersonDecides
  <1>1. RemedyInv => PersonDecides
    <2> SUFFICES ASSUME RemedyInv, NEW b \in DOMAIN seen, LeftAlone(b)
                 PROVE  Upon(b) = {} /\ Suggest(b, Personal(b)) \subseteq suggestions
      BY DEF PersonDecides, LeftAlone, Personal
    <2>1. \A i \in DOMAIN taken : taken[i] \in Result
      BY LenProperties, ElementOfSeq DEF RemedyInv
    <2>2. \A i \in DOMAIN taken : taken[i].action.box # b
      BY <2>1 DEF Result, Allowed
    <2>3. QED
      BY <2>2 DEF Upon, RemedyInv
  <1>2. QED
    BY <1>1, InitRemedyInv, NextRemedyInv, PTL DEF RemedySpec

----------------------------------------------------------------------------
(* The commands of a database service.                                     *)

Starting == {"init", "temporary", "swap"}
Polling == {"inspect", "logs", "probe"}
Called == {"clone", "advise", "ready", "grant", "grant other", "revoke", "query"}

Me == [at : {"idle", "create", "start", "load", "remove", "exists", "alter", "prove", "read", "write", "drop",
             "access", "login"} \cup Polling,
       cmd : {"clone", "advise", "ready", "grant", "grant other", "revoke", "query"},
       pending : BOOLEAN, green : BOOLEAN, pw : Nat, file : [1..2 -> Nat], had : BOOLEAN,
       said : {"nothing", "error", "ready", "not ready", "cloned", "advised", "granted", "revoked", "as owner",
               "as role"}, alone : BOOLEAN]

\* Only the first start of a server has an initialization that is not complete.
BoxOK ==
  /\ box \in [phase : {"none", "off", "boot", "real"} \cup Starting, data : BOOLEAN, log : SUBSET {"started", "complete"}]
  /\ box.phase \in Starting => "started" \in box.log /\ "complete" \notin box.log
  /\ box.phase \in {"temporary", "swap", "real"} => box.data
  /\ ~box.data => "complete" \notin box.log

\* A process that has made the container, which no other can remove; and one that
\* looks at the container it began with.
Owns(m) == m.cmd \in {"clone", "advise"} /\ m.at \in {"start", "load", "remove"} \cup Polling
Watches(m) == m.at \in Polling /\ (Owns(m) \/ m.alone)

\* Which command does what.
Serves(m) ==
  /\ m.at \in {"create", "start", "load"} => m.cmd \in {"clone", "advise"}
  /\ m.at = "remove" => m.cmd = "advise"
  /\ m.at \in Polling => m.cmd \in {"clone", "advise", "ready"}
  /\ m.at \in {"exists", "alter", "prove"} => m.cmd = "grant"
  /\ m.at \in {"read", "write"} => m.cmd \in {"grant", "grant other", "revoke"}
  /\ m.at = "drop" => m.cmd = "revoke"
  /\ m.at # "idle" => m.said = "nothing"
  /\ m.at \in {"create", "start"} => ~m.green

\* Once a probe has passed the data directory is initialized, so that a server
\* that is starting is seen in the log at the next poll.
PollOK(m) ==
  /\ Owns(m) \/ Watches(m) => box.phase # "none"
  /\ Watches(m) /\ m.green => /\ box.data
                              /\ m.at = "probe" /\ ~m.pending => box.phase \notin Starting

\* The password of a grant is in use as long as no other has changed the role.
GrantOK(m) ==
  /\ m.said = "granted" => role # 0 /\ creds[1] = role
  /\ m.cmd = "grant" /\ m.at \in {"prove", "read", "write"} /\ m.alone => m.pw = role /\ m.pw # 0

ServiceInv ==
  /\ BoxOK /\ role \in Nat /\ creds \in [1..2 -> Nat]
  /\ me \in [Process -> Me]
  /\ \A p \in Process : Serves(me[p]) /\ PollOK(me[p]) /\ GrantOK(me[p])
  /\ \A p, q \in Process : Owns(me[p]) /\ Owns(me[q]) => p = q

LEMMA ImageBound ==
  ASSUME NEW f, NEW S, IsFiniteSet(S)
  PROVE  IsFiniteSet({f[x] : x \in S}) /\ Cardinality({f[x] : x \in S}) <= Cardinality(S)
  <1> DEFINE g == [x \in S |-> f[x]]
             T == {f[x] : x \in S}
  <1>1. g \in Surjection(S, T)
    BY DEF Surjection
  <1>2. QED
    BY <1>1, FS_Surjection

LEMMA UnionBound ==
  ASSUME NEW S, NEW T, IsFiniteSet(S), IsFiniteSet(T), NEW m \in Nat, NEW n \in Nat,
         Cardinality(S) <= m, Cardinality(T) <= n
  PROVE  IsFiniteSet(S \cup T) /\ Cardinality(S \cup T) <= m + n
  <1>1. IsFiniteSet(S \cup T) /\ Cardinality(S \cup T) = Cardinality(S) + Cardinality(T) - Cardinality(S \cap T)
    BY FS_Union
  <1>2. IsFiniteSet(S \cap T)
    BY FS_Subset
  <1>3. Cardinality(S) \in Nat /\ Cardinality(T) \in Nat /\ Cardinality(S \cap T) \in Nat
    BY <1>2, FS_CardinalityType
  <1>4. QED
    BY <1>1, <1>3

LEMMA ThreeBound ==
  ASSUME NEW x, NEW y, NEW z
  PROVE  IsFiniteSet({x, y, z}) /\ Cardinality({x, y, z}) <= 3
  <1>1. PICK n \in Nat : n = 3
    OBVIOUS
  <1> DEFINE f == [i \in 1..n |-> IF i = 1 THEN x ELSE IF i = 2 THEN y ELSE z]
  <1>2. \A v \in {x, y, z} : \E i \in 1..n : f[i] = v
    <2>1. 1 \in 1..n /\ 2 \in 1..n /\ 3 \in 1..n
      BY <1>1
    <2>2. f[1] = x /\ f[2] = y /\ f[3] = z
      BY <2>1
    <2>3. QED
      BY <2>1, <2>2
  <1>3. f \in [1..n -> {x, y, z}]
    OBVIOUS
  <1>4. f \in Surjection(1..n, {x, y, z})
    BY <1>2, <1>3 DEF Surjection
  <1>5. IsFiniteSet(1..n) /\ Cardinality(1..n) = n
    BY FS_Interval
  <1>6. IsFiniteSet({x, y, z}) /\ Cardinality({x, y, z}) <= Cardinality(1..n)
    BY <1>4, <1>5, FS_Surjection
  <1>7. QED
    BY <1>1, <1>5, <1>6

\* There is always a password that is nowhere in use.
LEMMA NewPassword == ServiceInv => New \in Nat \ {0}
  <1> SUFFICES ASSUME ServiceInv PROVE New \in Nat \ {0}
    OBVIOUS
  <1> DEFINE c == Cardinality(Process)
             pw == [p \in Process |-> me[p].pw]
             one == [p \in Process |-> me[p].file[1]]
             two == [p \in Process |-> me[p].file[2]]
             K == 1..(c * 3 + 4)
             A == {pw[p] : p \in Process}
             B == {one[p] : p \in Process}
             D == {two[p] : p \in Process}
             R == {role, creds[1], creds[2]}
  <1>1. c \in Nat /\ IsFiniteSet(Process)
    BY ServiceAssumption, FS_CardinalityType
  <1>2. Passwords = R \cup (A \cup (B \cup D))
    BY DEF Passwords
  <1>3. IsFiniteSet(A) /\ Cardinality(A) <= c
    BY <1>1, ImageBound
  <1>4. IsFiniteSet(B) /\ Cardinality(B) <= c
    BY <1>1, ImageBound
  <1>5. IsFiniteSet(D) /\ Cardinality(D) <= c
    BY <1>1, ImageBound
  <1>6. IsFiniteSet(R) /\ Cardinality(R) <= 3
    BY ThreeBound
  <1> HIDE DEF A, B, D, R, c
  <1>7. IsFiniteSet(B \cup D) /\ Cardinality(B \cup D) <= c + c
    BY <1>1, <1>4, <1>5, UnionBound
  <1>8. c + c \in Nat /\ c + (c + c) \in Nat /\ 3 + (c + (c + c)) \in Nat
    BY <1>1
  <1>9. IsFiniteSet(A \cup (B \cup D)) /\ Cardinality(A \cup (B \cup D)) <= c + (c + c)
    BY <1>1, <1>3, <1>7, <1>8, UnionBound
  <1>10. IsFiniteSet(Passwords) /\ Cardinality(Passwords) <= 3 + (c + (c + c))
    BY <1>2, <1>6, <1>8, <1>9, UnionBound
  <1>11. Cardinality(K) = c * 3 + 4
    BY <1>1, FS_Interval
  <1>12. ~(K \subseteq Passwords)
    <2> SUFFICES ASSUME K \subseteq Passwords PROVE FALSE
      OBVIOUS
    <2>1. Cardinality(K) <= Cardinality(Passwords)
      BY <1>10, FS_Subset
    <2>2. Cardinality(Passwords) \in Nat
      BY <1>10, FS_CardinalityType
    <2>3. QED
      BY <1>1, <1>10, <1>11, <2>1, <2>2
  <1>13. New \in K
    <2>1. \E n \in K : n \notin Passwords
      BY <1>12
    <2>2. QED
      BY <2>1 DEF New, c
  <1>14. QED
    BY <1>1, <1>13

LEMMA InitServiceInv == ServiceInit => ServiceInv
  <1> SUFFICES ASSUME ServiceInit PROVE ServiceInv
    OBVIOUS
  <1>1. BoxOK
    <2>1. CASE box = NoBox
      BY <2>1 DEF BoxOK, NoBox, Starting
    <2>2. CASE box = [NoBox EXCEPT !.phase = "real", !.data = TRUE]
      <3>1. box = [phase |-> "real", data |-> TRUE, log |-> {}]
        BY <2>2 DEF NoBox
      <3>2. QED
        BY <3>1 DEF BoxOK, Starting
    <2>3. QED
      BY <2>1, <2>2 DEF ServiceInit
  <1>2. Idle("query", "nothing", TRUE) \in Me
    BY DEF Idle, Me, Polling
  <1>3. me \in [Process -> Me] /\ \A p \in Process : me[p].at = "idle" /\ me[p].said = "nothing"
    BY <1>2 DEF ServiceInit, Idle
  <1>4. role \in Nat /\ creds \in [1..2 -> Nat]
    BY DEF ServiceInit
  <1>5. QED
    BY <1>1, <1>3, <1>4 DEF ServiceInv, Serves, PollOK, GrantOK, Owns, Watches, Polling

Phase == {"none", "off", "boot", "real"} \cup Starting
Saying == {"nothing", "error", "ready", "not ready", "cloned", "advised", "granted", "revoked", "as owner", "as role"}

\* What may become of the container while someone looks at it.
BoxStep ==
  \/ box.phase = "none"
  \/ /\ box'.phase # "none" /\ (box.data => box'.data)
     /\ box.data /\ box.phase \notin Starting => box'.phase \notin Starting

LEMMA PollStays ==
  ASSUME BoxStep, NEW m, PollOK(m)
  PROVE  PollOK(m)'
  BY DEF BoxStep, PollOK, Owns, Watches

\* One process goes on; the role and the file stay as they are.
LEMMA OneMoves ==
  ASSUME ServiceInv, BoxOK', BoxStep, UNCHANGED <<role, creds>>, NEW p \in Process, NEW m \in Me,
         me' = [me EXCEPT ![p] = m], Serves(m), PollOK(m)', GrantOK(m),
         Owns(m) => Owns(me[p]) \/ box.phase = "none"
  PROVE  ServiceInv'
  <1>1. me \in [Process -> Me] /\ me' \in [Process -> Me] /\ me'[p] = m /\ \A x \in Process \ {p} : me'[x] = me[x]
    BY DEF ServiceInv
  <1>2. ASSUME NEW x \in Process PROVE Serves(me[x])' /\ PollOK(me[x])' /\ GrantOK(me[x])'
    <2>1. CASE x = p
      BY <1>1, <2>1 DEF Serves, PollOK, GrantOK, Owns, Watches
    <2>2. CASE x # p
      <3>1. PICK n : n = me[x]
        OBVIOUS
      <3>2. PollOK(n) /\ me'[x] = n
        BY <1>1, <2>2, <3>1 DEF ServiceInv
      <3>3. PollOK(n)'
        BY <3>2, PollStays
      <3>4. PollOK(me[x])'
        BY <3>2, <3>3 DEF PollOK, Owns, Watches
      <3>5. QED
        BY <1>1, <2>2, <3>4 DEF ServiceInv, GrantOK, Serves
    <2>3. QED
      BY <2>1, <2>2
  <1>3. \A x, y \in Process : Owns(me[x])' /\ Owns(me[y])' => x = y
    <2>1. box.phase = "none" => \A x \in Process : ~Owns(me[x])
      BY DEF ServiceInv, PollOK
    <2>2. QED
      BY <1>1, <2>1 DEF ServiceInv, Owns
  <1>4. QED
    BY <1>1, <1>2, <1>3 DEF ServiceInv

LEMMA ZeroPair == <<0, 0>> \in [1..2 -> Nat]
  OBVIOUS

LEMMA IdleIs ==
  ASSUME NEW c \in Called, NEW s \in Saying
  PROVE  /\ Idle(c, s, TRUE) \in Me /\ Idle(c, s, TRUE).at = "idle" /\ Idle(c, s, TRUE).said = s
         /\ Idle(c, s, TRUE).cmd = c /\ Idle(c, s, TRUE).alone /\ ~Idle(c, s, TRUE).green
  <1>1. PICK f \in [1..2 -> Nat] : f = <<0, 0>>
    BY ZeroPair
  <1>2. PICK m : m = Idle(c, s, TRUE)
    OBVIOUS
  <1>3. m = [at |-> "idle", cmd |-> c, pending |-> FALSE, green |-> FALSE, pw |-> 0, file |-> f,
             had |-> FALSE, said |-> s, alone |-> TRUE]
    BY <1>1, <1>2 DEF Idle
  <1>4. m \in Me
    BY <1>3 DEF Me, Saying, Called
  <1>5. m.at = "idle" /\ m.said = s /\ m.cmd = c /\ m.alone /\ ~m.green
    BY <1>3
  <1>6. QED
    BY <1>2, <1>4, <1>5

\* No process goes on.
LEMMA NoneMoves ==
  ASSUME ServiceInv, BoxOK', BoxStep, UNCHANGED <<role, creds, me>>
  PROVE  ServiceInv'
  <1>1. ASSUME NEW x \in Process PROVE PollOK(me[x])'
    <2>1. PICK n : n = me[x]
      OBVIOUS
    <2>2. PollOK(n)'
      BY <2>1, PollStays DEF ServiceInv
    <2>3. QED
      BY <2>1, <2>2 DEF PollOK, Owns, Watches
  <1>2. QED
    BY <1>1 DEF ServiceInv, GrantOK, Serves, Owns

\* One process changes the role or the file, or removes its container.
LEMMA OneInterferes ==
  ASSUME ServiceInv, BoxOK', role' \in Nat, creds' \in [1..2 -> Nat], NEW p \in Process, NEW m \in Me,
         Interferes(p, m), Serves(m), PollOK(m)', GrantOK(m)', Owns(m) => Owns(me[p]),
         box' = box \/ Owns(me[p])
  PROVE  ServiceInv'
  <1> DEFINE rest == Idle("query", "nothing", TRUE)
  <1>1. rest \in Me /\ rest.at = "idle" /\ rest.said = "nothing"
    BY IdleIs DEF Saying, Called
  <1>2. me \in [Process -> Me]
    BY DEF ServiceInv
  <1>3. me' = [x \in Process |-> IF x = p THEN m ELSE IF me[x].at = "idle" THEN rest ELSE [me[x] EXCEPT !.alone = FALSE]]
    BY DEF Interferes
  <1> HIDE DEF rest
  <1>4. ASSUME NEW x \in Process
        PROVE  /\ me'[x] \in Me /\ Serves(me[x])' /\ PollOK(me[x])' /\ GrantOK(me[x])'
               /\ Owns(me[x])' => Owns(me[x])
    <2>1. CASE x = p
      <3>1. me'[x] = m
        BY <1>3, <2>1
      <3>2. QED
        BY <2>1, <3>1 DEF Serves, PollOK, GrantOK, Owns, Watches
    <2>2. CASE x # p /\ me[x].at = "idle"
      <3>1. me'[x] = rest
        BY <1>3, <2>2
      <3>2. QED
        BY <1>1, <3>1 DEF Serves, PollOK, GrantOK, Owns, Watches, Polling
    <2>3. CASE x # p /\ me[x].at # "idle"
      <3>1. me'[x] = [me[x] EXCEPT !.alone = FALSE]
        BY <1>3, <2>3
      <3>2. /\ me'[x] \in Me /\ me'[x].at = me[x].at /\ me'[x].cmd = me[x].cmd /\ me'[x].said = me[x].said
            /\ me'[x].green = me[x].green /\ me'[x].pending = me[x].pending /\ ~me'[x].alone
        BY <1>2, <3>1 DEF Me
      <3>3. Serves(me[x]) /\ PollOK(me[x]) /\ (Owns(me[x]) => box' = box) /\ (Owns(me[x])' => Owns(me[x]))
        BY <2>3, <3>2 DEF ServiceInv, Owns
      <3>4. Serves(me[x])' /\ me'[x].said = "nothing"
        BY <2>3, <3>2, <3>3 DEF Serves
      <3>5. PollOK(me[x])'
        BY <3>2, <3>3 DEF PollOK, Owns, Watches
      <3>6. GrantOK(me[x])'
        BY <3>2, <3>4 DEF GrantOK
      <3>7. QED
        BY <3>2, <3>3, <3>4, <3>5, <3>6
    <2>4. QED
      BY <2>1, <2>2, <2>3
  <1>5. me' \in [Process -> Me]
    <2>1. me' = [x \in Process |-> me'[x]]
      BY <1>3
    <2>2. QED
      BY <1>4, <2>1
  <1>6. QED
    BY <1>4, <1>5 DEF ServiceInv

\* The report of a command that ends.
LEMMA EndsWith ==
  ASSUME ServiceInv, NEW p \in Process, NEW said \in Saying
  PROVE  /\ Ends(p, said) \in Me /\ Ends(p, said).at = "idle"
         /\ Ends(p, said).said = IF me[p].alone THEN said ELSE "nothing"
  <1>1. me[p] \in Me
    BY DEF ServiceInv
  <1>2. me[p].cmd \in Called
    BY <1>1 DEF Me, Called
  <1>3. "nothing" \in Saying /\ "query" \in Called
    BY DEF Saying, Called
  <1>4. Ends(p, said) = IF me[p].alone THEN Idle(me[p].cmd, said, TRUE) ELSE Idle("query", "nothing", TRUE)
    BY DEF Ends
  <1>5. Idle(me[p].cmd, said, TRUE) \in Me /\ Idle(me[p].cmd, said, TRUE).at = "idle"
        /\ Idle(me[p].cmd, said, TRUE).said = said
    BY <1>2, IdleIs
  <1>6. Idle("query", "nothing", TRUE) \in Me /\ Idle("query", "nothing", TRUE).at = "idle"
        /\ Idle("query", "nothing", TRUE).said = "nothing"
    BY <1>3, IdleIs
  <1>7. QED
    BY <1>4, <1>5, <1>6

LEMMA IdleIsGood ==
  ASSUME NEW m \in Me, m.at = "idle", m.said # "granted"
  PROVE  Serves(m) /\ PollOK(m) /\ PollOK(m)' /\ GrantOK(m) /\ GrantOK(m)' /\ ~Owns(m)
  BY DEF Serves, PollOK, GrantOK, Owns, Watches, Polling

\* A command ends, without a grant.
LEMMA EndService ==
  ASSUME ServiceInv, NEW p \in Process, NEW said \in Saying \ {"granted"}, GoesOn(p, Ends(p, said))
  PROVE  ServiceInv'
  <1>1. PICK m : m = Ends(p, said)
    OBVIOUS
  <1>2. m \in Me /\ m.at = "idle" /\ m.said # "granted"
    BY <1>1, EndsWith
  <1>3. UNCHANGED <<box, role, creds>> /\ me' = [me EXCEPT ![p] = m]
    BY <1>1 DEF GoesOn, Moves
  <1>4. BoxOK' /\ BoxStep
    BY <1>3 DEF ServiceInv, BoxOK, BoxStep
  <1>5. QED
    BY <1>2, <1>3, <1>4, OneMoves, IdleIsGood

\* What a process does next.
LEMMA GoingOn ==
  ASSUME ServiceInv, NEW p \in Process,
         NEW at \in {"idle", "create", "start", "load", "remove", "exists", "alter", "prove", "read", "write", "drop",
                     "access", "login"} \cup Polling
  PROVE  /\ On(p, at) \in Me /\ On(p, at).at = at /\ On(p, at).cmd = me[p].cmd /\ On(p, at).said = me[p].said
         /\ On(p, at).green = me[p].green /\ On(p, at).pending = me[p].pending /\ On(p, at).pw = me[p].pw
         /\ On(p, at).alone = me[p].alone /\ On(p, at).file = me[p].file
         /\ me[p] \in Me /\ Serves(me[p]) /\ PollOK(me[p]) /\ GrantOK(me[p])
  BY DEF On, Me, ServiceInv

LEMMA AnswerService ==
  ASSUME ServiceInv, NEW p \in Process, me[p].at \in Polling, NEW ok \in BOOLEAN, GoesOn(p, Answered(p, ok))
  PROVE  ServiceInv'
  <1>1. Serves(me[p]) /\ PollOK(me[p])
    BY DEF ServiceInv
  <1>2. me[p].cmd \in {"clone", "advise", "ready"} /\ me[p].said = "nothing"
    BY <1>1 DEF Serves, Polling
  <1>3. CASE Answered(p, ok) \in {Ends(p, "ready"), Ends(p, "not ready")}
    BY <1>3, EndService DEF Saying
  <1>4. CASE \E at \in {"load", "remove"} : Answered(p, ok) = On(p, at)
                  /\ me[p].cmd \in {"clone", "advise"} /\ (at = "remove" => me[p].cmd = "advise")
    <2>1. PICK at \in {"load", "remove"} : Answered(p, ok) = On(p, at)
                  /\ me[p].cmd \in {"clone", "advise"} /\ (at = "remove" => me[p].cmd = "advise")
      BY <1>4
    <2>2. PICK m : m = On(p, at)
      OBVIOUS
    <2>3. m \in Me /\ m.at = at /\ m.cmd = me[p].cmd /\ m.said = "nothing"
      BY <1>2, <2>2, GoingOn
    <2>4. UNCHANGED <<box, role, creds>> /\ me' = [me EXCEPT ![p] = m]
      BY <2>1, <2>2 DEF GoesOn, Moves
    <2>5. BoxOK' /\ BoxStep
      BY <2>4 DEF ServiceInv, BoxOK, BoxStep
    <2>6. Owns(me[p]) /\ box.phase # "none"
      BY <1>1, <2>1 DEF Owns, PollOK
    <2>7. Serves(m) /\ PollOK(m)' /\ GrantOK(m)
      BY <2>1, <2>3, <2>4, <2>6 DEF Serves, PollOK, GrantOK, Watches, Polling
    <2>8. QED
      BY <2>3, <2>4, <2>5, <2>6, <2>7, OneMoves
  <1>5. QED
    BY <1>2, <1>3, <1>4 DEF Answered

LEMMA RaiseService ==
  ASSUME ServiceInv, NEW p \in Process, Raise(p)
  PROVE  ServiceInv'
  BY EndService DEF Raise, Saying

\* A process goes on as m, seeing the container as it is.
LEMMA GoOnService ==
  ASSUME ServiceInv, NEW p \in Process, NEW m \in Me, GoesOn(p, m), Serves(m), PollOK(m), GrantOK(m),
         Owns(m) => Owns(me[p])
  PROVE  ServiceInv'
  <1>1. UNCHANGED <<box, role, creds>> /\ me' = [me EXCEPT ![p] = m]
    BY DEF GoesOn, Moves
  <1>2. BoxOK' /\ BoxStep /\ PollOK(m)'
    BY <1>1 DEF ServiceInv, BoxOK, BoxStep, PollOK
  <1>3. QED
    BY <1>1, <1>2, OneMoves

LEMMA BeginService ==
  ASSUME ServiceInv, NEW p \in Process, BeginCommand(p)
  PROVE  ServiceInv'
  <1>1. PICK c \in Command :
          /\ c \notin {"clone", "advise"} => box.phase # "none"
          /\ me' = [me EXCEPT ![p] = [Idle(c, "nothing", TRUE) EXCEPT !.at = First(c),
                                                                    !.pw = IF c = "grant other" THEN New ELSE 0]]
    BY DEF BeginCommand
  <1>2. PICK pw : pw = IF c = "grant other" THEN New ELSE 0
    OBVIOUS
  <1>3. PICK m : m = [Idle(c, "nothing", TRUE) EXCEPT !.at = First(c), !.pw = pw]
    OBVIOUS
  <1>4. PICK r : r = Idle(c, "nothing", TRUE)
    OBVIOUS
  <1>5. c \in Called /\ pw \in Nat
    BY <1>2, NewPassword, ServiceAssumption DEF Called
  <1>6. r \in Me /\ r.said = "nothing" /\ r.cmd = c /\ ~r.green
    <2>1. "nothing" \in Saying
      BY DEF Saying
    <2>2. QED
      BY <1>4, <1>5, <2>1, IdleIs
  <1>7. First(c) \in {"create", "inspect", "exists", "read", "drop", "access"}
    BY <1>5 DEF First, Called
  <1>8. m \in Me /\ m.at = First(c) /\ m.said = "nothing" /\ m.cmd = c /\ ~m.green
    <2>1. PICK at : at = First(c)
      OBVIOUS
    <2>2. m = [r EXCEPT !.at = at, !.pw = pw]
      BY <1>3, <1>4, <2>1
    <2>3. at \in {"create", "inspect", "exists", "read", "drop", "access"}
      BY <1>7, <2>1
    <2>4. QED
      BY <1>5, <1>6, <2>1, <2>2, <2>3 DEF Me, Polling
  <1>9. UNCHANGED <<box, role, creds>> /\ me' = [me EXCEPT ![p] = m]
    BY <1>1, <1>2, <1>3 DEF BeginCommand
  <1>10. BoxOK' /\ BoxStep
    BY <1>9 DEF ServiceInv, BoxOK, BoxStep
  <1>11. Serves(m) /\ ~Owns(m)
    BY <1>5, <1>8 DEF Serves, Owns, First, Polling, Called
  <1>12. GrantOK(m)
    BY <1>5, <1>8 DEF GrantOK, First, Called
  <1>13. PollOK(m)'
    BY <1>1, <1>5, <1>8, <1>9, <1>11 DEF PollOK, Watches, Polling, First, Called
  <1>14. QED
    BY <1>8, <1>9, <1>10, <1>11, <1>12, <1>13, OneMoves

LEMMA CreateService ==
  ASSUME ServiceInv, NEW p \in Process, Create(p)
  PROVE  ServiceInv'
  <1>1. CASE box.phase # "none"
    BY <1>1, RaiseService DEF Create
  <1>2. CASE box.phase = "none"
    <2>1. PICK m : m = On(p, "start")
      OBVIOUS
    <2>2. m \in Me /\ m.at = "start" /\ m.cmd = me[p].cmd /\ m.said = me[p].said /\ m.green = me[p].green
          /\ Serves(me[p])
      BY <2>1, GoingOn
    <2>3. At(p, "create") /\ UNCHANGED <<role, creds>> /\ me' = [me EXCEPT ![p] = m]
          /\ box' = [phase |-> "off", data |-> FALSE, log |-> {}]
      BY <1>2, <2>1 DEF Create, Runs, Moves, NoBox
    <2>4. BoxOK' /\ BoxStep
      BY <1>2, <2>3 DEF BoxOK, BoxStep, Starting
    <2>5. Serves(m) /\ PollOK(m)' /\ GrantOK(m)
      BY <2>2, <2>3 DEF At, Serves, PollOK, GrantOK, Watches, Polling, Starting
    <2>6. QED
      BY <1>2, <2>2, <2>3, <2>4, <2>5, OneMoves
  <1>3. QED
    BY <1>1, <1>2

LEMMA StartBoxService ==
  ASSUME ServiceInv, NEW p \in Process, StartBox(p)
  PROVE  ServiceInv'
  <1>1. CASE box.phase = "none"
    BY <1>1, RaiseService DEF StartBox
  <1>2. CASE box.phase # "none"
    <2>1. PICK m : m = On(p, "inspect")
      OBVIOUS
    <2>2. m \in Me /\ m.at = "inspect" /\ m.cmd = me[p].cmd /\ m.said = me[p].said /\ m.green = me[p].green
          /\ Serves(me[p])
      BY <2>1, GoingOn DEF Polling
    <2>3. At(p, "start") /\ UNCHANGED <<role, creds>> /\ me' = [me EXCEPT ![p] = m]
          /\ box' = IF box.phase = "off" THEN [box EXCEPT !.phase = "boot"] ELSE box
      BY <1>2, <2>1 DEF StartBox, Runs, Moves
    <2>4. BoxOK' /\ BoxStep /\ box'.phase # "none"
      BY <1>2, <2>3 DEF ServiceInv, BoxOK, BoxStep, Starting
    <2>5. Serves(m) /\ PollOK(m)' /\ GrantOK(m) /\ Owns(me[p])
      BY <2>2, <2>3, <2>4 DEF At, Serves, PollOK, GrantOK, Watches, Owns, Polling
    <2>6. QED
      BY <1>2, <2>2, <2>3, <2>4, <2>5, OneMoves
  <1>3. QED
    BY <1>1, <1>2

LEMMA InspectBoxService ==
  ASSUME ServiceInv, NEW p \in Process, InspectBox(p)
  PROVE  ServiceInv'
  <1>1. CASE box.phase = "none"
    BY <1>1, RaiseService DEF InspectBox
  <1>2. CASE box.phase = "off"
    BY <1>2, AnswerService DEF InspectBox, At, Polling
  <1>3. CASE box.phase \notin {"none", "off"}
    <2>1. PICK m : m = On(p, "logs")
      OBVIOUS
    <2>2. /\ m \in Me /\ m.at = "logs" /\ m.cmd = me[p].cmd /\ m.said = me[p].said /\ m.green = me[p].green
          /\ m.alone = me[p].alone /\ Serves(me[p]) /\ PollOK(me[p])
      BY <2>1, GoingOn DEF Polling
    <2>3. At(p, "inspect") /\ GoesOn(p, m)
      BY <1>3, <2>1 DEF InspectBox
    <2>4. Serves(m) /\ PollOK(m) /\ GrantOK(m) /\ (Owns(m) => Owns(me[p]))
      BY <2>2, <2>3 DEF At, Serves, PollOK, GrantOK, Watches, Owns, Polling
    <2>5. QED
      BY <2>2, <2>3, <2>4, GoOnService
  <1>4. QED
    BY <1>1, <1>2, <1>3

LEMMA LogsService ==
  ASSUME ServiceInv, NEW p \in Process, Logs(p)
  PROVE  ServiceInv'
  <1>1. CASE box.phase = "none"
    BY <1>1, RaiseService DEF Logs
  <1>2. CASE box.phase # "none"
    <2>1. PICK r : r = On(p, "probe")
      OBVIOUS
    <2>2. PICK pending \in BOOLEAN : pending <=> Pending
      BY DEF Pending
    <2>3. PICK m : m = [r EXCEPT !.pending = pending]
      OBVIOUS
    <2>4. /\ r \in Me /\ r.at = "probe" /\ r.cmd = me[p].cmd /\ r.said = me[p].said /\ r.green = me[p].green
          /\ r.alone = me[p].alone /\ Serves(me[p]) /\ PollOK(me[p])
      BY <2>1, GoingOn DEF Polling
    <2>5. /\ m \in Me /\ m.at = "probe" /\ m.cmd = me[p].cmd /\ m.said = me[p].said /\ m.green = me[p].green
          /\ m.alone = me[p].alone /\ m.pending = pending
      BY <2>3, <2>4 DEF Me
    <2>6. At(p, "logs") /\ GoesOn(p, m)
      BY <1>2, <2>1, <2>2, <2>3 DEF Logs
    <2>7. ~pending /\ box.data => box.phase \notin Starting
      BY <2>2 DEF Pending, ServiceInv, BoxOK
    <2>8. Serves(m) /\ PollOK(m) /\ GrantOK(m) /\ (Owns(m) => Owns(me[p]))
      BY <2>4, <2>5, <2>6, <2>7 DEF At, Serves, PollOK, GrantOK, Watches, Owns, Polling
    <2>9. QED
      BY <2>5, <2>6, <2>8, GoOnService
  <1>3. QED
    BY <1>1, <1>2

LEMMA ProbeService ==
  ASSUME ServiceInv, NEW p \in Process, Probe(p)
  PROVE  ServiceInv'
  <1> DEFINE passes == ~me[p].pending /\ Answers
  <1>1. At(p, "probe") /\ me[p].at \in Polling
    BY DEF Probe, At, Polling
  <1>2. CASE \E ok \in BOOLEAN : GoesOn(p, Answered(p, ok))
    BY <1>1, <1>2, AnswerService
  <1>3. CASE GoesOn(p, [On(p, "inspect") EXCEPT !.green = passes])
    <2>1. PICK r : r = On(p, "inspect")
      OBVIOUS
    <2>2. PICK green \in BOOLEAN : green <=> passes
      OBVIOUS
    <2>3. PICK m : m = [r EXCEPT !.green = green]
      OBVIOUS
    <2>4. /\ r \in Me /\ r.at = "inspect" /\ r.cmd = me[p].cmd /\ r.said = me[p].said
          /\ r.alone = me[p].alone /\ Serves(me[p]) /\ PollOK(me[p])
      BY <2>1, GoingOn DEF Polling
    <2>5. /\ m \in Me /\ m.at = "inspect" /\ m.cmd = me[p].cmd /\ m.said = me[p].said /\ m.green = green
          /\ m.alone = me[p].alone
      BY <2>3, <2>4 DEF Me
    <2>6. GoesOn(p, m)
      BY <1>3, <2>1, <2>2, <2>3
    <2>7. green => box.data
      BY <2>2 DEF Answers, ServiceInv, BoxOK
    <2>8. Serves(m) /\ PollOK(m) /\ GrantOK(m) /\ (Owns(m) => Owns(me[p]))
      BY <1>1, <2>4, <2>5, <2>7 DEF At, Serves, PollOK, GrantOK, Watches, Owns, Polling
    <2>9. QED
      BY <2>5, <2>6, <2>8, GoOnService
  <1>4. QED
    BY <1>2, <1>3 DEF Probe

LEMMA LoadDumpService ==
  ASSUME ServiceInv, NEW p \in Process, LoadDump(p)
  PROVE  ServiceInv'
  <1>1. CASE me[p].cmd = "advise" /\ GoesOn(p, On(p, "remove"))
    <2>1. PICK m : m = On(p, "remove")
      OBVIOUS
    <2>2. /\ m \in Me /\ m.at = "remove" /\ m.cmd = me[p].cmd /\ m.said = me[p].said
          /\ Serves(me[p]) /\ PollOK(me[p])
      BY <2>1, GoingOn
    <2>3. At(p, "load") /\ GoesOn(p, m)
      BY <1>1, <2>1 DEF LoadDump
    <2>4. Serves(m) /\ PollOK(m) /\ GrantOK(m) /\ (Owns(m) => Owns(me[p]))
      BY <1>1, <2>2, <2>3 DEF At, Serves, PollOK, GrantOK, Watches, Owns, Polling
    <2>5. QED
      BY <2>2, <2>3, <2>4, GoOnService
  <1>2. CASE Raise(p)
    BY <1>2, RaiseService
  <1>3. CASE GoesOn(p, Ends(p, "cloned"))
    BY <1>3, EndService DEF Saying
  <1>4. QED
    BY <1>1, <1>2, <1>3 DEF LoadDump

LEMMA RemoveBoxService ==
  ASSUME ServiceInv, NEW p \in Process, RemoveBox(p)
  PROVE  ServiceInv'
  <1>1. CASE box.phase = "none"
    BY <1>1, RaiseService DEF RemoveBox
  <1>2. CASE box.phase # "none"
    <2>1. PICK m : m = Ends(p, "advised")
      OBVIOUS
    <2>2. m \in Me /\ m.at = "idle" /\ m.said # "granted"
      BY <2>1, EndsWith DEF Saying
    <2>3. /\ At(p, "remove") /\ Interferes(p, m) /\ role' = 0 /\ creds' = creds
          /\ box' = [phase |-> "none", data |-> FALSE, log |-> {}]
      BY <1>2, <2>1 DEF RemoveBox, NoBox
    <2>4. Owns(me[p]) /\ creds \in [1..2 -> Nat]
      BY <2>3 DEF ServiceInv, Serves, Owns, At
    <2>5. BoxOK'
      BY <2>3 DEF BoxOK, Starting
    <2>6. Serves(m) /\ PollOK(m)' /\ GrantOK(m)' /\ ~Owns(m)
      BY <2>2, IdleIsGood
    <2>7. QED
      BY <2>2, <2>3, <2>4, <2>5, <2>6, OneInterferes
  <1>3. QED
    BY <1>1, <1>2

LEMMA ExistsService ==
  ASSUME ServiceInv, NEW p \in Process, Exists(p)
  PROVE  ServiceInv'
  <1>1. CASE ~Answers
    BY <1>1, RaiseService DEF Exists
  <1>2. CASE Answers
    <2>1. PICK r : r = On(p, "alter")
      OBVIOUS
    <2>2. PICK had \in BOOLEAN : had <=> role # 0
      OBVIOUS
    <2>3. PICK m : m = [r EXCEPT !.had = had]
      OBVIOUS
    <2>4. r \in Me /\ r.at = "alter" /\ r.cmd = me[p].cmd /\ r.said = me[p].said /\ Serves(me[p])
      BY <2>1, GoingOn
    <2>5. m \in Me /\ m.at = "alter" /\ m.cmd = me[p].cmd /\ m.said = me[p].said
      BY <2>3, <2>4 DEF Me
    <2>6. At(p, "exists") /\ GoesOn(p, m)
      BY <1>2, <2>1, <2>2, <2>3 DEF Exists
    <2>7. Serves(m) /\ PollOK(m) /\ GrantOK(m) /\ (Owns(m) => Owns(me[p]))
      BY <2>4, <2>5, <2>6 DEF At, Serves, PollOK, GrantOK, Watches, Owns, Polling
    <2>8. QED
      BY <2>5, <2>6, <2>7, GoOnService
  <1>3. QED
    BY <1>1, <1>2

LEMMA AlterService ==
  ASSUME ServiceInv, NEW p \in Process, Alter(p)
  PROVE  ServiceInv'
  <1>1. CASE Raise(p)
    BY <1>1, RaiseService
  <1>2. CASE ~Raise(p)
    <2>1. PICK r : r = On(p, "prove")
      OBVIOUS
    <2>2. PICK pw \in Nat \ {0} : pw = New
      BY NewPassword
    <2>3. PICK m : m = [r EXCEPT !.pw = pw]
      OBVIOUS
    <2>4. r \in Me /\ r.at = "prove" /\ r.cmd = me[p].cmd /\ r.said = me[p].said /\ Serves(me[p])
      BY <2>1, GoingOn
    <2>5. m \in Me /\ m.at = "prove" /\ m.cmd = me[p].cmd /\ m.said = me[p].said /\ m.pw = pw
      BY <2>3, <2>4 DEF Me
    <2>6. At(p, "alter") /\ Interferes(p, m) /\ role' = pw /\ UNCHANGED <<box, creds>>
      BY <1>2, <2>1, <2>2, <2>3 DEF Alter
    <2>7. Serves(m) /\ PollOK(m)' /\ GrantOK(m)' /\ ~Owns(m)
      BY <2>4, <2>5, <2>6 DEF At, Serves, PollOK, GrantOK, Watches, Owns, Polling
    <2>8. BoxOK' /\ creds \in [1..2 -> Nat]
      BY <2>6 DEF ServiceInv, BoxOK
    <2>9. QED
      BY <2>5, <2>6, <2>7, <2>8, OneInterferes
  <1>3. QED
    BY <1>1, <1>2

LEMMA ProveService ==
  ASSUME ServiceInv, NEW p \in Process, Prove(p)
  PROVE  ServiceInv'
  <1>1. CASE Raise(p)
    BY <1>1, RaiseService
  <1>2. CASE ~Raise(p)
    <2>1. PICK m : m = On(p, "read")
      OBVIOUS
    <2>2. /\ m \in Me /\ m.at = "read" /\ m.cmd = me[p].cmd /\ m.said = me[p].said /\ m.pw = me[p].pw
          /\ m.alone = me[p].alone /\ Serves(me[p]) /\ GrantOK(me[p])
      BY <2>1, GoingOn
    <2>3. At(p, "prove") /\ GoesOn(p, m)
      BY <1>2, <2>1 DEF Prove
    <2>4. Serves(m) /\ PollOK(m) /\ GrantOK(m) /\ ~Owns(m)
      BY <2>2, <2>3 DEF At, Serves, PollOK, GrantOK, Watches, Owns, Polling
    <2>5. QED
      BY <2>2, <2>3, <2>4, GoOnService
  <1>3. QED
    BY <1>1, <1>2

LEMMA ReadCredsService ==
  ASSUME ServiceInv, NEW p \in Process, ReadCreds(p)
  PROVE  ServiceInv'
  <1>1. PICK r : r = On(p, "write")
    OBVIOUS
  <1>2. PICK m : m = [r EXCEPT !.file = creds]
    OBVIOUS
  <1>3. /\ r \in Me /\ r.at = "write" /\ r.cmd = me[p].cmd /\ r.said = me[p].said /\ r.pw = me[p].pw
        /\ r.alone = me[p].alone /\ Serves(me[p]) /\ GrantOK(me[p])
    BY <1>1, GoingOn
  <1>4. creds \in [1..2 -> Nat]
    BY DEF ServiceInv
  <1>5. /\ m \in Me /\ m.at = "write" /\ m.cmd = me[p].cmd /\ m.said = me[p].said /\ m.pw = me[p].pw
        /\ m.alone = me[p].alone
    BY <1>2, <1>3, <1>4 DEF Me
  <1>6. At(p, "read") /\ GoesOn(p, m)
    BY <1>1, <1>2 DEF ReadCreds
  <1>7. Serves(m) /\ PollOK(m) /\ GrantOK(m) /\ ~Owns(m)
    BY <1>3, <1>5, <1>6 DEF At, Serves, PollOK, GrantOK, Watches, Owns, Polling
  <1>8. QED
    BY <1>5, <1>6, <1>7, GoOnService

LEMMA WriteCredsService ==
  ASSUME ServiceInv, NEW p \in Process, WriteCreds(p)
  PROVE  ServiceInv'
  <1>1. CASE Stored(p) = me[p].file /\ me[p].pw = 0
    BY <1>1, EndService DEF WriteCreds, Saying
  <1>2. CASE ~(Stored(p) = me[p].file /\ me[p].pw = 0)
    <2>1. PICK said \in {"granted", "revoked"} : said = IF me[p].cmd = "grant" THEN "granted" ELSE "revoked"
      OBVIOUS
    <2>2. PICK m : m = Ends(p, said)
      OBVIOUS
    <2>3. /\ m \in Me /\ m.at = "idle" /\ m.said = IF me[p].alone THEN said ELSE "nothing"
      BY <2>1, <2>2, EndsWith DEF Saying
    <2>4. /\ At(p, "write") /\ Interferes(p, m) /\ creds' = Stored(p) /\ UNCHANGED <<box, role>>
      BY <1>2, <2>1, <2>2 DEF WriteCreds
    <2>5. /\ me[p].pw \in Nat /\ me[p].file \in [1..2 -> Nat] /\ me[p] \in Me
          /\ GrantOK(me[p]) /\ BoxOK /\ role \in Nat
      BY DEF ServiceInv, Me
    <2>6. creds' \in [1..2 -> Nat] /\ (me[p].cmd = "grant" => creds'[1] = me[p].pw)
      <3>1. PICK k \in 1..2 : k = IF me[p].cmd = "grant other" THEN 2 ELSE 1
        OBVIOUS
      <3>2. creds' = [me[p].file EXCEPT ![k] = me[p].pw]
        BY <2>4, <3>1 DEF Stored
      <3>3. creds' \in [1..2 -> Nat] /\ creds'[k] = me[p].pw
        BY <2>5, <3>2
      <3>4. QED
        BY <3>1, <3>3
    <2>7. GrantOK(m)'
      BY <2>1, <2>3, <2>4, <2>5, <2>6 DEF GrantOK, At
    <2>8. Serves(m) /\ PollOK(m)' /\ ~Owns(m)
      BY <2>3 DEF Serves, PollOK, Owns, Watches, Polling
    <2>9. BoxOK'
      BY <2>4, <2>5 DEF BoxOK
    <2>10. QED
      BY <2>3, <2>4, <2>5, <2>6, <2>7, <2>8, <2>9, OneInterferes
  <1>3. QED
    BY <1>1, <1>2

LEMMA DropService ==
  ASSUME ServiceInv, NEW p \in Process, Drop(p)
  PROVE  ServiceInv'
  <1>1. CASE ~Answers
    BY <1>1, RaiseService DEF Drop
  <1>2. CASE Answers
    <2>1. PICK r : r = On(p, "read")
      OBVIOUS
    <2>2. PICK m : m = [r EXCEPT !.pw = 0]
      OBVIOUS
    <2>3. r \in Me /\ r.at = "read" /\ r.cmd = me[p].cmd /\ r.said = me[p].said /\ Serves(me[p])
      BY <2>1, GoingOn
    <2>4. m \in Me /\ m.at = "read" /\ m.cmd = me[p].cmd /\ m.said = me[p].said
      BY <2>2, <2>3 DEF Me
    <2>5. At(p, "drop") /\ Interferes(p, m) /\ role' = 0 /\ UNCHANGED <<box, creds>>
      BY <1>2, <2>1, <2>2 DEF Drop
    <2>6. Serves(m) /\ PollOK(m)' /\ GrantOK(m)' /\ ~Owns(m)
      BY <2>3, <2>4, <2>5 DEF At, Serves, PollOK, GrantOK, Watches, Owns, Polling
    <2>7. BoxOK' /\ creds \in [1..2 -> Nat]
      BY <2>5 DEF ServiceInv, BoxOK
    <2>8. QED
      BY <2>4, <2>5, <2>6, <2>7, OneInterferes
  <1>3. QED
    BY <1>1, <1>2

LEMMA QueryService ==
  ASSUME ServiceInv, NEW p \in Process, Access(p) \/ Login(p)
  PROVE  ServiceInv'
  <1>1. CASE Raise(p)
    BY <1>1, RaiseService
  <1>2. CASE \E pw \in {creds[1], 0} : At(p, "access") /\ GoesOn(p, [On(p, "login") EXCEPT !.pw = pw])
    <2>1. PICK pw \in {creds[1], 0} : At(p, "access") /\ GoesOn(p, [On(p, "login") EXCEPT !.pw = pw])
      BY <1>2
    <2>2. PICK r : r = On(p, "login")
      OBVIOUS
    <2>3. PICK m : m = [r EXCEPT !.pw = pw]
      OBVIOUS
    <2>4. pw \in Nat
      BY <2>1 DEF ServiceInv
    <2>5. r \in Me /\ r.at = "login" /\ r.cmd = me[p].cmd /\ r.said = me[p].said /\ Serves(me[p])
      BY <2>2, GoingOn
    <2>6. m \in Me /\ m.at = "login" /\ m.cmd = me[p].cmd /\ m.said = me[p].said
      BY <2>3, <2>4, <2>5 DEF Me
    <2>7. GoesOn(p, m)
      BY <2>1, <2>2, <2>3
    <2>8. Serves(m) /\ PollOK(m) /\ GrantOK(m) /\ ~Owns(m)
      BY <2>1, <2>5, <2>6 DEF At, Serves, PollOK, GrantOK, Watches, Owns, Polling
    <2>9. QED
      BY <2>6, <2>7, <2>8, GoOnService
  <1>3. CASE \E said \in {"as owner", "as role"} : GoesOn(p, Ends(p, said))
    BY <1>3, EndService DEF Saying
  <1>4. QED
    BY <1>1, <1>2, <1>3 DEF Access, Login

\* The steps of the container.
LEMMA BoxService ==
  ASSUME ServiceInv, Boot \/ Temporary \/ Swap \/ Real \/ Stop \/ Restart
  PROVE  ServiceInv'
  <1>1. UNCHANGED <<role, creds, me>>
    BY DEF Boot, Temporary, Swap, Real, Stop, Restart, Becomes, Fault
  <1>2. BoxOK
    BY DEF ServiceInv
  <1>3. BoxOK' /\ BoxStep
    <2>1. CASE Boot
      BY <1>2, <2>1 DEF Boot, Becomes, BoxOK, BoxStep, Starting
    <2>2. CASE Temporary
      BY <1>2, <2>2 DEF Temporary, Becomes, BoxOK, BoxStep, Starting
    <2>3. CASE Swap
      BY <1>2, <2>3 DEF Swap, Becomes, BoxOK, BoxStep, Starting
    <2>4. CASE Real
      BY <1>2, <2>4 DEF Real, Becomes, BoxOK, BoxStep, Starting
    <2>5. CASE Stop
      BY <1>2, <2>5 DEF Stop, BoxOK, BoxStep, Starting
    <2>6. CASE Restart
      BY <1>2, <2>6 DEF Restart, Becomes, BoxOK, BoxStep, Starting
    <2>7. QED
      BY <2>1, <2>2, <2>3, <2>4, <2>5, <2>6
  <1>4. QED
    BY <1>1, <1>3, NoneMoves

LEMMA KillService ==
  ASSUME ServiceInv, NEW p \in Process, Kill(p)
  PROVE  ServiceInv'
  <1>1. PICK m : m = Idle("query", "nothing", TRUE)
    OBVIOUS
  <1>2. m \in Me /\ m.at = "idle" /\ m.said = "nothing"
    BY <1>1, IdleIs DEF Saying, Called
  <1>3. UNCHANGED <<box, role, creds>> /\ me' = [me EXCEPT ![p] = m]
    BY <1>1 DEF Kill, Fault
  <1>4. BoxOK' /\ BoxStep
    BY <1>3 DEF ServiceInv, BoxOK, BoxStep
  <1>5. QED
    BY <1>2, <1>3, <1>4, OneMoves, IdleIsGood

LEMMA NextServiceInv == ServiceInv /\ [ServiceNext]_serviceVars => ServiceInv'
  <1> SUFFICES ASSUME ServiceInv, [ServiceNext]_serviceVars PROVE ServiceInv'
    OBVIOUS
  <1>1. CASE UNCHANGED serviceVars
    BY <1>1, NoneMoves DEF serviceVars, ServiceInv, BoxOK, BoxStep
  <1>2. CASE \E p \in Process : BeginCommand(p) \/ Kill(p)
    BY <1>2, BeginService, KillService
  <1>3. ASSUME NEW p \in Process, Step(p) PROVE ServiceInv'
    BY <1>3, CreateService, StartBoxService, InspectBoxService, LogsService, ProbeService, LoadDumpService,
       RemoveBoxService, ExistsService, AlterService, ProveService, ReadCredsService, WriteCredsService, DropService,
       QueryService DEF Step
  <1>4. CASE Boot \/ Temporary \/ Swap \/ Real \/ Stop \/ Restart
    BY <1>4, BoxService
  <1>5. QED
    BY <1>1, <1>2, <1>3, <1>4 DEF ServiceNext

\* A grant that reports success has stored the password the role logs in with,
\* for any number of processes, commands and faults.
THEOREM GrantIsKept == ServiceSpec => []GrantHolds
  <1>1. ServiceInv => GrantHolds
    BY DEF ServiceInv, GrantOK, GrantHolds
  <1>2. QED
    BY <1>1, InitServiceInv, NextServiceInv, PTL DEF ServiceSpec

\* Whoever goes on from a probe, or says the service is ready, has probed with
\* the real server up.
LEMMA ProbeIsReal ==
  ASSUME ServiceInv, [ServiceNext]_serviceVars, NEW p \in Process, At(p, "probe"),
         me'[p].at = "load" \/ me'[p].said = "ready"
  PROVE  box.phase = "real"
  <1>1. me \in [Process -> Me] /\ Serves(me[p]) /\ PollOK(me[p]) /\ me[p].said = "nothing" /\ me[p].at = "probe"
    BY DEF ServiceInv, At, Serves
  <1>2. me'[p] # me[p]
    BY <1>1
  <1>3. CASE \E q \in Process \ {p} : BeginCommand(q) \/ Step(q) \/ Kill(q)
    <2>1. PICK q \in Process \ {p} : BeginCommand(q) \/ Step(q) \/ Kill(q)
      BY <1>3
    <2>2. me'[p] = me[p] \/ me'[p] = [me[p] EXCEPT !.alone = FALSE]
      <3>1. CASE BeginCommand(q) \/ Kill(q)
        BY <1>1, <2>1, <3>1 DEF BeginCommand, Kill
      <3>2. CASE \E m : GoesOn(q, m) \/ Runs(q, m)
        BY <1>1, <2>1, <3>2 DEF GoesOn, Runs, Moves
      <3>3. CASE \E m : Interferes(q, m)
        BY <1>1, <2>1, <3>3 DEF Interferes
      <3>4. CASE Step(q)
        BY <3>2, <3>3, <3>4 DEF Step, Create, StartBox, InspectBox, Logs, Probe, LoadDump, RemoveBox, Exists, Alter,
           Prove, ReadCreds, WriteCreds, Drop, Access, Login, Raise
      <3>5. QED
        BY <2>1, <3>1, <3>4
    <2>3. me'[p].at = "probe" /\ me'[p].said = "nothing"
      BY <1>1, <2>2 DEF Me
    <2>4. QED
      BY <2>3
  <1>4. CASE Boot \/ Temporary \/ Swap \/ Real \/ Stop \/ Restart \/ UNCHANGED serviceVars
    BY <1>2, <1>4 DEF Boot, Temporary, Swap, Real, Stop, Restart, Becomes, Fault, serviceVars
  <1>5. CASE BeginCommand(p)
    BY <1>1, <1>5 DEF BeginCommand, At
  <1>6. CASE Kill(p)
    <2>1. "nothing" \in Saying /\ "query" \in Called
      BY DEF Saying, Called
    <2>2. me'[p] = Idle("query", "nothing", TRUE)
      BY <1>1, <1>6 DEF Kill
    <2>3. Idle("query", "nothing", TRUE).at = "idle" /\ Idle("query", "nothing", TRUE).said = "nothing"
      BY <2>1, IdleIs
    <2>4. me'[p].at = "idle" /\ me'[p].said = "nothing"
      BY <2>2, <2>3
    <2>5. QED
      BY <2>4
  <1>7. CASE Step(p)
    <2>1. Probe(p)
      BY <1>1, <1>7 DEF Step, Create, StartBox, InspectBox, Logs, LoadDump, RemoveBox, Exists, Alter,
         Prove, ReadCreds, WriteCreds, Drop, Access, Login, At
    <2> DEFINE passes == ~me[p].pending /\ Answers
    <2>2. CASE passes /\ me[p].green
      <3>1. GoesOn(p, Answered(p, TRUE))
        BY <2>1, <2>2 DEF Probe
      <3>2. Owns(me[p]) \/ me[p].alone
        <4>1. CASE me[p].cmd = "ready"
          <5>1. me'[p] = Ends(p, "ready")
            BY <1>1, <3>1, <4>1 DEF Answered, GoesOn, Moves
          <5>2. Ends(p, "ready").at = "idle" /\ Ends(p, "ready").said = IF me[p].alone THEN "ready" ELSE "nothing"
            BY EndsWith DEF Saying
          <5>3. QED
            BY <5>1, <5>2
        <4>2. CASE me[p].cmd # "ready"
          BY <1>1, <4>2 DEF Serves, Owns, Polling
        <4>3. QED
          BY <4>1, <4>2
      <3>3. box.phase \notin Starting
        BY <1>1, <2>2, <3>2 DEF PollOK, Watches, Polling
      <3>4. QED
        BY <2>2, <3>3 DEF Answers, Starting
    <2>3. CASE GoesOn(p, [On(p, "inspect") EXCEPT !.green = passes])
      <3>1. On(p, "inspect") \in Me /\ On(p, "inspect").at = "inspect" /\ On(p, "inspect").said = "nothing"
        BY <1>1, GoingOn DEF Polling
      <3>2. me'[p] = [On(p, "inspect") EXCEPT !.green = passes]
        BY <1>1, <2>3 DEF GoesOn, Moves
      <3>3. me'[p].at = "inspect" /\ me'[p].said = "nothing"
        BY <3>1, <3>2 DEF Me
      <3>4. QED
        BY <3>3
    <2>4. CASE GoesOn(p, Answered(p, FALSE))
      <3>1. me'[p] = Answered(p, FALSE)
        BY <1>1, <2>4 DEF GoesOn, Moves
      <3>2. CASE Answered(p, FALSE) = Ends(p, "not ready")
        <4>1. "not ready" \in Saying
          BY DEF Saying
        <4>2. me'[p].at = "idle" /\ me'[p].said \in {"not ready", "nothing"}
          BY <3>1, <3>2, <4>1, EndsWith
        <4>3. QED
          BY <4>2
      <3>3. CASE Answered(p, FALSE) = On(p, "remove")
        <4>1. PICK m : m = On(p, "remove")
          OBVIOUS
        <4>2. m.at = "remove" /\ m.said = "nothing"
          BY <1>1, <4>1, GoingOn
        <4>3. QED
          BY <3>1, <3>3, <4>1, <4>2
      <3>4. QED
        BY <3>2, <3>3 DEF Answered
    <2>5. QED
      BY <2>1, <2>2, <2>3, <2>4 DEF Probe
  <1>8. QED
    BY <1>3, <1>4, <1>5, <1>6, <1>7 DEF ServiceNext

\* Nobody takes the temporary server of a first start for the service, for any
\* number of processes, commands and faults.
THEOREM ReadyMeansReal == ServiceSpec => ReadyIsReal
  <1>1. ServiceInv /\ [ServiceNext]_serviceVars =>
          [\A p \in Process : At(p, "probe") /\ (me'[p].at = "load" \/ me'[p].said = "ready")
                                => box.phase = "real"]_serviceVars
    BY ProbeIsReal
  <1>2. QED
    BY <1>1, InitServiceInv, NextServiceInv, PTL DEF ServiceSpec, ReadyIsReal

==============================================================================
