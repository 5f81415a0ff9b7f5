------------------------------ MODULE Collect ------------------------------
(***************************************************************************)
(* Collecting what containers leave behind while they write, die, restart  *)
(* and go away: `fleet logs --follow` (src/aisb/api/fleet.py), which polls *)
(* a container on every host; the flight recorder `system blackbox`        *)
(* (api/system.py), which follows every log and saves it when its          *)
(* container dies; and `system incident`, which looks for the first        *)
(* failure (insights/incident.py).                                         *)
(*                                                                         *)
(* A container is in Box; for `fleet logs` each is on a host of its own.   *)
(* A log line is [t: second, level, key: its template] and is told from    *)
(* the others by its place in the log.  On the wire a line takes Units     *)
(* units: two frames, of a header and a body each.                         *)
(***************************************************************************)
EXTENDS Naturals, Sequences, FiniteSets, FiniteSetsExt, Functions

CONSTANTS
  Box,
  Depends,     \* for each container, those it depends on
  Selected,    \* the containers on the hosts that `fleet logs` is asked for
  LineKinds,   \* for each command, the [level, key] of the lines that containers write
  MaxLines,    \* fleet logs --tail
  Keep,        \* blackbox --log-lines
  MaxRecords,  \* blackbox --max-records
  LogLines,    \* incident --log-lines
  MaxTemplates,\* templates of a log that become signals: 5
  MaxHappen,   \* bound, for each command: what containers do
  MaxTicks, MaxFaults \* bounds: seconds, for each command; calls that fail

ASSUME BoxAssumption == IsFiniteSet(Box) /\ "none" \notin Box /\ Depends \in [Box -> SUBSET Box] /\ Selected \subseteq Box
ASSUME RecorderAssumption == Keep \in Nat /\ MaxRecords \in Nat
ASSUME ScanAssumption ==
  /\ MaxLines \in Nat /\ LogLines \in Nat /\ MaxTemplates \in Nat
  /\ \A kinds \in {LineKinds["logs"], LineKinds["blackbox"], LineKinds["incident"]} :
       \A k \in kinds : k.level \in {"error", "warn", "other"} /\ k.key \in STRING

VARIABLES
  box,     \* the containers: [state, life: how often started, log]
  evs,     \* the daemon's events: <<[t, of, action, code]>>
  clock,
  cmd,     \* the command: [kind, at, on: the containers, from: the first event of blackbox]
  pull, late, mark, seen, lines, errors, cut, \* of fleet logs, see Follow
  tape, pos, ev, keys, files, count,     \* of blackbox, see Attach
  heard, todo, known, report,            \* of incident, see Report
  faults

world == <<box, evs, clock>>
following == <<pull, late, mark, seen, lines, errors, cut>>
recording == <<tape, pos, ev, keys, files, count>>
looking == <<heard, todo, known, report>>
vars == <<world, cmd, following, recording, looking, faults>>

Units == 4

Pull(at, n) == [at |-> at, n |-> n, since |-> 0]
NoReport == [root |-> "none", blast |-> {}]
NoEvent == [t |-> 0, of |-> "", action |-> "", code |-> 0]

Init ==
  /\ box \in [Box -> {[state |-> s, life |-> IF s = "running" THEN 1 ELSE 0, log |-> << >>] : s \in {"none", "running"}}]
  /\ evs = << >> /\ clock = 1
  /\ cmd \in {[kind |-> k, at |-> "begin", from |-> 0, on |-> IF k = "logs" THEN Selected ELSE Box] :
                k \in {"logs", "blackbox", "incident"}}
  /\ pull = [c \in Box |-> Pull("idle", 0)] /\ late = [c \in Box |-> {}]
  /\ mark = [c \in Box |-> 1] /\ seen = [c \in Box |-> {}] /\ lines = [c \in Box |-> << >>] /\ errors = {} /\ cut = {}
  /\ tape = [c \in Box |-> [at |-> "none", got |-> 0, life |-> 0]]
  /\ pos = 0 /\ ev = NoEvent /\ keys = {} /\ files = << >> /\ count = 0
  /\ heard = {} /\ todo = {} /\ known = {} /\ report = NoReport
  /\ faults = 0

At(kind, at) == cmd.kind = kind /\ cmd.at = at
To(at) == cmd' = [cmd EXCEPT !.at = at]
Fault == faults < MaxFaults /\ faults' = faults + 1

----------------------------------------------------------------------------
(* The containers.                                                         *)

Lines(c) == Len(box[c].log)
Happened == Len(evs) + FoldSet(LAMBDA c, n : n + Lines(c), 0, Box)
Event(c, action, code) == [t |-> clock, of |-> c, action |-> action, code |-> code]

Happens(c) ==
  /\ cmd.at # "over" /\ c \in cmd.on /\ Happened < MaxHappen[cmd.kind]
  /\ UNCHANGED <<clock, cmd, following, recording, looking, faults>>

Create(c) ==
  /\ Happens(c) /\ box[c] = [state |-> "none", life |-> 0, log |-> << >>]
  /\ box' = [box EXCEPT ![c].state = "created"] /\ evs' = Append(evs, Event(c, "create", 0))

\* For the first time, or again.
Start(c) ==
  /\ Happens(c) /\ box[c].state \in {"created", "exited"}
  /\ box' = [box EXCEPT ![c].state = "running", ![c].life = @ + 1] /\ evs' = Append(evs, Event(c, "start", 0))

Write(c) ==
  /\ Happens(c) /\ box[c].state = "running"
  /\ \E k \in LineKinds[cmd.kind] :
       box' = [box EXCEPT ![c].log = Append(@, [t |-> clock, level |-> k.level, key |-> k.key])]
  /\ UNCHANGED evs

\* It ends; one with --rm goes away.
Die(c) ==
  /\ Happens(c) /\ box[c].state = "running"
  /\ \E code \in {0, 1}, left \in {"exited", "none"} :
       /\ box' = [box EXCEPT ![c].state = left]
       /\ evs' = Append(evs, Event(c, "die", code))

\* `docker kill`, or stop: two events.
Killed(c) ==
  /\ Happens(c) /\ box[c].state = "running"
  /\ box' = [box EXCEPT ![c].state = "exited"]
  /\ \E code \in {137, 143} : evs' = evs \o <<Event(c, "kill", 0), Event(c, "die", code)>>

\* Out of memory: it dies, or one of its processes does.
Oom(c) ==
  /\ Happens(c) /\ box[c].state = "running"
  /\ \/ box' = [box EXCEPT ![c].state = "exited"] /\ evs' = evs \o <<Event(c, "oom", 0), Event(c, "die", 137)>>
     \/ UNCHANGED box /\ evs' = Append(evs, Event(c, "oom", 0))

Unhealthy(c) ==
  /\ Happens(c) /\ box[c].state = "running"
  /\ UNCHANGED box /\ evs' = Append(evs, Event(c, "unhealthy", 0))

Tick ==
  /\ cmd.at # "over" /\ clock <= MaxTicks[cmd.kind]
  /\ clock' = clock + 1
  /\ UNCHANGED <<box, evs, cmd, following, recording, looking, faults>>

----------------------------------------------------------------------------
(* fleet logs --follow.  pull: the attempt at each host, with how many     *)
(* lines it read, and since when; late: those given up which go on; mark,  *)
(* seen: the watermark and the lines already seen; lines: those listed;    *)
(* cut (a history): the hosts of which --tail has left lines out.          *)

Follow ==
  /\ At("logs", "begin") \/ At("logs", "sleep")
  /\ To("poll") /\ pull' = [c \in Box |-> Pull(IF c \in cmd.on THEN "ask" ELSE "idle", 0)]
  /\ UNCHANGED <<world, late, mark, seen, lines, errors, cut, recording, looking, faults>>

\* The host answers, or cannot be reached, or has no such container.
Read(c) ==
  /\ pull[c].at = "ask"
  /\ \/ box[c].state # "none" /\ UNCHANGED faults
        /\ pull' = [pull EXCEPT ![c] = [at |-> "got", n |-> Lines(c), since |-> mark[c]]]
     \/ box[c].state = "none" /\ pull' = [pull EXCEPT ![c].at = "failed"] /\ UNCHANGED faults
     \/ Fault /\ pull' = [pull EXCEPT ![c].at = "failed"]
  /\ UNCHANGED <<world, cmd, late, mark, seen, lines, errors, cut, recording, looking>>

\* The daemon sends the last MaxLines lines, of those since the watermark.
Sent(c, text) == {i \in 1 .. text.n : i + MaxLines > text.n /\ box[c].log[i].t >= text.since}

\* Variant of New: lines of the watermark's own second are taken for seen.
NewAfter(c, text) == {i \in Sent(c, text) : box[c].log[i].t > text.since} \ seen[c]

\* Of the lines since the watermark, a second, those not seen before.
New(c, text) == Sent(c, text) \ seen[c]

LeftOut(c, text) == {i \in 1 .. text.n : i + MaxLines <= text.n /\ box[c].log[i].t >= text.since} \ seen[c]

Taken(c, text) ==
  LET new == New(c, text)
  IN /\ seen' = [seen EXCEPT ![c] = @ \cup new]
     /\ mark' = [mark EXCEPT ![c] = IF new = {} THEN @ ELSE box[c].log[Max(new)].t]

\* Those of the first n lines that are in `which`, in their order.
InOrder(which, n) ==
  LET first[i \in 0 .. n] ==
        IF i = 0 THEN << >> ELSE IF i \in which THEN Append(first[i - 1], i) ELSE first[i - 1]
  IN first[n]

Merge(c) ==
  /\ pull[c].at = "got"
  /\ Taken(c, pull[c])
  /\ pull' = [pull EXCEPT ![c].at = "done"]
  /\ lines' = [lines EXCEPT ![c] = @ \o InOrder(New(c, pull[c]), pull[c].n)]
  /\ cut' = IF LeftOut(c, pull[c]) = {} THEN cut ELSE cut \cup {c}
  /\ UNCHANGED <<world, cmd, late, errors, recording, looking, faults>>

\* host_timeout: the thread goes on, and its result is dropped.
GiveUp(c) ==
  /\ pull[c].at \in {"ask", "got"} /\ Fault
  /\ pull' = [pull EXCEPT ![c].at = "failed"]
  /\ late' = [late EXCEPT ![c] = IF pull[c].at = "got" THEN @ \cup {pull[c]} ELSE @]
  /\ UNCHANGED <<world, cmd, mark, seen, lines, errors, cut, recording, looking>>

Late(c) ==
  /\ \E text \in late[c] : Taken(c, text) /\ late' = [late EXCEPT ![c] = @ \ {text}]
  /\ UNCHANGED <<world, cmd, pull, lines, errors, cut, recording, looking, faults>>

Failed == errors \cup {c \in Box : pull[c].at = "failed"}

Polled ==
  /\ At("logs", "poll") /\ \A c \in cmd.on : pull[c].at \in {"done", "failed"}
  /\ errors' = Failed
  /\ To("sleep") \/ To("over")
  /\ UNCHANGED <<world, pull, late, mark, seen, lines, cut, recording, looking, faults>>

----------------------------------------------------------------------------
(* system blackbox.  tape: the followers: [at, got: units received, life:  *)
(* the start its inspect showed]; ev: the event at hand; keys: `seen`;     *)
(* files: the records, by name.                                            *)

Attached(t, cs) == [c \in Box |-> IF c \in cs /\ t[c].at = "none" THEN [t[c] EXCEPT !.at = "inspect"] ELSE t[c]]

Attach ==
  /\ At("blackbox", "begin")
  /\ tape' = Attached(tape, {c \in Box : box[c].state = "running"}) /\ To("open")
  /\ UNCHANGED <<world, following, pos, ev, keys, files, count, looking, faults>>

\* The events of the second in which the stream is opened come again.
Open ==
  /\ At("blackbox", "open")
  /\ pos' = Cardinality({i \in DOMAIN evs : evs[i].t < clock})
  /\ cmd' = [cmd EXCEPT !.at = "events", !.from = pos']
  /\ UNCHANGED <<world, following, tape, ev, keys, files, count, looking, faults>>

\* A follower: inspect, then the stream, chunk by chunk, to its end.
FollowerInspect(c) ==
  /\ tape[c].at = "inspect"
  /\ tape' = [tape EXCEPT ![c].at = IF box[c].state = "none" THEN "over" ELSE "stream", ![c].life = box[c].life]
  /\ UNCHANGED <<world, cmd, following, pos, ev, keys, files, count, looking, faults>>

Chunk(c) ==
  /\ tape[c].at = "stream"
  /\ \/ \E n \in 1 .. Units + 1 :
          /\ tape[c].got + n <= Units * Lines(c)
          /\ tape' = [tape EXCEPT ![c].got = @ + n]
     \/ /\ box[c].state \in {"exited", "none"} /\ tape[c].got = Units * Lines(c)
        /\ tape' = [tape EXCEPT ![c].at = "over"]
  /\ UNCHANGED <<world, cmd, following, pos, ev, keys, files, count, looking, faults>>

\* demux() yields the frames that are complete, and of them the lines that are;
\* the rest stays in `buf` and `pending`.
Whole(got) == (got \div 2) \div 2

Buffer(c) == [i \in 1 .. Whole(tape[c].got) |-> i]
Ring(s) == IF Len(s) > Keep THEN SubSeq(s, Len(s) - Keep + 1, Len(s)) ELSE s

NextEvent ==
  /\ At("blackbox", "events") /\ pos < Len(evs) /\ count < MaxRecords
  /\ pos' = pos + 1
  /\ LET e == evs[pos + 1] IN
     \/ e.action \in {"create", "start"} /\ tape' = Attached(tape, {e.of}) /\ UNCHANGED <<cmd, ev>>
     \/ e.action \in {"die", "oom", "kill"} /\ ev' = e /\ To("inspect") /\ UNCHANGED tape
     \/ e.action = "unhealthy" /\ UNCHANGED <<tape, cmd, ev>>    \* filtered by the daemon
  /\ UNCHANGED <<world, following, keys, files, count, looking, faults>>

\* Variant of Key: the kill of a container stands for its death.
KeyOfLife == <<ev.of, IF box[ev.of].state = "none" THEN tape[ev.of].life ELSE box[ev.of].life>>

\* The container, its StartedAt as it is now, or was when its follower began,
\* and the action.
Key == <<ev.of, IF box[ev.of].state = "none" THEN tape[ev.of].life ELSE box[ev.of].life, ev.action>>

InspectDead ==
  /\ At("blackbox", "inspect")
  /\ keys' = keys \cup {Key} /\ To(IF Key \in keys THEN "events" ELSE "drain")
  /\ UNCHANGED <<world, following, tape, pos, ev, files, count, looking, faults>>

\* After 0.2 s, whatever the follower has by then.
Save ==
  /\ At("blackbox", "drain")
  /\ LET name == <<ev.of, ev.t, ev.action>> IN
     files' = [f \in DOMAIN files \cup {name} |->
                 IF f = name THEN [code |-> ev.code, logs |-> Ring(Buffer(ev.of))] ELSE files[f]]
  /\ count' = count + 1 /\ To("events")
  /\ UNCHANGED <<world, following, tape, pos, ev, keys, looking, faults>>

\* --seconds are over, or the records are enough.
WindowEnds ==
  /\ At("blackbox", "events") /\ (pos = Len(evs) \/ count >= MaxRecords)
  /\ To("over")
  /\ UNCHANGED <<world, following, recording, looking, faults>>

----------------------------------------------------------------------------
(* system incident.  heard: the critical signals <<container, t, kind>> so *)
(* far; todo: the containers whose logs are still to be read; known (a     *)
(* history): the failures there were when the command began.               *)

Strikes(e) == e.action \in {"oom", "unhealthy"} \/ (e.action = "die" /\ e.code \notin {0, 143})

Struck == {<<evs[i].of, evs[i].t, "event">> : i \in {j \in DOMAIN evs : Strikes(evs[j])}}

\* Of the last LogLines lines those of warnings and errors, and of these the
\* first of each template, as long as there are no more than MaxTemplates.
Scanned(c) == {i \in 1 .. Lines(c) : i + LogLines > Lines(c) /\ box[c].log[i].level \in {"error", "warn"}}

Before(c, i) == {box[c].log[j].key : j \in {k \in Scanned(c) : k < i}}

Signals(c) == {i \in Scanned(c) : box[c].log[i].key \notin Before(c, i) /\ Cardinality(Before(c, i)) < MaxTemplates}

Faulty(c) == {i \in 1 .. Lines(c) : box[c].log[i].level = "error"}

Failures(c, which) == {<<c, box[c].log[i].t, "log">> : i \in which}

Errors(c) == Failures(c, Signals(c) \cap Faulty(c))
Present == {c \in Box : box[c].state # "none"}

ReadEvents ==
  /\ At("incident", "begin")
  /\ heard' = Struck /\ known' = Struck \cup UNION {Failures(c, Faulty(c)) : c \in Present} /\ To("list")
  /\ UNCHANGED <<world, following, recording, todo, report, faults>>

ListAll ==
  /\ At("incident", "list") /\ todo' = Present /\ To("logs")
  /\ UNCHANGED <<world, following, recording, heard, known, report, faults>>

\* One that has gone meanwhile is passed over.
ReadLog(c) ==
  /\ At("incident", "logs") /\ c \in todo
  /\ todo' = todo \ {c}
  /\ \/ box[c].state # "none" /\ heard' = heard \cup Errors(c) /\ UNCHANGED faults
     \/ box[c].state = "none" /\ UNCHANGED <<heard, faults>>
     \/ Fault /\ UNCHANGED heard
  /\ UNCHANGED <<world, cmd, following, recording, known, report>>

\* _closure().
Closure(edges, c) ==
  LET step(s) == s \cup UNION {edges[x] : x \in s}
      reach[n \in 0 .. Cardinality(Box)] == IF n = 0 THEN edges[c] ELSE step(reach[n - 1])
  IN reach[Cardinality(Box)]

Dependents(edges) == [b \in Box |-> {a \in Box : b \in edges[a]}]

\* Neither traffic nor configuration shows who depends on whom.
Alone == [c \in Box |-> {}]

Failing(signals) == {s[1] : s \in signals}

\* Variant of First: the last failure of a container counts.
FirstLast(signals, c) == Max({s[2] : s \in {x \in signals : x[1] = c}})

First(signals, c) == Min({s[2] : s \in {x \in signals : x[1] = c}})

\* analyze(): the earliest failure none of whose dependencies failed earlier.
Analyze(signals, edges) ==
  LET bad == Failing(signals)
      roots == {c \in bad : \A d \in Closure(edges, c) \cap bad : First(signals, d) >= First(signals, c)}
      earliest == {c \in roots : \A d \in roots : First(signals, c) <= First(signals, d)}
  IN IF bad = {} THEN {NoReport}
     ELSE {[root |-> r,
            blast |-> {c \in bad \cap (IF edges = Alone THEN bad \ {r} ELSE Closure(Dependents(edges), r)) :
                         First(signals, c) >= First(signals, r)}] : r \in earliest}

Report ==
  /\ At("incident", "logs") /\ todo = {}
  /\ report' \in Analyze(heard, Depends) \cup Analyze(heard, Alone) /\ To("over")
  /\ UNCHANGED <<world, following, recording, heard, todo, known, faults>>

----------------------------------------------------------------------------

Next ==
  \/ Tick \/ Follow \/ Polled
  \/ Attach \/ Open \/ NextEvent \/ InspectDead \/ Save \/ WindowEnds
  \/ ReadEvents \/ ListAll \/ Report
  \/ \E c \in Box :
       \/ Create(c) \/ Start(c) \/ Write(c) \/ Die(c) \/ Killed(c) \/ Oom(c) \/ Unhealthy(c)
       \/ Read(c) \/ Merge(c) \/ GiveUp(c) \/ Late(c)
       \/ FollowerInspect(c) \/ Chunk(c) \/ ReadLog(c)

Spec == Init /\ [][Next]_vars

----------------------------------------------------------------------------
(* Properties.                                                             *)

\* After each poll, the lines listed of a host are all that its container had
\* written when it was asked, each once and in order, unless the host is among
\* the errors or has written more than --tail lines since its watermark; of
\* those that are or have, no line comes twice.
LinesOnce ==
  At("logs", "sleep") \/ At("logs", "over") =>
    \A c \in cmd.on : IF c \in errors \cup cut THEN IsInjective(lines[c])
                       ELSE lines[c] = [i \in 1 .. pull[c].n |-> i]

\* The flight recorder has a record of the death of every container that ran
\* once and died while it was recording, unless it had its fill, with its exit
\* code and whole lines of its log, the last of those received and none left out.
DeathsRecorded ==
  LET contiguous(s) == \A i \in 1 .. Len(s) - 1 : s[i + 1] = s[i] + 1
  IN /\ \A f \in DOMAIN files :
          /\ \E i \in DOMAIN evs : <<evs[i].of, evs[i].t, evs[i].action>> = f
          /\ contiguous(files[f].logs) /\ Len(files[f].logs) <= Keep
          /\ \A i \in DOMAIN files[f].logs : files[f].logs[i] <= Lines(f[1])
     /\ At("blackbox", "over") /\ count < MaxRecords =>
          \A i \in cmd.from + 1 .. Len(evs) :
            evs[i].action = "die" /\ box[evs[i].of].life = 1 =>
              <<evs[i].of, evs[i].t, "die">> \in DOMAIN files /\ files[<<evs[i].of, evs[i].t, "die">>].code = evs[i].code

\* The log of a container is within what is scanned of it, and its first error
\* is of a template of its own and not after MaxTemplates others.
Told(c) ==
  /\ Lines(c) <= LogLines
  /\ \E i \in Signals(c) \cap Faulty(c) : \A j \in Faulty(c) : i <= j

\* The root cause of an incident did not fail after anything it depends on: not
\* after an event that tells of a failure, nor after an error in the log of a
\* container that is still there, where the log was scanned as far as its first
\* error.  And a root is found when there is such a failure.  What had failed
\* when the command began counts, if every log could be read.
RootIsFirst ==
  At("incident", "over") /\ faults = 0 =>
    LET was == {k \in known : k[3] = "log" => k[1] \in Present /\ Told(k[1])}
        root == report.root
    IN /\ was # {} => root # "none"
       /\ \A d \in Failing(was) :
            root # "none" /\ d \in Closure(Depends, root) => First(was, d) >= First(heard, root)
       /\ \A c \in report.blast : First(heard, c) >= First(heard, root)

=============================================================================
