------------------------------ MODULE Monitor ------------------------------
(***************************************************************************)
(* `fleet status`, `fleet watch` and `fleet canary` (src/aisb/api/fleet.py)*)
(* over hosts that change while they are asked: a host's containers are    *)
(* listed, then each is inspected and its log read, in calls of their own, *)
(* and a host that takes too long is given up.  And `system watch`         *)
(* (src/aisb/api/system.py), which does so with the one daemon it runs on. *)
(***************************************************************************)
EXTENDS Triage, FiniteSetsExt

CONSTANTS
  Host, Container,
  Condition,  \* the facts a container may come to show, see Triage
  Begins,     \* how the hosts may be at first
  Vitals,     \* what the probe of a host may come to print, see Assess
  Canary,     \* the canary hosts; the others are the baseline
  Local,      \* the host of `system watch`
  Service,    \* the container `canary` compares
  Sink,       \* sinks of `watch --notify`: name -> min_level
  MaxPolls, MaxChanges \* bounds: checks of a watch; changes of the hosts

Gone == [status |-> "gone"]
Rank == [healthy |-> 0, degraded |-> 1, failing |-> 2, down |-> 3]
Level == [info |-> 0, warning |-> 1, degraded |-> 1, failing |-> 2, down |-> 3, healthy |-> 0]

Readings == [disk : SUBSET Nat, mem : SUBSET Nat, load : SUBSET Nat]
HostState == [reach : BOOLEAN, vitals : Readings, box : [Container -> Facts \cup {Gone}]]

ASSUME MonitorAssumption ==
  /\ IsFiniteSet(Host) /\ Canary \cup {Local} \subseteq Host /\ Service \in Container
  /\ Condition \subseteq Facts /\ Begins \subseteq [Host -> HostState] /\ Vitals \subseteq Readings
  /\ Sink \in [DOMAIN Sink -> DOMAIN Level]

VARIABLES
  world,   \* the hosts: [reach, vitals, box: container -> facts, or Gone]
  try,     \* the attempt at each host, see Waiting
  cmd,     \* the command: [kind, at, polls, http: --http of a canary]
  prev, first, events, \* the snapshot, the first one, and the changes reported
  told, deaf, \* the batches each sink was sent, or failed to take
  side, go, \* of a canary: the results of the hosts, the answer
  calm,    \* the hosts that have not changed since they were first asked
  changed

vars == <<world, try, cmd, prev, first, events, told, deaf, side, go, calm, changed>>

\* at: the next call; left: containers not looked at yet; at one: its facts
\* but for its log; vitals, read: the vitals and the facts read; row: the result.
NoRow == [verdict |-> "none", reasons |-> {}]
Unprobed == [disk |-> {}, mem |-> {}, load |-> {}]
Waiting(at) == [at |-> at, vitals |-> Unprobed, left |-> {}, one |-> << >>, read |-> << >>, row |-> NoRow]

Asked ==
  CASE cmd.kind = "watch" -> Host
    [] cmd.kind = "system" -> {Local}
    [] OTHER -> IF cmd.at = "canary" THEN Canary ELSE Host \ Canary

Init ==
  /\ world \in Begins
  /\ try = [h \in Host |-> Waiting("idle")]
  /\ \E k \in {"watch", "system", "canary"}, http \in BOOLEAN :
       (http => k = "canary") /\ cmd = [kind |-> k, at |-> "begin", polls |-> 0, http |-> http]
  /\ prev = << >> /\ first = << >> /\ events = << >> /\ told = [s \in DOMAIN Sink |-> {}] /\ deaf = told
  /\ side = << >> /\ go = FALSE /\ calm = {} /\ changed = 0

----------------------------------------------------------------------------
(* The attempt at a host.                                                  *)

Goes(h, t) == try' = [try EXCEPT ![h] = t] /\ UNCHANGED <<world, cmd, prev, first, events, told, deaf, side, go, calm, changed>>

Down(why) == [Waiting("done") EXCEPT !.row = [verdict |-> "down", reasons |-> {<<why>>}]]

\* A call to the host fails when it cannot be reached.
Calls(h, at, t) == try[h].at = at /\ Goes(h, IF world[h].reach THEN t ELSE Down("unreachable"))

\* _status_one(): the probe of the vitals, over SSH.
ReadVitals(h) == Calls(h, "vitals", [try[h] EXCEPT !.vitals = world[h].vitals, !.at = "list"])

\* system.doctor(): the containers, then each in turn.
List(h) ==
  Calls(h, "list", [try[h] EXCEPT !.at = "inspect", !.left = {c \in Container : world[h].box[c] # Gone}])

Inspect(h) ==
  \E c \in try[h].left :
    Calls(h, "inspect",
          IF world[h].box[c] = Gone THEN Down("no such container")
          ELSE [try[h] EXCEPT !.at = "log", !.left = @ \ {c}, !.one = <<c, world[h].box[c]>>])

ReadLog(h) ==
  LET c == try[h].one[1]
      facts == [try[h].one[2] EXCEPT !.logs = world[h].box[c].logs]
  IN Calls(h, "log",
           IF world[h].box[c] = Gone THEN Down("no such container")
           ELSE [try[h] EXCEPT !.at = "inspect", !.one = << >>,
                                  !.read = [x \in DOMAIN @ \cup {c} |-> IF x = c THEN facts ELSE @[x]]])

Row(t) == Assess(t.vitals, Problems(t.read))

Report(h) ==
  /\ try[h].at = "inspect" /\ try[h].left = {} /\ cmd.kind = "watch"
  /\ Goes(h, [Waiting("done") EXCEPT !.row = Row(try[h])])

\* _canary_side(): doctor and log of the one container, then with --http a request
\* to it, which is not served unless it runs.
Compare(h) ==
  /\ try[h].at = "inspect" /\ try[h].left = {} /\ cmd.kind = "canary"
  /\ LET f == try[h].read[Service]
         now == world[h].box[Service]
     IN \E served \in BOOLEAN :
          /\ served => cmd.http /\ now # Gone /\ now.status = "running"
          /\ Goes(h, IF ~world[h].reach THEN Down("unreachable")
                     ELSE [Waiting("done") EXCEPT
                             !.row = [verdict |-> Diagnose(f).verdict, restarts |-> f.restarts,
                                      errors |-> Cardinality({i \in DOMAIN f.logs : f.logs[i].error}),
                                      served |-> served]])

\* The list of containers, asked once more for their states when system.doctor()
\* has ended; Unlisted stands for a container that was not there at first.
Unlisted == [verdict |-> "none", found |-> {}, state |-> ""]

ListStates(h) ==
  LET f == try[h].read
      found(c) == {x.code : x \in {y \in Diagnose(f[c]).findings : y.severity # "info"}}
      state(c) == IF world[h].box[c] = Gone THEN "" ELSE world[h].box[c].status
  IN /\ cmd.kind = "system" /\ try[h].left = {}
     /\ Calls(h, "inspect",
              [Waiting("done") EXCEPT
                 !.row = [verdict |-> "up",
                          boxes |-> [c \in Container |->
                                       IF c \in DOMAIN f
                                       THEN [verdict |-> Diagnose(f[c]).verdict, found |-> found(c), state |-> state(c)]
                                       ELSE Unlisted]]])

\* host_timeout: what the attempt still finds is dropped.
GiveUp(h) == cmd.kind # "system" /\ try[h].at \notin {"idle", "done"} /\ Goes(h, Down("timed out"))

----------------------------------------------------------------------------
(* watch, a status again and again.                                        *)

Start ==
  /\ try' = [h \in Host |->
               IF h \notin Asked' THEN Waiting("idle")
               ELSE IF cmd.kind = "watch" THEN Waiting("vitals")
               ELSE IF cmd.kind = "system" THEN Waiting("list")
               ELSE [Waiting("inspect") EXCEPT !.left = {Service}]]
  /\ calm' = calm \cup Asked'

Begin ==
  /\ cmd.at = "begin"
  /\ cmd' = [cmd EXCEPT !.at = IF cmd.kind = "canary" THEN "canary" ELSE "poll", !.polls = @ + 1]
  /\ Start
  /\ UNCHANGED <<world, prev, first, events, told, deaf, side, go, changed>>

All == \A h \in Asked : try[h].at = "done"
Snapshot == [h \in Asked |-> try[h].row]

Kind(a, b) ==
  IF Rank[b] < Rank[a] THEN IF a = "down" THEN "recovered" ELSE "better"
  ELSE IF Rank[b] > Rank[a] THEN IF b = "down" THEN "went down" ELSE "worse" ELSE "changed"

\* Variant of Fresh: a host whose verdict is the same is not reported.
FreshVerdicts(cur) ==
  {[host |-> h, change |-> Kind(prev[h].verdict, cur[h].verdict), to |-> cur[h].verdict,
    new |-> cur[h].reasons \ prev[h].reasons, resolved |-> prev[h].reasons \ cur[h].reasons]
     : h \in {x \in Host : prev[x].verdict # cur[x].verdict}}

\* changes(), the hosts being the same in both.
Fresh(cur) ==
  {[host |-> h, change |-> Kind(prev[h].verdict, cur[h].verdict), to |-> cur[h].verdict,
    new |-> cur[h].reasons \ prev[h].reasons, resolved |-> prev[h].reasons \ cur[h].reasons]
     : h \in {x \in Host : prev[x] # cur[x]}}

Worst(cur, fresh) == CHOOSE v \in {cur[e.host].verdict : e \in fresh} : \A e \in fresh : Rank[v] >= Rank[cur[e.host].verdict]

\* fan(): a sink that fails does not keep the others from being told.
Sent(wants, broken) == wants \ broken

NextRound ==
  \/ cmd.polls < MaxPolls /\ cmd' = [cmd EXCEPT !.polls = @ + 1] /\ Start
  \/ cmd' = [cmd EXCEPT !.at = "over"] /\ try' = [h \in Host |-> Waiting("idle")] /\ UNCHANGED calm

\* The first snapshot, or what has changed since the last; `deaf` are the
\* batches a sink failed to take.
Poll ==
  /\ cmd.kind = "watch" /\ cmd.at = "poll" /\ All
  /\ prev' = Snapshot
  /\ IF first = << >>
     THEN first' = Snapshot /\ UNCHANGED <<events, told, deaf>>
     ELSE LET fresh == Fresh(Snapshot)
              wants == IF fresh = {} THEN {}
                       ELSE {s \in DOMAIN Sink : Rank[Worst(Snapshot, fresh)] >= Level[Sink[s]]}
          IN /\ events' = Append(events, fresh) /\ UNCHANGED first
             /\ \E broken \in SUBSET wants :
                  /\ told' = [s \in DOMAIN Sink |-> told[s] \cup If(s \in Sent(wants, broken), Len(events'))]
                  /\ deaf' = [s \in DOMAIN Sink |-> deaf[s] \cup If(s \in broken, Len(events'))]
  /\ NextRound
  /\ UNCHANGED <<world, side, go, changed>>

\* What `system watch` reports of a container.
Noted(old, new) ==
  {[of |-> c,
    change |-> CASE old[c] = Unlisted -> "appeared"
                 [] new[c] = Unlisted -> "gone"
                 [] OTHER -> IF old[c].verdict # new[c].verdict \/ old[c].state = new[c].state
                             THEN Kind(old[c].verdict, new[c].verdict) ELSE "state",
    to |-> new[c].verdict, state |-> new[c].state,
    new |-> new[c].found \ old[c].found, resolved |-> old[c].found \ new[c].found]
     : c \in {x \in Container : old[x] # new[x]}}

\* An error of the daemon, or a container that goes away before it is inspected,
\* ends the command, and what it has seen is not returned.
PollDaemon ==
  /\ cmd.kind = "system" /\ cmd.at = "poll" /\ All
  /\ IF try[Local].row.verdict = "down"
     THEN /\ cmd' = [cmd EXCEPT !.at = "over"] /\ try' = [h \in Host |-> Waiting("idle")]
          /\ prev' = << >> /\ first' = << >> /\ events' = << >> /\ UNCHANGED calm
     ELSE /\ prev' = Snapshot
          /\ IF first = << >>
             THEN first' = Snapshot /\ UNCHANGED events
             ELSE events' = Append(events, Noted(prev[Local].boxes, Snapshot[Local].boxes)) /\ UNCHANGED first
          /\ NextRound
  /\ UNCHANGED <<world, told, deaf, side, go, changed>>

----------------------------------------------------------------------------
(* canary.                                                                 *)

\* The canary hosts are asked first, then the others.
Baseline ==
  /\ cmd.at = "canary" /\ All
  /\ side' = Snapshot /\ cmd' = [cmd EXCEPT !.at = "baseline"] /\ Start
  /\ UNCHANGED <<world, prev, first, events, told, deaf, go, changed>>

Reached(rows, hosts) == {h \in hosts : rows[h].verdict # "down"}
Total(rows, hosts, column(_)) == FoldSet(LAMBDA h, n : n + column(rows[h]), 0, Reached(rows, hosts))

\* The averages over the hosts that answered; both sides multiplied by how many.
TooManyErrors(c, b) ==
  LET nc == Max({1, Cardinality(Reached(c, Canary))})
      nb == Max({1, Cardinality(Reached(b, Host \ Canary))})
      errors(r) == r.errors
  IN 2 * Total(c, Canary, errors) * nb > 4 * Total(b, Host \ Canary, errors) * nc + nc * nb

\* Variant of NoGo: what cannot be asked cannot object.
NoGoReached(c, b) ==
  \/ \E h \in Canary : c[h].verdict = "failing"
  \/ TooManyErrors(c, b)

Unserved(rows, hosts) == Cardinality({h \in Reached(rows, hosts) : ~rows[h].served})

NoGo(c, b) ==
  LET restarts(r) == r.restarts
  IN \/ Reached(c, Canary) # Canary
     \/ \E h \in Canary : c[h].verdict = "failing"
     \/ Total(c, Canary, restarts) > Total(b, Host \ Canary, restarts)
     \/ TooManyErrors(c, b)
     \/ cmd.http /\ Unserved(c, Canary) > Unserved(b, Host \ Canary)

Decide ==
  /\ cmd.at = "baseline" /\ All
  /\ go' = ~NoGo(side, Snapshot) /\ cmd' = [cmd EXCEPT !.at = "over"]
  /\ side' = [h \in Host |-> IF h \in Canary THEN side[h] ELSE Snapshot[h]]
  /\ UNCHANGED <<world, try, prev, first, events, told, deaf, calm, changed>>

----------------------------------------------------------------------------
(* The hosts.                                                              *)

Change(h, w) ==
  /\ changed < MaxChanges /\ cmd.at # "over" /\ (cmd.kind = "system" => h = Local)
  /\ world' = [world EXCEPT ![h] = w] /\ world' # world
  /\ calm' = calm \ {h} /\ changed' = changed + 1
  /\ UNCHANGED <<try, cmd, prev, first, events, told, deaf, side, go>>

Changes(h) ==
  \/ \E up \in BOOLEAN : Change(h, [world[h] EXCEPT !.reach = up])
  \/ \E v \in Vitals : Change(h, [world[h] EXCEPT !.vitals = v])
  \/ \E c \in Container, f \in Condition \cup {Gone} : Change(h, [world[h] EXCEPT !.box[c] = f])

Next ==
  \/ Begin \/ Poll \/ PollDaemon \/ Baseline \/ Decide
  \/ \E h \in Host :
       ReadVitals(h) \/ List(h) \/ Inspect(h) \/ ReadLog(h) \/ Report(h) \/ Compare(h) \/ ListStates(h) \/ GiveUp(h) \/ Changes(h)

Spec == Init /\ [][Next]_vars

----------------------------------------------------------------------------
(* Properties.                                                             *)

\* The last snapshot is the first one with the reported changes applied to it,
\* of hosts as of containers, and each batch of changes was sent to every sink
\* that wants it, whether or not another sink failed.
AfterBatch(row, batch, h) ==
  LET mine == {e \in batch : e.host = h}
      e == CHOOSE x \in mine : TRUE
  IN IF mine = {} THEN row ELSE [verdict |-> e.to, reasons |-> (row.reasons \cup e.new) \ e.resolved]

Replay(h) ==
  LET row[n \in 0 .. Len(events)] == IF n = 0 THEN first[h] ELSE AfterBatch(row[n - 1], events[n], h)
  IN row[Len(events)]

BoxAfterBatch(box, batch, c) ==
  LET mine == {e \in batch : e.of = c}
      e == CHOOSE x \in mine : TRUE
  IN IF mine = {} THEN box
     ELSE IF e.change = "gone" THEN Unlisted
     ELSE [verdict |-> e.to, found |-> (box.found \cup e.new) \ e.resolved, state |-> e.state]

ReplayBox(c) ==
  LET box[n \in 0 .. Len(events)] ==
        IF n = 0 THEN first[Local].boxes[c] ELSE BoxAfterBatch(box[n - 1], events[n], c)
  IN box[Len(events)]

Changed(i, v) == \E e \in events[i] : Rank[e.to] >= Level[v]

ChangesReported ==
  /\ cmd.kind = "system" /\ first # << >> => \A c \in Container : prev[Local].boxes[c] = ReplayBox(c)
  /\ cmd.kind = "watch" /\ first # << >> =>
    /\ \A h \in Host : prev[h] = Replay(h)
    /\ \A s \in DOMAIN Sink, i \in DOMAIN events :
         events[i] # {} /\ Changed(i, Sink[s]) => (i \in told[s]) # (i \in deaf[s])

\* A line that misses a variable which is set after all complains only if it names
\* another cause.
Complains(f, line) ==
  IF f.set /\ "missing-env" \in line.hits THEN line.hits \ {"missing-env", "app-crash"} # {}
  ELSE line.error \/ line.hits # {}

\* What is wrong with a container, whatever rule finds it.
Wrong(f) ==
  \/ Restarting(f) \/ f.oom \/ f.error \/ f.unhealthy \/ f.restarts >= 3
  \/ f.status \in {"created", "exited", "dead"} /\ f.code \in DOMAIN ExitCodes
  \/ f.status \in {"exited", "dead"} /\ f.code # 0 /\ \E i \in DOMAIN f.logs : Complains(f, f.logs[i])

\* The disk is full, or the memory used up.
Spent(v) == (\E pct \in v.disk : pct >= 90) \/ (\E pct \in v.mem : pct < 5)

\* A host that has not changed since it was first asked, is reached and answers
\* in time, is failing when one of its containers is, its disk is full or its
\* memory used up, and only then; `system watch` tells which containers are.
NoFailureMissed ==
  LET failing(h, c) == world[h].box[c] # Gone /\ Wrong(world[h].box[c])
  IN \A h \in calm :
       try[h].at = "done" /\ try[h].row.verdict # "down" =>
         /\ cmd.kind = "watch" =>
              (try[h].row.verdict = "failing") = (Spent(world[h].vitals) \/ \E c \in Container : failing(h, c))
         /\ cmd.kind = "system" =>
              \A c \in Container : (try[h].row.boxes[c].verdict = "failing") = failing(h, c)

\* `go` is said only of a canary all of whose hosts answered and have the service,
\* with nothing wrong that makes it failing; and with --http, if every baseline
\* host that answered served the request, only of one whose services run.  That is
\* of hosts that have not changed since.  A service that has exited, and fails
\* nothing more, may get a `go` without --http.
Served(h) == side[h].verdict = "down" \/ side[h].served
GoIsEarned ==
  go => \A h \in Canary \cap calm :
          /\ world[h].reach /\ world[h].box[Service] # Gone /\ ~Wrong(world[h].box[Service])
          /\ cmd.http /\ (\A b \in Host \ Canary : Served(b)) => world[h].box[Service].status = "running"

=============================================================================
