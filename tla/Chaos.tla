------------------------------- MODULE Chaos -------------------------------
(***************************************************************************)
(* Fault injection (src/aisb/api/chaos.py): the commands `chaos pause`,    *)
(* `disconnect`, `latency` and `kill`, run alone or by the worker thread   *)
(* of a game day, `chaos run`, which watches every service of a stack      *)
(* while the fault holds and grades what it saw.  A call to the daemon may *)
(* fail, with or without its effect; a service may exit and be restarted;  *)
(* Ctrl-C reaches the main thread only.                                    *)
(***************************************************************************)
EXTENDS Naturals, Sequences, FiniteSets

CONSTANTS
  Service,    \* the services of the stack
  nets,       \* the networks each is attached to
  needs,      \* for each service, those its health check calls
  Probed,     \* those with an adapter's probe or a health check
  Agenda,     \* the lists of experiments <<service, fault>> a game day may run
  MaxFaults   \* bound: failing calls, exits and Ctrl-C

\* What run() and latency() accept: three faults, and probes that call services.
ASSUME ChaosAssumption ==
  /\ nets \in [Service -> SUBSET UNION {nets[s] : s \in Service}]
  /\ needs \in [Service -> SUBSET Service] /\ Probed \subseteq Service
  /\ Agenda \subseteq Seq(Service \X {"pause", "disconnect", "latency"})
  /\ MaxFaults \in Nat

VARIABLES
  box,     \* the containers: [running, paused, on: networks, slow]
  side,    \* the sidecar of each experiment with latency: [at, of, stale]
  op,      \* the fault command, see Quiet
  day,     \* the main thread, see Morning
  excused, \* what could not be undone: a call that undoes failed or was cut
           \* short, or a call that injects failed and took effect
  faults

chaosVars == <<box, side, op, day, excused, faults>>

Network == UNION {nets[s] : s \in Service}

\* What a fault has taken from the services.
Broken(b) ==
  {<<s, "paused">> : s \in {x \in Service : b[x].paused}}
  \cup {<<s, "slow">> : s \in {x \in Service : b[x].slow}}
  \cup {p \in Service \X Network : p[2] \in nets[p[1]] \ b[p[1]].on}

\* at: its next step; of: its target; todo, done: the networks to detach and
\* those detached; log: the sidecar's log is read; err: it raises; k: which
\* of the sidecars is its own.
Quiet == [at |-> "done", of |-> "", todo |-> {}, done |-> {}, log |-> FALSE,
          err |-> FALSE, k |-> 0]

\* left: the experiments left; todo: the services this pass has still to ask;
\* bad: those the check before the fault found unhealthy; late: the deadline
\* of the recovery has passed; stop: it raises.
Morning(left) ==
  [at |-> "next", left |-> left, todo |-> {}, bad |-> {}, affected |-> {}, late |-> FALSE,
   stop |-> FALSE, card |-> << >>]

ChaosInit ==
  /\ box = [s \in Service |-> [running |-> TRUE, paused |-> FALSE, on |-> nets[s], slow |-> FALSE]]
  /\ side = << >> /\ op = Quiet /\ excused = {} /\ faults = 0
  /\ day \in {Morning(a) : a \in Agenda} \cup {[Morning(<< >>) EXCEPT !.at = "alone"]}

----------------------------------------------------------------------------
(* Calls of the fault command.                                             *)

Busy == op.at # "done"
Goes(at) == [op EXCEPT !.at = at]
Raised(at) == [op EXCEPT !.at = at, !.err = TRUE]

Fault == faults < MaxFaults /\ faults' = faults + 1

\* A call that changes `piece` of the target: box becomes b when the daemon
\* can do it.  When it fails it may have taken effect; what then is or stays
\* broken is excused.
Call(can, b, piece, good, bad) ==
  \/ can /\ box' = b /\ op' = good /\ UNCHANGED <<excused, faults>>
  \/ ~can /\ op' = bad /\ UNCHANGED <<box, excused, faults>>
  \/ /\ Fault /\ op' = bad
     /\ box' \in {box} \cup {x \in {b} : can}
     /\ excused' = excused \cup ({<<op.of, piece>>} \cap Broken(box'))

Sets(field, value) == [box EXCEPT ![op.of][field] = value]
Running == box[op.of].running

Start(s, f, only) ==
  op' = [Quiet EXCEPT !.at = f, !.of = s, !.todo = only, !.k = Len(side) + 1]

\* pause() up to _hold()'s sleep.
Pause ==
  /\ op.at = "pause"
  /\ Call(Running /\ ~box[op.of].paused, Sets("paused", TRUE), "paused", Goes("hold"), Raised("done"))
  /\ UNCHANGED <<side, day>>

Unpause ==
  /\ op.at = "unpause"
  /\ Call(box[op.of].paused, Sets("paused", FALSE), "paused", Goes("done"), Raised("done"))
  /\ UNCHANGED <<side, day>>

\* disconnect() reads the networks of the container it is to detach.
ReadNetworks ==
  /\ op.at = "disconnect"
  /\ LET ns == box[op.of].on \cap op.todo IN
     \/ op' = [op EXCEPT !.at = IF ns = {} THEN "done" ELSE "cut", !.err = ns = {}, !.todo = ns] /\ UNCHANGED faults
     \/ Fault /\ op' = Raised("done")
  /\ UNCHANGED <<box, side, day, excused>>

\* cut(), one network: the first failure goes on with heal().
Cut ==
  /\ op.at = "cut"
  /\ \E n \in op.todo :
       Call(n \in box[op.of].on, Sets("on", box[op.of].on \ {n}), n,
            [op EXCEPT !.todo = @ \ {n}, !.done = @ \cup {n}, !.at = IF op.todo = {n} THEN "hold" ELSE "cut"],
            Raised("heal"))
  /\ UNCHANGED <<side, day>>

\* heal() goes on when a network fails.
Healed(n) == [op EXCEPT !.done = @ \ {n}, !.err = TRUE]

Heal ==
  /\ op.at = "heal"
  /\ \/ op.done = {} /\ op' = Goes("done") /\ UNCHANGED <<box, excused, faults>>
     \/ \E n \in op.done :
          Call(n \notin box[op.of].on, Sets("on", box[op.of].on \cup {n}), n, [op EXCEPT !.done = @ \ {n}], Healed(n))
  /\ UNCHANGED <<side, day>>

\* The time is over.
Hold ==
  /\ op.at = "hold"
  /\ op' = Goes(IF op.done = {} THEN "unpause" ELSE "heal")
  /\ UNCHANGED <<box, side, day, excused, faults>>

Mine == side[op.k]

\* latency(): the target is inspected, the sidecar created, started in the
\* target's network namespace and waited for, its log read.
Sidecar ==
  /\ op.at = "latency"
  /\ \/ side' = Append(side, [at |-> "created", of |-> op.of, stale |-> FALSE]) /\ op' = Goes("start")
        /\ UNCHANGED faults
     \/ Fault /\ op' = Raised("done") /\ UNCHANGED side
  /\ UNCHANGED <<box, day, excused>>

\* It joins the namespace that the target has as it starts.
StartedSide == [side EXCEPT ![op.k].at = "started", ![op.k].stale = FALSE]

StartSidecar ==
  /\ op.at = "start"
  /\ \/ Running /\ side' = StartedSide /\ op' = Goes("wait") /\ UNCHANGED faults
     \/ ~Running /\ op' = Raised("delete") /\ UNCHANGED <<side, faults>>
     \/ Fault /\ op' = Raised("delete")
        /\ side' \in {side} \cup {x \in {StartedSide} : Running}
  /\ UNCHANGED <<box, day, excused>>

Wait ==
  /\ op.at = "wait"
  /\ \/ Mine.at \in {"exited", "reverted"} /\ UNCHANGED faults
        /\ op' = [op EXCEPT !.at = "delete", !.log = TRUE, !.err = Mine.at = "exited"]
     \/ Fault /\ op' = Raised("delete")
  /\ UNCHANGED <<box, side, day, excused>>

\* Whether "reverted" is in the log that was read.
SaysReverted == op.log /\ Mine.at = "reverted"

AfterDelete == IF SaysReverted THEN "done" ELSE "untc"

\* DELETE with force stops the sidecar wherever it is.
DeleteSidecar ==
  /\ op.at = "delete"
  /\ \/ side' = [side EXCEPT ![op.k].at = "gone"] /\ op' = Goes(AfterDelete) /\ UNCHANGED <<excused, faults>>
     \/ /\ Fault /\ op' = Raised(AfterDelete)
        /\ side' \in {side, [side EXCEPT ![op.k].at = "gone"]}
        /\ excused' = IF side' = side /\ Mine.at \in {"started", "sleeping"}
                      THEN excused \cup {<<op.of, "slow">>} ELSE excused
  /\ UNCHANGED <<box, day>>

\* _untc(): a second sidecar, which needs the target to run.
Untc ==
  /\ op.at = "untc"
  /\ Call(Running, Sets("slow", FALSE), "slow", Goes("done"), Raised("done"))
  /\ UNCHANGED <<side, day>>

\* kill(): not undone.
Kill ==
  /\ day.at = "alone" /\ op = Quiet
  /\ \E s \in Service : box' = [box EXCEPT ![s].running = FALSE]
  /\ day' = [day EXCEPT !.at = "ended"]
  /\ UNCHANGED <<side, op, excused, faults>>

\* The script of sidecar k.
Script(k) ==
  LET s == side[k].of
      Becomes(at, slow) ==
        /\ side' = [side EXCEPT ![k].at = at]
        /\ box' = IF side[k].stale THEN box ELSE [box EXCEPT ![s].slow = slow]
  IN /\ \/ side[k].at = "started" /\ ~box[s].slow /\ Becomes("sleeping", TRUE)
        \/ side[k].at = "started" /\ \E slow \in {box[s].slow, TRUE} : Becomes("exited", slow)
        \/ side[k].at = "sleeping" /\ Becomes("reverted", FALSE)
     /\ UNCHANGED <<op, day, excused, faults>>

\* The daemon: a service exits, and its restart policy starts it again.
Exits(s) ==
  /\ box[s].running /\ Fault
  /\ box' = [box EXCEPT ![s].running = FALSE, ![s].paused = FALSE, ![s].slow = FALSE]
  /\ side' = [k \in DOMAIN side |-> [side[k] EXCEPT !.stale = @ \/ side[k].of = s]]
  /\ UNCHANGED <<op, day, excused>>

Returns(s) ==
  /\ ~box[s].running
  /\ box' = [box EXCEPT ![s].running = TRUE]
  /\ UNCHANGED <<side, op, day, excused, faults>>

----------------------------------------------------------------------------
(* The main thread.                                                        *)

\* What a service's health can look like: a probe runs in the container and
\* calls the services it needs over a network they share.
Reachable(s, d) == box[d].running /\ ~box[d].paused /\ box[s].on \cap box[d].on # {}

healthy(s) ==
  IF ~box[s].running \/ box[s].paused THEN {FALSE}
  ELSE IF s \notin Probed THEN {TRUE}
  ELSE IF \E d \in needs[s] : ~Reachable(s, d) THEN {FALSE}
  ELSE IF box[s].slow \/ \E d \in needs[s] : box[d].slow THEN BOOLEAN
  ELSE {TRUE}

\* A fault command on its own, then its end.
Alone ==
  /\ day.at = "alone"
  /\ \/ /\ op = Quiet
        /\ \E s \in Service, f \in {"pause", "disconnect", "latency"} :
             \E only \in {nets[s]} \cup {{n} : n \in nets[s]} :
               /\ Start(s, f, only)
               /\ day' = [day EXCEPT !.left = << <<s, f>> >>]
     \/ op # Quiet /\ ~Busy /\ UNCHANGED op
        /\ day' = [day EXCEPT !.at = "ended", !.stop = op.err]
  /\ UNCHANGED <<box, side, excused, faults>>

Target == Head(day.left)[1]
To(at) == [day EXCEPT !.at = at, !.todo = Service]

\* The next experiment, or the report.
Then(entry) == [Morning(Tail(day.left)) EXCEPT !.card = Append(day.card, entry)]
Entry(skipped, recovered) ==
  [of |-> Target, fault |-> Head(day.left)[2], skipped |-> skipped, recovered |-> recovered,
   blast |-> day.affected \ {Target}, detected |-> Target \in day.affected]

NextExperiment ==
  /\ day.at = "next"
  /\ day' = IF day.left = << >> THEN [day EXCEPT !.at = "ended"] ELSE To("pre")
  /\ UNCHANGED <<box, side, op, excused, faults>>

\* Every service is asked; the fault starts when all are healthy.
Pre ==
  /\ day.at = "pre"
  /\ \/ \E m \in day.todo, ok \in BOOLEAN :
          /\ ok \in healthy(m)
          /\ day' = [day EXCEPT !.todo = @ \ {m}, !.bad = IF ok THEN @ ELSE @ \cup {m}]
          /\ UNCHANGED op
     \/ day.todo = {} /\ day.bad # {} /\ day' = Then(Entry("unhealthy", FALSE)) /\ UNCHANGED op
     \/ /\ day.todo = {} /\ day.bad = {}
        /\ day' = To("watch")
        /\ Start(Target, Head(day.left)[2], nets[Target])
  /\ UNCHANGED <<box, side, excused, faults>>

\* Passes over the services while the worker lives.
Watch ==
  /\ day.at = "watch"
  /\ \/ \E m \in day.todo, ok \in BOOLEAN :
          /\ ok \in healthy(m)
          /\ day' = [day EXCEPT !.todo = @ \ {m}, !.affected = IF ok THEN @ ELSE @ \cup {m}]
     \/ day.todo = {} /\ day' = To(IF Busy THEN "watch" ELSE "join")
  /\ UNCHANGED <<box, side, op, excused, faults>>

Graded == ~op.err

\* worker.join(), and what the worker left in `failure`.
Join ==
  /\ day.at = "join" /\ ~Busy
  /\ day' = IF day.stop THEN [day EXCEPT !.at = "ended"]
            ELSE IF Graded THEN To("recover") ELSE Then(Entry("failed", FALSE))
  /\ UNCHANGED <<box, side, op, excused, faults>>

TimeUp == day.late

\* Passes that end at the first unhealthy service, until recover_within.
Recover ==
  /\ day.at = "recover"
  /\ \/ /\ ~(day.todo = Service /\ TimeUp)
        /\ \E m \in day.todo, ok \in BOOLEAN :
             /\ ok \in healthy(m)
             /\ day' = IF ok THEN [day EXCEPT !.todo = @ \ {m}] ELSE To("recover")
     \/ day.todo = {} /\ day' = Then(Entry("", TRUE))
     \/ day.todo = Service /\ TimeUp /\ day' = Then(Entry("", FALSE))
  /\ UNCHANGED <<box, side, op, excused, faults>>

Deadline ==
  /\ day.at = "recover" /\ ~day.late
  /\ day' = [day EXCEPT !.late = TRUE]
  /\ UNCHANGED <<box, side, op, excused, faults>>

\* Variant of OnStop: the game day ends while the worker goes on.
OnStopAtOnce == [at |-> "ended", op |-> [op EXCEPT !.at = "done"]]

\* `finally: worker.join()`.
OnStop == [at |-> IF day.at = "watch" THEN "join" ELSE "ended", op |-> op]

\* Ctrl-C, or a health check that raises, in the main thread of a game day; a
\* second Ctrl-C in join() ends the process, and the worker with it.
Stopped ==
  /\ Fault
  /\ \/ /\ day.at \in {"pre", "watch", "recover"}
        /\ day' = [day EXCEPT !.at = OnStop.at, !.stop = TRUE] /\ op' = OnStop.op
        /\ UNCHANGED excused
     \/ /\ day.at = "join" /\ Busy
        /\ day' = [day EXCEPT !.at = "ended", !.stop = TRUE] /\ op' = Raised("done")
        /\ excused' = excused \cup {p \in Broken(box) \cup {<<op.of, "slow">>} : p[1] = op.of}
  /\ UNCHANGED <<box, side>>

\* Ctrl-C between the calls of a command run alone (during a call it is a call
\* that fails): the fault is undone, unless that was already going on.
Interrupt ==
  /\ day.at = "alone" /\ Fault
  /\ \/ op.at = "cut" /\ op' = Raised("heal") /\ UNCHANGED excused
     \/ op.at = "hold" /\ op' = Raised(IF op.done = {} THEN "unpause" ELSE "heal") /\ UNCHANGED excused
     \/ op.at = "wait" /\ op' = Raised("delete") /\ UNCHANGED excused
     \/ op.at = "heal" /\ op' = Raised("done") /\ excused' = excused \cup ({op.of} \X op.done)
  /\ UNCHANGED <<box, side, day>>

Op ==
  \/ Pause \/ Unpause \/ ReadNetworks \/ Cut \/ Heal \/ Hold
  \/ Sidecar \/ StartSidecar \/ Wait \/ DeleteSidecar \/ Untc

Main == Alone \/ NextExperiment \/ Pre \/ Watch \/ Join \/ Recover

ChaosNext ==
  \/ Op \/ Kill \/ Main \/ Deadline \/ Stopped \/ Interrupt
  \/ \E k \in DOMAIN side : Script(k)
  \/ \E s \in Service : Exits(s) \/ Returns(s)

ChaosSpec == ChaosInit /\ [][ChaosNext]_chaosVars

----------------------------------------------------------------------------
(* Properties.                                                             *)

Ended == day.at = "ended"

Reports(s) ==
  day.stop \/ \E i \in DOMAIN day.card : day.card[i].of = s /\ day.card[i].skipped = "failed"

\* When a fault command or a game day has ended, whatever it paused, detached
\* or slowed down is back, however many calls failed and whenever Ctrl-C came;
\* what is not could not be undone, and the outcome says so.
Reverted ==
  Ended => Broken(box) \subseteq excused /\ \A p \in Broken(box) : Reports(p[1])
=============================================================================
