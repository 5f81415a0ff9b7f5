------------------------------- MODULE FanOut -------------------------------
(***************************************************************************)
(* Fleet fan-out (src/aisb/fleet/runner.py): one operation is run on every *)
(* host, batch after batch, by a pool of workers, with retries, a time     *)
(* limit per host, and SSH tunnels shared through the connection pool.     *)
(*                                                                         *)
(* Under a time limit an attempt runs in a thread of its own, which goes   *)
(* on when the worker stops waiting for it.  A host is never tried again   *)
(* after its limit, so it has one attempt at a time.  Hosts are numbered   *)
(* in the order given and all reached over SSH.                            *)
(***************************************************************************)
EXTENDS Integers, Sequences, FiniteSets, FiniteSetsExt

CONSTANTS
  N,           \* number of hosts
  Size,        \* hosts per batch
  Parallel,    \* workers
  FailFast,    \* do not start batches after a failure
  Retries      \* further attempts after an unreachable one

ASSUME FanOutAssumption ==
  /\ {N, Size, Parallel} \subseteq Nat \ {0} /\ Retries \in Nat
  /\ FailFast \in BOOLEAN

Host == 1..N

\* How an attempt ends: ok, an error, Unreachable, or an exception that _one
\* does not catch.  "timeout": the worker found no result.
Outcome == {"ok", "error", "unreachable", "crash"}

VARIABLES
  limit,   \* host_timeout: whether there is a time limit per host
  phase,   \* of fan_out: "next" batch, "gather" it, "raising", "returned", "raised"
  first,   \* the first host of the batch
  results, \* the results so far, <<host, result>>
  skipped, \* the hosts not tried
  place,   \* where each host is for the workers
  attempt, \* attempts made on each host
  res,     \* the result of the host's last attempt
  work,    \* what the host's attempt does: "none", "connect", "working"
  overdue, \* the hosts whose time limit is over
  tunnel   \* the hosts with an open SSH tunnel

fanOutVars == <<limit, phase, first, results, skipped, place, attempt, res, work, overdue, tunnel>>

FanOutInit ==
  /\ limit \in BOOLEAN
  /\ phase = "next" /\ first = 1
  /\ results = << >> /\ skipped = << >>
  /\ place = [h \in Host |-> "todo"]
  /\ attempt = [h \in Host |-> 0]
  /\ res = [h \in Host |-> "none"]
  /\ work = [h \in Host |-> "none"]
  /\ overdue = {} /\ tunnel = {}

Chunk == {h \in Host : first <= h /\ h < first + Size}

\* The batch, in host order.
InOrder == [i \in 1..Cardinality(Chunk) |-> first + i - 1]

SomeFailed == \E i \in 1..Len(results) : results[i][2] # "ok"

----------------------------------------------------------------------------
(* fan_out, the caller's thread.                                           *)

Batch ==
  /\ phase = "next" /\ first <= N
  /\ ~(FailFast /\ SomeFailed)
  /\ phase' = "gather"
  /\ place' = [h \in Host |-> IF h \in Chunk THEN "queued" ELSE place[h]]
  /\ UNCHANGED <<limit, first, results, skipped, attempt, res, work, overdue, tunnel>>

\* Variant of SkipBatch: out of the loop, no host is named.
SkipRest ==
  /\ phase = "next" /\ first <= N
  /\ FailFast /\ SomeFailed
  /\ first' = N + 1
  /\ UNCHANGED <<limit, phase, results, skipped, place, attempt, res, work, overdue, tunnel>>

SkipBatch ==
  /\ phase = "next" /\ first <= N
  /\ FailFast /\ SomeFailed
  /\ skipped' = skipped \o InOrder
  /\ first' = first + Size
  /\ UNCHANGED <<limit, phase, results, place, attempt, res, work, overdue, tunnel>>

\* pool.map yields the results of the batch in host order.
Gather ==
  /\ phase = "gather"
  /\ \A h \in Chunk : place[h] = "done" /\ res[h] # "crash"
  /\ results' = results \o [i \in DOMAIN InOrder |-> <<InOrder[i], res[InOrder[i]]>>]
  /\ first' = first + Size
  /\ phase' = "next"
  /\ UNCHANGED <<limit, skipped, place, attempt, res, work, overdue, tunnel>>

\* A worker's exception is raised when its turn comes; queued hosts are
\* cancelled.
Raise ==
  /\ phase = "gather"
  /\ \E c \in Chunk : /\ place[c] = "done" /\ res[c] = "crash"
                      /\ \A h \in Chunk : h < c => place[h] = "done"
  /\ phase' = "raising"
  /\ place' = [h \in Host |-> IF place[h] = "queued" THEN "cancelled" ELSE place[h]]
  /\ UNCHANGED <<limit, first, results, skipped, attempt, res, work, overdue, tunnel>>

Busy == {h \in Host : place[h] \in {"attempt", "settle", "backoff"}}

\* The executor waits for its workers, then the pool closes its tunnels.
Close ==
  /\ Busy = {}
  /\ \/ phase = "next" /\ first > N /\ phase' = "returned"
     \/ phase = "raising" /\ phase' = "raised"
  /\ tunnel' = {}
  /\ UNCHANGED <<limit, first, results, skipped, place, attempt, res, work, overdue>>

----------------------------------------------------------------------------
(* _attempt, a worker; the queue is first in, first out.                   *)

Try(h) ==
  /\ place' = [place EXCEPT ![h] = "attempt"]
  /\ attempt' = [attempt EXCEPT ![h] = @ + 1]
  /\ work' = [work EXCEPT ![h] = "connect"]
  /\ res' = [res EXCEPT ![h] = "none"]
  /\ UNCHANGED <<limit, phase, first, results, skipped, overdue, tunnel>>

StartHost(h) ==
  /\ place[h] = "queued"
  /\ \A g \in Host : place[g] = "queued" => h <= g
  /\ Cardinality(Busy) < Min({Parallel, Size})
  /\ Try(h)

\* Back from time.sleep: the next attempt, even when the limit is over by now.
Again(h) == place[h] = "backoff" /\ Try(h)

\* Return the result, or go to sleep before another attempt.
SettleHost(h) ==
  /\ place[h] = "settle"
  /\ place' = [place EXCEPT ![h] = IF res[h] = "unreachable" /\ attempt[h] <= Retries /\ h \notin overdue
                             THEN "backoff" ELSE "done"]
  /\ UNCHANGED <<limit, phase, first, results, skipped, attempt, res, work, overdue, tunnel>>

\* The limit passes for a host that is being tried.
Expire(h) ==
  /\ limit /\ h \in Busy \ overdue
  /\ overdue' = overdue \cup {h}
  /\ UNCHANGED <<limit, phase, first, results, skipped, place, attempt, res, work, tunnel>>

\* Variant of GiveUp: the worker waits for the attempt's thread all the same.
GiveUpLate(h) ==
  /\ place[h] = "attempt" /\ h \in overdue /\ work[h] = "none"
  /\ res' = [res EXCEPT ![h] = "timeout"]
  /\ place' = [place EXCEPT ![h] = "settle"]
  /\ UNCHANGED <<limit, phase, first, results, skipped, attempt, work, overdue, tunnel>>

\* The worker stops waiting; the attempt goes on without it.
GiveUp(h) ==
  /\ place[h] = "attempt" /\ h \in overdue
  /\ res' = [res EXCEPT ![h] = "timeout"]
  /\ place' = [place EXCEPT ![h] = "settle"]
  /\ UNCHANGED <<limit, phase, first, results, skipped, attempt, work, overdue, tunnel>>

----------------------------------------------------------------------------
(* _one, the attempt itself.                                               *)

\* The connection pool has an open tunnel for the host, or opens one.
Connect(h) ==
  /\ work[h] = "connect"
  /\ tunnel' = tunnel \cup {h}
  /\ work' = [work EXCEPT ![h] = "working"]
  /\ UNCHANGED <<limit, phase, first, results, skipped, place, attempt, res, overdue>>

\* Variant of End: the result goes to the host, whoever waits for it.
EndShared(h, o) ==
  /\ \/ work[h] = "connect" /\ h \notin tunnel /\ o = "unreachable"
     \/ work[h] = "working"
  /\ work' = [work EXCEPT ![h] = "none"]
  /\ res' = [res EXCEPT ![h] = o]
  /\ place' = [place EXCEPT ![h] = IF @ = "attempt" THEN "settle" ELSE @]
  /\ UNCHANGED <<limit, phase, first, results, skipped, attempt, overdue, tunnel>>

\* The attempt ends, unreachable also when the connection is lost or times out
\* after the operation has begun (Ssh.run); its result counts if the worker
\* still waits for it.  An exception that is not caught ends the attempt's
\* thread with no result: with a limit the worker reports a timeout, without
\* one it is raised.
End(h, o) ==
  /\ \/ work[h] = "connect" /\ h \notin tunnel /\ o = "unreachable"
     \/ work[h] = "working"
  /\ work' = [work EXCEPT ![h] = "none"]
  /\ IF place[h] = "attempt"
     THEN /\ res' = [res EXCEPT ![h] = IF limit /\ o = "crash" THEN "timeout" ELSE o]
          /\ place' = [place EXCEPT ![h] = "settle"]
     ELSE UNCHANGED <<res, place>>
  /\ UNCHANGED <<limit, phase, first, results, skipped, attempt, overdue, tunnel>>

TunnelDies(h) ==
  /\ h \in tunnel
  /\ tunnel' = tunnel \ {h}
  /\ UNCHANGED <<limit, phase, first, results, skipped, place, attempt, res, work, overdue>>

Caller == Batch \/ SkipBatch \/ Gather \/ Raise \/ Close
Worker(h) == StartHost(h) \/ Again(h) \/ SettleHost(h) \/ GiveUp(h)
Attempt(h) == Connect(h) \/ \E o \in Outcome : End(h, o)

FanOutNext ==
  \/ Caller
  \/ \E h \in Host : Worker(h) \/ Expire(h) \/ Attempt(h) \/ TunnelDies(h)

FanOutSpec == FanOutInit /\ [][FanOutNext]_fanOutVars

\* The threads keep running and time passes.  The operation itself may hang,
\* unless there is no limit to stop it.
Fairness ==
  /\ WF_fanOutVars(Caller)
  /\ \A h \in Host : /\ WF_fanOutVars(Worker(h)) /\ WF_fanOutVars(Expire(h))
                     /\ WF_fanOutVars(~limit /\ Attempt(h))

FanOutFairSpec == FanOutSpec /\ Fairness

----------------------------------------------------------------------------
(* Properties.                                                             *)

\* "Returns (results in host order, hosts skipped)": whatever order they end
\* in, each host is in one of the two, once and in order, with the result of
\* its last attempt.
EveryHostReported ==
  phase = "returned" =>
    /\ [i \in 1..Len(results) |-> results[i][1]] \o skipped = [h \in Host |-> h]
    /\ \A i \in 1..Len(results) : results[i][2] = res[i]
    /\ skipped # << >> => FailFast /\ SomeFailed

\* "a timed-out thread may finish later and must not fill the next attempt's":
\* the result of a host is final.
ResultIsFinal == [][\A h \in Host : place[h] = "done" => res'[h] = res[h] /\ place'[h] = "done"]_fanOutVars

\* fan_out ends; with host_timeout, even when operations hang for ever.
FanOutEnds == <>(phase \in {"returned", "raised"})
=============================================================================
