# A verification project for aisb

aisb is a client for the Docker Engine: about 200 operations in one registry (`ops.py`), offered through a command
line, an MCP server for agents and a web portal, on one machine or over SSH on a fleet. Around the operations it has
machinery that people rely on when something goes wrong: undo, an audit log, policy, runbooks with approvals, rolling
changes, desired state, monitoring, capsules, fault injection. This directory models that machinery in TLA+, checks it
with TLC on small instances, and proves the most important invariants with TLAPS for instances of every size.

`PROJECT.json` lists the components, the runs, the source lines behind every definition, the hazards of the code with
the properties that watch them, the findings and the theorems. Paths below are relative to `src/src/aisb/`, `docs/`
to `src/docs/`.

## Inventory

| Component | State | Operations | Interacts with | Correct means |
|---|---|---|---|---|
| Runbooks (`runbooks.py`, `api/runbook.py`) | one JSON record per run: status, sha of the file, step entries, answers | `run`, `resume`, `approve`, the engine `_execute` | operators are processes that share the record; steps run through `invoke` or a shell | no guarded command without approval, a waiting run can be answered, the verdict agrees with the steps |
| Audit log (`audit.py`) | a JSON-lines file, chained and signed; checkpoints kept elsewhere | `record`, `verify`, `anchor`, `load_key` | called by `invoke` after every change, by threads and processes under a file lock | one chain, no silent loss, no false alarm, forgery and truncation show |
| Fleet runner (`fleet/runner.py`, `fleet/ssh.py`) | batches, results, abandoned attempts; the pool's connections and locks | `fan_out`, `_attempt`, `Pool.get`, `Pool.close`, `Forwarder` | under every fleet operation | every host once and in order, one tunnel per host, nothing left open, it ends |
| Sessions (`api/session.py`, `insights/snapshot.py`) | baseline, journal of inverses | `begin`, `end`, `rollback`, the hook `capture` | hook of `invoke`; changes the daemon | a rollback can restore the baseline and its report is true |
| Invoke pipeline (`ops.py`, `policy.py`, `context.py`, `transport.py`) | run id, preview flag, dry-run mode of a transport | `invoke`, `enforce`, `dry_run`; nested by fleet operations and `remediate` | all front ends call it; it calls policy, session, the operation and the audit log in this order | nothing changes that was not allowed and confirmed; what was done is noted and recorded |
| Front ends (`cli.py`, `mcp.py`, `portal.py`, `exporter.py`) | the portal's two caches and its lock, the exporter's text | requests, confirmations, scrapes | call `invoke`, several threads at once | every request is answered; what is shown is not too old |
| Inventory (`fleet/inventory.py`, `fleet/sources.py`) | a JSON file of hosts, groups and selectors | `add`, `remove`, `group`, `import`, `select` | read by every fleet operation and by policy | a selector means what its terms say |
| Stacks and desired state (`stack.py`, `api/stack.py`, `fleet/desired.py`, `api/fleet.py`) | containers, networks, volumes of a host | `up`, `down`, `diff`, `converge`, `replace-drifted` | several processes and the users of the host | success means done, dependencies first, a host reaches its state |
| Watching (`api/fleet.py`, `api/system.py`, `fleet/health.py`, `insights/triage.py`, `notify.py`) | snapshots, events | `fleet watch`, `canary`, `system doctor`, `watch` | hosts that change meanwhile; sinks that fail | no change or failure is lost; a go is earned |
| Collecting (`api/fleet.py`, `api/system.py`, `insights/incident.py`) | watermarks, ring buffers, records | `fleet logs`, `system blackbox`, `incident` | containers that write, die and restart meanwhile | lines once, deaths recorded, the root is first |
| Remediation (`insights/remediate.py`, `api/system.py`) | plan, results | `system remediate` | `invoke` per action | what needs a person is left to one |
| Capsules, samples, seeds (`api/capsule.py`, `services/seed.py`, `services/subset.py`, `redact.py`) | a tar file; rows of a database | `capsule create`, `load`, `db sample`, `seed` | an application that inserts meanwhile | references hold, secrets accounted for |
| Services (`api/services.py`, `services/roles.py`) | a database container, its role, the credential file | `ready`, `clone`, `advise`, `grant-readonly`, `revoke-readonly`, `query` | the image's entrypoint, other processes | ready is real, a reported grant works |
| Chaos (`api/chaos.py`) | containers, networks, a sidecar | fault commands, game day | probes, a worker thread, Ctrl-C | what was taken is given back or reported |
| HTTP recorder (`api/http.py`, `insights/traffic.py`) | segments, rows | `record` by proxy or capture, `replay` | a client, a service | each request with its response, fair verdicts |
| Containers, volumes, networks (`api/`) | the daemon's objects | requests | everything above | as the components above use them |
| Images, files, root filesystems; formats and packaging; other reports | none | requests, parsing, reports | | not modelled, see below |

What is hard in nearly all of them: an operation is a sequence of calls to a daemon that goes on changing; files are
loaded, changed in memory and written back whole; several processes and threads do so at once; any call may fail, with
or without effect; a process may be killed between two calls. `hazards` lists where each of these bites.

## Plan and what is left

Done, in this order: runbooks, audit log, fleet runner, sessions; then the invoke pipeline with policy and its abstract
specification, inventory, converge, pool, datasets, capsules, services, chaos, monitoring, collecting, remediation,
the recorder and what is served from memory; then proofs of every safety invariant the runs check. Left for later,
in this order:

1. `Session` with a second process, database dumps and the hosts of a fleet session;
2. the other adapters' grants, `fleet ship`, the metrics history.

## Modules and how they correspond to the code

State variables stand for files, the daemon's objects and the locals of a process; one action stands for the code
between two calls that others can see. What a command computes, wording and formatting are left out. Histories (what
has been approved, whether anybody has interfered) are variables that no action reads to decide what it does.

**Runbook.** One run, whose record is `disk`. `pc[p]`, `mem[p]`, `ver[p]`, `idx[p]`, `failed[p]`, `tries[p]` are the
locals of operator `p` in `_execute`; `consent[p]` is `--allow-changed`, or `--resume` of approve. `Run`, `Resume`,
`Approve` are the commands up to their load; `Answer` and `Reopen` the halves of an approval, which loads the record
again before it goes on; `Skip`, `Wait`, `Granted`, `Denied`, `Sleep`, `Start`, `Exec`, `Record`, `PassDone`, `Unknown`
the branches of the loop; `Finish` writes the verdict. `Crash` may come anywhere, `EditFile` changes the file to
another parsed content. `BookAssumption` is what the parser guarantees, plus: a step keeps its kind with its name.

**AuditLog.** `log` is the file as a sequence of lines, `tail` how the file ends after a torn write. `LoadKey`, `Lock`,
`Write`, `Tear` are the steps of `record`, `Die` the end of a process with the lock, `Configure` a change of the key,
`Anchor` a checkpoint, `Tamper` an outsider; `Verify` has the three outcomes of `verify`. Hashes are taken to be
collision-free (a hash is the sequence of bodies it covers) and a mac to need its key.

**FanOut, Pool.** `phase` is the caller of `fan_out`, `pc[h]` the worker that has host `h`, `work[h]` the attempt's own
thread, which outlives its worker when the limit is over (`GiveUp`); `End` delivers a result only to a worker that
waits. `Pool` is what is below: `Ask` and `Take` are the two locks of `Pool.get`, `Hit`, `Miss`, `Open`, `Store` its
branches, `Dial` a port forward, `CloseBegins`, `CloseOne`, `CloseEnds` the walk over `_conns`.

**Session.** `world` is what the daemon holds: containers with their run state, volumes with files, networks. `Change`
journals the inverse computed from the world before it, `OpCall` makes the change call by call; `Rollback` plans
(added containers, inverses newest first, added volumes and networks), `UndoCall` executes, `UndoFails` is a step that
fails, `Finish` marks the entries, `Crash` cuts any of it. `DownInverse` notes every container of the stack, also when
one service goes down. `NotModified` is a start or stop that changes nothing: the command takes the daemon's 304, a step
of a rollback is reported failed by it. `Anonymous` are the names that the daemon gives to anonymous
volumes: a person may restore or remove such a volume but makes no other of its name. `Booting` is the container a
rollback has created and not started yet, `cut` the history of those at which one was cut.

**Policy, Invoke, Guardrail.** `Policy` is `policy.check`: which rules apply to a call, their conditions and windows.
`Invoke` is one stack of invocations for each thread: `Enter` (preview or policy), `Hook`, `Look`, `Send`, `Spread` over
hosts and `Gather`, `Remedy` and `Back` for operations that invoke others, `Audit`; `Ask`, `Says`, `Close`, `Reply` are
the command line, the MCP server and the portal, `Overview`, `ReadOverview`, `StoreOverview`, `Expire` the portal's
cache under its lock. `Guardrail` is the abstract specification: a request is asked with a permit; the undo of a thing
in the permit is noted, the thing is changed, what was changed is recorded, and an answer that says done comes only
after that. `Guarded` is `Guardrail!Spec` under the mapping of `Guard == INSTANCE Guardrail WITH ...`.

**Selector, Inventory.** `Fold` and `Members` are the evaluation of a selector with groups whose members are computed;
`SelectorMeaning` compares it with a definition by membership. `Inventory` has three processes that `LoadFile`, edit and
save, with the file's validation on every save.

**Converge.** A host with two stacks and two processes, one of which runs `fleet converge` again and again. Every call
of `up` (`FindNet`, `MakeNet`, `MakeVols`, `Look`, `Create`, `StartService`, `Gate`) and `down` is a step; `Exits`,
`Pause`, `EditStack` and `Kill` come from outside.

**Relations, Dataset, Capsule.** `Relations` are tables, keys and foreign keys. `Dataset` is `db sample` and `db seed`
query by query while insertions (`AppInsert`) go on; `Capsule` extends it with `create` (`Inspect`, `DumpSchema`, `AddSample`,
`AddVolume`, `AddManifest`) and `load` (`Check`, `EnsureImage`, `CreateContainer`, `PutArchives`, `Replay`,
`RunScript`), each of which may fail. In `db seed`, `AskParent` counts the parents, `AskPool` picks the rows a reference
may point to, `CountRows` is where the numbers begin, `MakeRow` makes a row in up to twenty attempts or leaves it out,
`Insert` inserts them. `Kind` is what `Generator.value` does for a column: `serial` columns get the index of the row
(integers, emails, slugs, codes and the like, and random UUIDs), `random` ones a value that another row may have too (names, titles,
cities, dates, amounts, choices, texts that `maxlen` cuts), `sequence` and `default` ones are left to the engine, `bytes`
are left out. Which of these a column is, is read from the table in lines 164-244 and from its default. Keys are the
primary key and every other UNIQUE constraint. A `strict` table has a constraint of another kind (CHECK), which its
rows may violate. `Sound` says of a database that seeding the tables asked for can succeed at all (`CanFill`: each key of
a filled table has a column numbered above what is there, or a sequence, or a NULL); it is computed when the command
begins and no action reads it.

**Service.** The entrypoint of a Postgres image goes from nothing over the temporary server to the real one; processes
run `clone`, `advise`, `ready`, `grant-readonly`, `revoke-readonly`, `query`, are killed, and the container stops.
Only the Postgres path of a grant is modelled.

**Chaos.** `op` is a fault command, alone or as the worker of a game day, `day` the main thread with its probes;
injection, hold and repair are made network by network, calls fail with or without effect, `Ctrl-C` reaches the main
thread.

**Triage, Monitor.** `Triage` is the rules over one container's facts, `doctor`'s verdict and a host's. In `Monitor`
the attempts at hosts are calls of their own (`ReadVitals`, `List`, `Inspect`, `ReadLog`), `GiveUp` is the time limit,
`Poll` compares snapshots for `fleet watch` and sends batches to sinks, `Baseline` and `Decide` are `canary`, and
`ListStates` and `PollDaemon` are `system watch`. A host's vitals are its disk in use, its memory available and its
load per processor, each as many numbers as the probe prints of it, none or one: a host over TCP prints none, since no
shell is asked. `cmd.http` is `--http` of a canary; one request, served or not, stands for its `--probes`, and the ratio of
latencies is left out. The log of a container is what `--tail` gives of it.

**Collect, Remedy.** `Collect` has `fleet logs` (`Follow`, `Read`, `Merge`, `Late`), the flight recorder (followers
that read chunks and fill ring buffers, `NextEvent`, `InspectDead`, `Save`) and `incident` (`ReadEvents`, `ListAll`,
`ReadLog`, `Report`). A line has a level and a template. `Read` gets the last `MaxLines` lines (`--tail`) since the
watermark, and `cut` are the containers of which that was not all. `Strikes` are the events that count as failures: a death
with any code but 0 and 143, 137 included, running out of memory, and becoming unhealthy. `Signals` are the lines of a log that
`incident` keeps: of the last `LogLines`, warnings and errors, the first of each template, five templates (`MaxTemplates`)
for both levels together. `Remedy` scans, examines and plans, then does one action after the other.

**Recording.** A connection is a sequence of tokens in two directions, captured as segments in any order; `Reassemble`,
`Parse` (whose loop is the recursive function over `ParseOne`) and `ExchangesFromPcap` are the functions of `traffic.py`,
`Forward`, `Reply`, `AppendRow` the proxy, `BadGateway` its own 502, `SendNext` the replay. A body is kept as text or, if
it holds a NUL and is not called text, in base 64 (`Binary`); a row has what `replay` takes of it (`Text`), which is
nothing of a body in base 64: such a request is sent without its body, and such an answer is compared as the empty
text. Tokens stand for what the masks of volatile values leave of a body.

**Serving.** The exporter's loop and its scrapers, and the Fleet tab's cache, over a clock.

The MC modules give constants their values. Five of them (`MCOrchestrate`, `MCShared`, `MCUndo`, `MCMachine`, `MCWatch`)
put components that share nothing into one run: a variable `part` says which one moves in a behaviour, and the others
stay at their first state. The behaviours of the run are those of the components, side by side, so each property is
checked as it would be alone; interleaving components that share no state would only multiply states.

## Runs

| Run | Shows | Instance |
|---|---|---|
| `orchestrate` | runbook: `NoRerun`, `VerdictMatchesSteps`; converge: `OkMeansDone`, `StartsInOrder`, `Heals` | one operator, a runbook with every step kind and `when`, a retry and an edit; two processes, two stacks, one command beside converge, two events |
| `runbook_two` | `GateNeedsApproval`, `WaitingIsAnswerable` with every interleaving | two operators, a gate and its command, an edit |
| `shared` | `ChainHolds`, `NoSilentLoss`, `HonestLogVerifies`, `SignedLogIsGenuine`, `AnchorsHold`; pool: `OnePerHost`, `NothingLeft` | two writers, three lines, two torn writes, a change of key, two edits; two workers, two hosts, two connections |
| `fleet` | `EveryHostReported`, `ResultIsFinal`, `FanOutEnds` | four hosts, batches of three, two workers, a retry, fail-fast, with and without a limit |
| `undo` | session: `AlwaysUndoable`, `ReportIsTrue`, `NothingResurrected`; recorder: `PairsAreReal`, `ReplayIsFair` | every machine of two containers, two volumes, a network, three commands, one fault; talks of two exchanges, one with a chunked answer to HEAD, segments of at most two tokens, reordered, repeated and cut, sequence numbers of 16 from 0 or 13, so that some wrap; bodies plain, binary and binary by their bytes but called text, kept up to one token |
| `invoke` | `Guarded` (refinement), `OverviewShowsChanges`, `Answered` | a command line, an MCP server, two tabs, two hosts, several policies, one fault |
| `machine` | `SampleIsWhole`, `SeedFills`, `SecretsAccounted`, `Reverted`, `SelectorMeaning` | schemas with cycles, self references, references to other columns than the key (`Org`, `Circle`), keys made of references (`Link`), references of two columns (`Pair`), columns of every kind, a unique name, a hash and a CHECK (`Tags`), on empty and on filled tables; two rows in two attempts, one insert, two loads, two faults; a stack of two; three inventory commands |
| `watch` | `ChangesReported`, `NoFailureMissed`, `GoIsEarned`, `PersonDecides`, `ShownIsCurrent`, `GrantHolds`, `ReadyIsReal` | two hosts, one with a disk at 95 % at first, that come to a disk at 85, memory at 7 % and a load, or to memory at 4 % and no more printed; two polls, two changes, two sinks, canaries with and without `--http`; three actions; eight seconds of a clock; three service commands of two processes, one fault |
| `collect` | `LinesOnce`, `DeathsRecorded`, `RootIsFirst` | an api that depends on a db, three or four happenings, one failing call; `--tail` 2, two lines scanned, one template kept, so that each limit is exceeded |
| `runbook_unreviewed` | violation: `approve --resume` runs a changed file | one operator, one edit |
| `session_again` | violation: a volume made again after a rollback survives the next | one volume, four commands |
| `remedy_decisions` | violation: an OOM-killed container with a full disk is started, and nobody is told of the disk | one container |

The three violations are disagreements between the code and its own documentation; `findings` quotes the lines. What
they violate is stated apart from the properties of the passing runs, which hold as stated.

**Bounds.** Two processes are enough for every pairwise interleaving of a load and a save; a third repeats one of the
two. The books hold every step kind and mode once. Three log lines let an edit touch the first, a middle and the last;
two torn writes let one fall on the other's remains. Four hosts in batches of three give a full and a short batch, more
hosts than workers and a host after a failed batch. Three session commands are two changes and a rollback that is cut;
`AlwaysUndoable` follows the next rollback to its end by itself. The stack of that run has one container; that a
`down` of one service notes all of them is covered by the proof. Two polls and two changes let something change and
change back between two snapshots, within one, or during one host's calls. Two seconds let a line fall into the second
of the watermark or after it. `CHECK_DEADLOCK FALSE` stands in every `.cfg` because these systems stop: a run is done,
a bound is reached, a command has returned.

**Exceptions stated in properties.** `AlwaysUndoable` and `ReportIsTrue` let a container stay stopped when a rollback
was cut, or is, between creating and starting it (`cut`, `Booting`: the next rollback takes it for already back), and a
volume stay that an earlier rollback removed by an inverse (`Shadowed`, the finding). `OkMeansDone` asks nothing once somebody else has changed the host.
`Heals` leaves out paused services. `GoIsEarned` and `NoFailureMissed` speak of hosts that have not changed since they
were asked, and `GoIsEarned` promises a service that runs only of a canary with `--http` whose baseline served its requests. `DeathsRecorded` asks a record of first lives only. `LinesOnce` asks all lines only of hosts that answered and
never wrote more than `--tail` lines between two polls, `RootIsFirst` counts an error in a log if it is within the lines
scanned and not after five other templates (`Told`). `ReplayIsFair` speaks of answers kept whole and as text. `SeedFills` leaves out databases the command does not
claim to fill: a required reference that nothing present or seeded before can meet, or to columns that may be NULL; a
circle of tables; a column of two references; a table with a CHECK, or with bytes it cannot do without; a filled table with a
key in which no column is numbered (random values or references only), or whose numbers there are above its count; and a
key that contains a default of the engine that may be the same for two rows. `NothingLeft` leaves out pools closed with abandoned workers. `ShownIsCurrent` leaves out a scrape
that a refresh's end falls into. Without these exceptions they fail; the observations below say how.

**Fairness.** `FanOut`: weak fairness of the caller, of each worker and of the passing of its limit; of the attempt
only when there is no limit, since with one it may hang and `fan_out` must end all the same. `Converge`: each process
that is not dead goes on, cron calls converge again, and a container that starts becomes ready or exits; exits, pauses,
edits and kills are not fair. In `MCOrchestrate` the behaviours in which the runbook moves do not satisfy this fairness
while converge stands still, so `Heals` speaks of the others. `Invoke`: each thread's step and each front end's; the
portal's threads are scheduled by the system and its lock is released. Faults, changes and commands are never fair. The
other modules are checked for safety only.

## Proofs

`tlapm` checks every step, down to the leaves, for every value of the constants; nothing is assumed but the named
assumptions on constants below. A proof has the same course everywhere: the property is not inductive, because it speaks
of what is left at the end of a command and not of what its steps still have to do; the inductive invariant says, for
each place a process can be at, what it knows there and what it owes; each action, or group of like ones, has a lemma.

- `OrchestrateProofs`. Of the runbook, `GateNeedsApproval` (`GatesHold`), `WaitingIsAnswerable` (`WaitingAnswerable`): a save replaces the
  record by a copy loaded long before, so `IInv` says of *every* copy, the saved one and each operator's, that it is
  sound: its approvals were really given (`Backed`, `Given`), a gate it has as done was approved, at most one step waits
  and the status says so (`OneWaiting`). `VerdictMatchesSteps` (`VerdictIsTrue`) needs, of an operator in the engine,
  that what it has passed agrees with its verdict so far (`Course`). `NoRerun` (`DoneStaysDone`) holds only as long as
  operators take turns, and the theorem has that as its hypothesis, `[]TakeTurns`: two operators at once do run a step
  again (see below). Crashes, edits and any order of commands are allowed. Of converge, `OkMeansDone` (`OkIsDone`) and
  `StartsInOrder` (`StartsAreInOrder`) from `ConvergeInv`: a process nobody has disturbed has read what is still so
  (`ReadsHold`), has left the stacks it is done with in order (`DoneHolds`), and has found or put in order what it has
  passed in the one it is at (`HereHolds`).
- `AuditLogProofs`. `ChainHolds`, `NoSilentLoss`, `SignedLogIsGenuine`, `AnchorsHold`, `HonestLogVerifies`
  (`HonestLogPasses`). `IInv`: the lock excludes and what its holder read is still the last hash (`Exclusive`), every
  mac in the file was made by a writer (`MacsMade`), an untouched file holds all records or shows a spoiled line
  (`Kept`) and is chained if no write tore (`Chained`), checkpoints commit to what they saw (`Committed`). `HonestInv`
  adds that an honest log is line by line what `record` makes with the present key. The bridge is `HashIsPrefix`: in a
  log without a broken line the hash of line n is the sequence of the first n bodies, shown by the least n for which it
  is not (`HasLeast`), in place of an induction.
- `InvokeProofs`. The refinement `Guarded` (`PipelineIsGuarded`): the initial state maps to one of `Guardrail`, every
  step to a step or a stutter. `IInv` says what every invocation on a stack may do (`FrameOK`: a loud one is in the
  permit or about to be refused, and past the hook it has been noted), that the bottom one is that of the request
  (`Lead`), that helpers exist only while it waits for them (`Helpers`), and that a change is recorded, or will be, or
  its loss is carried to the answer as an error (`Debts`). `OverviewShowsChanges` (`OverviewIsCurrent`) follows from
  `PInv`: who makes the overview holds the lock, so nothing is acknowledged between reading and keeping it (`View`).
- `FleetProofs`. `OnePerHost` (`OneTunnelPerHost`) and `NothingLeft` (`NoTunnelLeft`) from `PoolInv`: a worker at a
  host's connection holds its latch (`WorkerOK`), a kept connection is its host's (`KeptOK`), a live tunnel is kept or
  about to be (`TunnelOK`), and if no worker is abandoned everything alive will be closed (`Unabandoned`).
  `EveryHostReported` (`HostsAreReported`) and `ResultIsFinal` (`DoneIsFinal`) from `FanOutInv`: the results so far are
  those of the hosts before the batch, in their order (`Told`), and no later host has been touched (`Ahead`).
- `SessionProofs`. `AlwaysUndoable` (`RollbackRestores`), `ReportIsTrue` (`ReportIsTrusted`), `NothingResurrected`
  (`NothingComesBack`). `SessionInv` holds while no fault is silent (`Sound`): the inverses in the journal restore the
  baseline from the world as it is (`Recorded`), the calls a change still has to make are covered by them (`Ahead`), and
  a rollback has in its list what completes it, all of it from the journal (`OnCourse`). Three facts carry it: the entry
  of a change widens the journal by exactly what the change is about to destroy (`Widens`), a covered call breaks
  nothing, and a step of a rollback, done, found settled or cut, leaves what completes it (`StepCompletes`). That
  `UndoAll`, a recursive function, brings the baseline back is shown by a least counterexample too. And of the recorder
  `PairsAreReal` (`RowsPairUp`) and `ReplayIsFair` (`ReplayJudgesRightly`) from `HttpInv`: a kept segment is a part of its
  stream under the number of its place (`Captured`), and what a row and a result say was true when it was made. Segments
  without a hole, placed in the order of their numbers, make a start of the stream (`ReassembleIs`); the reader takes one
  whole message after another from it, cut at most in the last (`ReadOne`, `ParseIs`); so the rows are the exchanges in
  their order (`RowsArePaired`). That a recursive function has a value at each number, and which, is shown by the least
  number for which it fails.
- `CollectProofs`. `LinesOnce` (`EachLineOnce`) from `FollowInv`: for a container that never failed to answer and whose
  answers were never cut by `--tail`, what has been printed is a
  prefix of its log, the watermark is the time of its last line, and what was seen in that second is remembered
  (`Steady`), so the next poll, which begins within that second, repeats nothing; for the others, that what is listed
  has been seen is enough for no line to come twice. `DeathsRecorded`
  (`FirstDeathsRecorded`) from `RecordInv`: what a follower has read is whole lines without a hole, a record is of an
  event, and every first death among the events passed has one (`Recorded`), unless the records are full. `RootIsFirst`
  (`RootFailedFirst`) from `IncidentInv`: each failure there was at the beginning has been heard of, or is in a log still to
  be read, or is of a container that has gone, or of a log in which the first error is not kept (`Told`); a log grows at its
  end only, so that a first error that is kept now was kept of the shorter log too; the least of those that depend on no other failed one exists because the
  sets are finite.
- `MachineProofs`. `SampleIsWhole` (`SamplesAreWhole`): in a worklist no selection is forgotten before all it refers to
  is selected (`NoneForgotten`), which survives inserts because a selection is by key. `SecretsAccounted`
  (`NoSecretIsLost`): the file is complete before a load changes anything, and the container has what was supplied
  (`FileSays`, `Loadable`, `Filled`). `Reverted` (`FaultsAreReverted`) from `ChaosInv`: whatever is broken of a service
  is excused or the command at hand is to undo it (`AllUndone`), a sidecar that runs is the command's own
  (`SidecarsKnown`), and what is excused is in a report or will be (`Told`). `SeedFills` (`SeedSucceeds`) from `SeedInv`: as
  parents are counted, what is needed grows to what `Sound` speaks of (`Counted`); each table still to fill can be filled
  by what is there and what comes before it (`InOrder`); the pools are what is there (`Pooled`); and the rows made have
  keys of their own, by numbers above those in use or by what was seen in the batch (`Making`), to which the engine adds
  the numbers of its sequences. `SelectorMeaning` (`SelectorsMean`): every file that a
  command saves is one that loads (`InventoryInv`), the fold over the terms of a selector is what they say (`FoldIs`), and
  groups whose selectors name each other are computed by a recursion that ends, since no group leads back to itself, over
  the finite sets of groups that have led to it (`Recursive`, `SameMembers`).
- `WatchProofs`. `ShownIsCurrent` (`ShownStaysCurrent`) from `ServingInv`, which bounds the age of what is kept by the
  place of the loop and the clock; `PersonDecides` (`PersonHasDecided`) from `RemedyInv`: no container is examined twice
  (`Once`), and an action is only of one not left alone (`Allowed`); `GrantHolds` (`GrantIsKept`) and `ReadyIsReal`
  (`ReadyMeansReal`) from `ServiceInv`: once a probe has passed the data directory is initialized, so a server that is
  starting is seen in the log at the next poll (`PollOK`), and the password of a grant is in use as long as no other
  process has changed the role (`GrantOK`). `ChangesReported` (`ReportsLead`), `NoFailureMissed` (`FailuresFound`) and `GoIsEarned`
  (`GoIsDeserved`) from `MonitorInv`: an attempt at a host that is still reachable and unchanged has read what the host
  is (`Attempts`), the snapshots compared are of the same kind (`Comparison`), and the events so far lead from the first
  snapshot to the last, for the hosts and for each container of `system watch` (`Changelog`).

**Assumptions on constants.** TLC evaluates each of them in a run. `BookAssumption` is what the runbook parser
guarantees, plus: a step keeps its kind with its name. `AuditAssumption`, `PoolAssumption`, `FanOutAssumption`,
`RemedyAssumption`, `ServiceAssumption`, `ServingAssumption`, `DatasetAssumption`, `CapsuleAssumption` and
`ChaosAssumption`, `BoxAssumption`, `RecorderAssumption`, `ScanAssumption` and `MonitorAssumption` say that bounds are numbers, sets the code holds in memory are finite, maps have their domains, and
that a value for "none" or "free" is not one of the others. `RecordingAssumption`: initial sequence numbers are below the
modulus and a segment is at most half of it, as TCP's window is. `SchemaAssumption`: the databases a sample starts from
satisfy their keys, NOT NULL and foreign keys, which their engine enforces, and are finite sets of rows of numbers; references go from columns
of a table, each named once, to as many columns of a table of the schema, though `services/sql.py:689` tolerates a parent
outside. `InventoryAssumption`: the groups are finite, a file to begin with is one the code would load, and a selector is a
sequence of terms of the kinds the parser makes. `ConvergeAssumption`: a stack is not empty and a dependency is a
service of its own stack, as `stack.py:93` checks, and a service of the model is one of one stack, since the code finds
it by both names. `InvokeAssumption`: what an operation invokes is no fleet operation, is of no higher tier and invokes
nothing in turn, as with `remediate`, the one that does. `SessionAssumption`: an anonymous volume belongs to one
container, and the services of a stack have none.

**What failed proofs have shown.** Each attempt that failed for a reason was a finding about a model or the code. In
`Session` two situations were missing from what a person may do and from what the properties except: a rollback that is
cut just before it starts a container (`Booting`), and a volume made by hand under the name of an anonymous one (left
out, described below). In `Invoke` a worker counted as finished when an inner invocation of its was (`Gather`), and the
permit forgot what an operation invokes on a host and the policy of that host (`Permit`). In `Chaos` a sidecar created
before its target restarted stayed outside the new namespace even when started after it (`StartedSide`). `NoRerun` is
false with two operators, hence the hypothesis. `NoFailureMissed` said nothing of memory until the vitals were made part of a host,
`RootIsFirst` nothing of errors that are not kept, and `ReplayIsFair` nothing of binary bodies; with each of these in the
model the property as it was fails. `SeedFills` was wrong in several places: `Needs` asked that all columns of a
reference be NOT NULL where the code seeds the parent if one is (`services/seed.py:254`), the attempts at a row
(:277-292) were missing, columns were taken to be numbered that are random, and the condition under which seeding must
succeed overlooked a required reference to the own,
empty table, columns of two references, keys made of nothing but references, and references to columns that may be
NULL. The case of such a key is a disagreement with the docstring, see below. `PairsAreReal` lacked two premises, that
sequence numbers do not wrap and that no answer to HEAD says it is chunked; TLC finds both cases once the run contains
them, as it now does, and the model had let the service send a last chunk after such an answer, which hid the second.

**Only model-checked.** `Heals`, `FanOutEnds`, `Answered`: liveness and `ENABLED` are beyond the prover. That no policy forbids too much is left open by
`InvokeProofs`: it takes `policy.check` as any function.

## What the models leave out, and what reading the code for them has shown

These are disagreements, limits and oddities that no property forbids: either they follow from a choice the code makes,
or the property that would forbid them is stated with the exception named above.

**Runbooks.** `resume` refuses only a run whose status is done, so a second operator may resume a running one and start
a step again that the first is in or has just recorded (`api/runbook.py:61-63`; `docs/ops-guide.md:763` says completed
steps are never re-run). `NoRerun` is therefore checked with one operator. A resume with `--allow-changed` of a file
with a new step dies at that step with a KeyError after the steps before it were made.

**Audit log.** The key is loaded (`audit.py:123`) before the lock is taken (:130): a process that found no key may
append an unsigned record after the first signed one, and `verify` then reports that signatures were stripped of a log
nobody touched. `HonestLogVerifies` speaks of logs in which that has not happened.

**Fleet runner.** After `host_timeout` the attempt's own thread goes on, also into the next batch, so more than N hosts
may be worked on at once (docstring `runner.py:165`: "N hosts at a time"). An ssh that is lost or gives no answer in
time after the operation has begun is `Unreachable` (`ssh.py:66-69`) and is retried, although the docstring says nothing
ran there yet. `Pool.close` iterates `_conns` while an abandoned worker may store a connection of a new host, and then
raises and leaves tunnels open; a worker that gets its connection after the close leaves its ssh open; the forward of a
replaced connection is never closed. All of these need `host_timeout`.

**Sessions.** One process and one machine. Left out: names of baseline containers used again by hand (a test documents
that they count as already back), references by id (`api/session.py:125`: after `stop ID; rm ID` the start of the
recreated container fails and is reported), a start of a container that is running already, which a rollback
undoes by another start: the daemon answers 304 and the step is reported as failed although nothing is wrong
(`transport.py:211`, `api/session.py:332`; after that `ReportIsTrue` judges no report of the session), `rm` without `--volumes` of a baseline container with an anonymous volume
(:295, it gets a fresh one), removal of a network that a stopped container is on, database dumps, and volumes made by
hand under the name of an anonymous volume: after `rm --volumes` of its container, `volumes create` and `volumes restore`
of that name, and a rollback that is cut when its steps are done but the journal is not written (:238), the next
rollback takes the container for back, clears the volume, which it takes for added, and leaves it empty. The journal is read at
the start of a rollback and written whole at its end (:238), so an entry of another process in between is lost. The
daemon is external: it refuses to remove a volume in use or a network in use and to create a container whose network is
missing, as the stateful daemon of the repository's tests does for creation.

**Pipeline.** A rule that names a host no longer in the inventory matches nothing (`_host_matches` turns the
`ValueError` into no). `fleet shell` and `fleet ship` invoke no inner operation and so meet no policy per host. The MCP
server dies of exceptions other than the three kinds it catches. `/api/fleet` does not catch `PolicyDenied`
(`portal.py:170-174`). The overview's cache is cleared by the portal's own successful changes only, the Fleet tab's by
none. `remediate` catches two kinds of error only, so a denied inner action ends all of it (`api/system.py:483-488`),
its preview does not show inner violations (`docs/ops-guide.md:178`), and an inner result that says it did not succeed
counts as done.

**Inventory.** Of two overlapping commands one edit is lost (`api/fleet.py:119`). `group x --add a --remove a` saves and
then raises that the group is unknown.

**Converge.** A paused container is stopped for the plan and running for `up`, which leaves it. A probe that never
succeeds never converges. `up` starts what depends on a drifted service without asking whether it is ready
(`api/stack.py:75`). Services removed from a stack file are not reported. `replace-drifted` leaves the drifted services it
has removed when an earlier one does not become ready.

**Datasets, capsules.** The queries of a sample share no snapshot; only inserts are modelled. `db seed` looks at direct
required parents, numbers ids from the count, and keeps keys unique within the rows it makes only: `seen` (`services/seed.py:270`) begins empty, so a filled table with a key
made of references, or of random values such as a unique name or title, may be given a value it has, and the INSERT fails, though the docstring (`api/services.py:432-433`)
speaks of rows that satisfy uniqueness; `Sound` excepts it. So do numbers when rows have been deleted (the count is below
the last id), or when `--rows` and a bound of the column (`minimum`) move them. CHECK constraints are read for bounds and
lists only, the others may fail. Of Postgres, unique indexes that are no constraints are not read
(`services/seed.py:114-124`), and a sequence that lags behind ids given by hand gives one that is taken; neither is in the
model. A batch is one statement in the model, one for every
500 rows in the code. A capsule's volumes are named after the new
container and may exist already, with another capsule's files, though `api/capsule.py:176` speaks of fresh ones. A
load that fails rolls nothing back. Archives are opaque values, and volumes of a running database are archived live.

**Services.** With `--stable 0` the temporary server could be taken for ready. A log that says START without DONE keeps
`ready` pending; a DONE of an earlier life hides a new initialization. Overlapping grants may store a password that no
longer logs in, and the credential file is read, changed and written without a lock; a killed grant leaves a password
nobody knows, which the next grant repairs.

**Watching.** A container that goes away while `doctor` looks at it makes its host down, though down means unreachable
in the docs (`fleet/health.py:81`), and ends `system watch` without an answer. What a container's facts say comes from
several calls. A recovery has level 0, so a sink with a `min_level` is never told. Baseline hosts that cannot be reached
count as faultless. Without `--http` a canary whose service has exited with 0 or by a stop may get a go: its verdict is not
`failing`, and nothing asks whether it runs (`api/fleet.py:516-526`); with `--http` it may when the baseline does not serve
either. `fan` catches `NotifyError` only: a sink whose URL has no scheme makes `urllib` raise another ValueError
(`notify.py:69`), which ends the watch and hides the other sinks, though the docstring (`notify.py:122`) says that one
failing sink never does; the model's sinks fail with the former. The metrics history, p50 latencies and rules on resources are not modelled.

**Collecting.** A late answer's lines are lost with `host_timeout`, `--tail` loses bursts of more lines than it allows
between two polls (in the model, and excepted), and a clock that steps
back loses lines. A character split over two frames becomes two replacement characters. A container that restarts is not
followed again; a death may be taken for that of the life before, and two in one second share a record. `incident`
reads its signals in separate calls and skips a log it cannot read. Of each log it keeps five templates of warnings and
errors together (`api/system.py:267`): an error after five different warnings is no signal, and a container that failed only
so is neither a root nor in the chain; `Told` excepts it. That it takes the last 2000 events at most is not modelled.

**Exporter.** The text and the error are set and read one after the other, so a scrape that a refresh's end falls into
may show old data without the note of a failure.

**Chaos.** `inject` stands outside the `try` (`api/chaos.py:43-49`), so a pause whose call fails
after it took effect is not undone (a partition heals itself); a second Ctrl-C while the worker is joined leaves the
fault; an interrupted game day discards the worker's failure.

**Remediation.** The new memory limit is computed from one read before, so a limit raised in between may be lowered. A
start goes on after a failed raise. `doctor` is called without stats, so "at its memory limit" is never found. A job
that has completed, or a container stopped on purpose, is started again if it is otherwise degraded: the restart policy
is never looked at (`insights/remediate.py:87-92`; `docs/ops-guide.md:798` says it is).

**Recorder.** `setdefault` keeps the first payload of a sequence number, so the data of a longer retransmission is
lost; the hole of a lost packet is closed silently; a capture that starts within a connection shifts the pairs;
sequence numbers that wrap within a connection are put in the wrong place by the numeric minimum (`traffic.py:96-97`). A
chunked answer to HEAD makes the parser raise. `PairsAreReal` has these as its premises: no hole, no wrap (`Wraps`), no
such answer (`ChunkedHead`). Bodies cut by `--max-body` are replayed cut. A body with a
NUL in it is kept in base 64 and has no `text` (`traffic.py:18-19`), which `replay` takes for the empty one
(`api/http.py:235`, :249): such a request is sent without its body, and such an answer never matches its own like but
agrees with an empty one. Interim answers (1xx) are not modelled. A proxy's row is appended after the reply, so exchanges in
flight at the end are missing. One connection is modelled; `get` and `send` are not.

**Not modelled at all.** Images, files in containers and root filesystems are requests and tar parsing; formats and
packaging (yamlish, compose, models, supply, bundle, completion, manpages, pyinfra) are parsers and generators of text;
the adapters for services other than Postgres are commands for other programs and the parsing of what they print; disk
usage, rightsizing, vulnerability, package and environment reports are thresholds and patterns on data read once. None
of them keeps state or has an order of steps for a property to be about.
