------------------------------ MODULE Session ------------------------------
(***************************************************************************)
(* Undo for Docker (src/aisb/api/session.py): before a change is made, its *)
(* inverse is written to the session's journal; rollback removes what was  *)
(* added since the baseline and replays the inverses, newest first.        *)
(*                                                                         *)
(* The daemon is external.  A container is on one network and mounts one   *)
(* volume, and the contents of a volume are the files in it.  A change is  *)
(* the calls it makes to the daemon, one step each, and may be cut between *)
(* any two of them; so may a rollback.  There is one machine and one       *)
(* process at a time.                                                      *)
(***************************************************************************)
EXTENDS Integers, FiniteSets, SequencesExt

CONSTANTS
  Container, Volume, Network, File,
  NetOf, VolOf,  \* what each container is on and mounts
  Anon,          \* the containers whose volume is anonymous
  Stack,         \* the containers, the network and the volumes that bear the
  StackNets,     \* stack's label
  StackVols,
  MaxCmds,       \* bound: changes, rollbacks and ends
  MaxFaults      \* bound: captures and rollback steps that fail

ASSUME SessionAssumption ==
  /\ NetOf \in [Container -> Network] /\ VolOf \in [Container -> Volume]
  /\ \A S \in {Container, Volume, Network} : IsFiniteSet(S)
  /\ Anon \subseteq Container /\ Stack \subseteq Container \ Anon
  /\ \A c \in Anon, d \in Container : VolOf[d] = VolOf[c] => d = c
  /\ StackNets \subseteq Network /\ StackVols \subseteq Volume
  /\ {MaxCmds, MaxFaults} \subseteq Nat

VARIABLES
  world,   \* what the daemon holds: ctr (name -> running), vol (name -> files), net
  base,    \* the baseline of the session
  active,  \* whether there is a session
  journal, \* its entries: how to undo each change, newest last
  cmd,     \* what runs: "idle", "op", "rollback"
  todo,    \* the daemon calls it still has to make
  cmds, faults,
  rolled,  \* history: a rollback has ended and nothing was started since
  failed,  \* history: a rollback of the session has reported a failed step
  cut      \* history: containers that a rollback has brought back, but was cut
           \* before it started them

vars == <<world, base, active, journal, cmd, todo, cmds, faults, rolled, failed, cut>>

Partial(S, T) == UNION {[D -> T] : D \in SUBSET S}

\* A container that exists has its network and its volume.
World == {w \in [ctr: Partial(Container, BOOLEAN), vol: Partial(Volume, SUBSET File), net: SUBSET Network] :
            \A c \in DOMAIN w.ctr : NetOf[c] \in w.net /\ VolOf[c] \in DOMAIN w.vol}

----------------------------------------------------------------------------
(* The daemon.                                                             *)

Step(do, x) == [do |-> do, on |-> x, run |-> FALSE, files |-> << >>]

Users(w, v) == {c \in DOMAIN w.ctr : VolOf[c] = v}

\* Whether the daemon carries out a call.
Accepts(w, s) ==
  \/ s.do \in {"create", "recreate"} /\ s.on \notin DOMAIN w.ctr /\ NetOf[s.on] \in w.net
  \/ s.do \in {"remove", "remove-v", "start", "stop", "boot"} /\ s.on \in DOMAIN w.ctr
  \/ s.do \in {"rm-volume", "drop-volume"} /\ s.on \in DOMAIN w.vol /\ Users(w, s.on) = {}
  \/ s.do \in {"fill", "restore", "add-network"}
  \/ s.do = "rm-network" /\ s.on \in w.net /\ \A c \in DOMAIN w.ctr : NetOf[c] # s.on

\* A start or stop of a container that is in that state already changes nothing:
\* the answer is 304, which Transport._open raises as NotModified.
NotModified(w, s) ==
  s.do \in {"start", "stop"} /\ s.on \in DOMAIN w.ctr /\ w.ctr[s.on] = (s.do = "start")

Files(w, v) == IF v \in DOMAIN w.vol THEN w.vol[v] ELSE {}

Put(f, x, y) == [z \in DOMAIN f \cup {x} |-> IF z = x THEN y ELSE f[z]]

Fill(w, v, fs) == [w EXCEPT !.vol = Put(@, v, Files(w, v) \cup fs)]

SetRun(w, c, b) == [w EXCEPT !.ctr = Put(@, c, b)]

RemoveVolume(w, v) == [w EXCEPT !.vol = Restrict(@, DOMAIN @ \ {v})]

RemoveContainer(w, c) == [w EXCEPT !.ctr = Restrict(@, DOMAIN @ \ {c})]

\* rollback's create: the files it saved go back first.
RecreateContainer(w, s) == SetRun(Fill(w, VolOf[s.on], UNION Range(s.files)), s.on, FALSE)

\* rollback's restore empties the volume first, volumes.restore adds to it.
RestoreVolume(w, s) == [w EXCEPT !.vol = Put(@, s.on, s.files[s.on])]

\* What an accepted call does; create makes a missing volume.
Effect(w, s) ==
  CASE s.do = "create" -> SetRun(Fill(w, VolOf[s.on], {}), s.on, FALSE)
    [] s.do = "recreate" -> RecreateContainer(w, s)
    [] s.do \in {"start", "boot"} -> SetRun(w, s.on, TRUE)
    [] s.do = "stop" -> SetRun(w, s.on, FALSE)
    [] s.do = "remove" -> RemoveContainer(w, s.on)
    [] s.do = "remove-v" -> IF s.on \in Anon THEN RemoveVolume(RemoveContainer(w, s.on), VolOf[s.on])
                                             ELSE RemoveContainer(w, s.on)
    [] s.do \in {"rm-volume", "drop-volume"} -> RemoveVolume(w, s.on)
    [] s.do = "fill" -> Fill(w, s.on, UNION Range(s.files))
    [] s.do = "restore" -> RestoreVolume(w, s)
    [] s.do = "add-network" -> [w EXCEPT !.net = @ \cup {s.on}]
    [] s.do = "rm-network" -> [w EXCEPT !.net = @ \ {s.on}]

----------------------------------------------------------------------------
(* capture: the inverse of a change.                                       *)

\* _container_state: with `rm --volumes` also the contents of its volume.
Recreate(c, vols) ==
  [do |-> "recreate", on |-> c, run |-> world.ctr[c],
   files |-> IF vols THEN [v \in {VolOf[c]} |-> Files(world, v)] ELSE << >>]

SaveVolume(v) == [Step("restore", v) EXCEPT !.files = [x \in {v} |-> Files(world, x)]]

VolumeInverse(v) ==
  IF v \in DOMAIN world.vol THEN <<SaveVolume(v)>> ELSE <<Step("rm-volume", v)>>

\* set-running, with the state before the change.
RunInverse(c) == <<Step(IF world.ctr[c] THEN "start" ELSE "stop", c)>>

----------------------------------------------------------------------------
(* Changes.                                                                *)

Init ==
  /\ world \in World /\ base = world
  /\ active = TRUE /\ journal = << >>
  /\ cmd = "idle" /\ todo = << >>
  /\ cmds = 0 /\ faults = 0
  /\ rolled = FALSE /\ failed = FALSE /\ cut = {}

Command ==
  /\ cmd = "idle" /\ cmds < MaxCmds
  /\ cmds' = cmds + 1
  /\ rolled' = FALSE
  /\ UNCHANGED <<world, base, failed, cut>>

\* invoke: the hook writes the entry, then the change is made.  An inverse that
\* cannot be captured is noted as such and does not stop the change.
Change(undo, calls) ==
  /\ Command
  /\ cmd' = "op" /\ todo' = calls
  /\ UNCHANGED active
  /\ \E lost \in BOOLEAN :
       /\ lost => faults < MaxFaults /\ undo # << >> /\ active
       /\ faults' = IF lost THEN faults + 1 ELSE faults
       /\ journal' = IF active
                     THEN Append(journal, [undo |-> IF lost THEN << >> ELSE undo, lost |-> lost, done |-> FALSE])
                     ELSE journal

\* containers.run, with a name the baseline does not have
Run(c) ==
  /\ c \notin DOMAIN world.ctr \cup DOMAIN base.ctr
  /\ c \in Anon => VolOf[c] \notin DOMAIN world.vol
  /\ Change(<< >>, <<Step("create", c), Step("start", c)>>)

\* containers.rm; a container of the baseline that has an anonymous volume is
\* removed with it
Rm(c, vols) ==
  /\ c \in DOMAIN world.ctr
  /\ c \in Anon \cap DOMAIN base.ctr => vols
  /\ Change(<<Recreate(c, vols)>>, <<Step(IF vols THEN "remove-v" ELSE "remove", c)>>)

\* containers.start, restart and stop
StartStop(c, what) == c \in DOMAIN world.ctr /\ Change(RunInverse(c), <<Step(what, c)>>)

\* volumes.create, rm and restore; the daemon names anonymous volumes, and
\* nobody makes another of such a name
Anonymous == {VolOf[c] : c \in Anon}

CreateVolume(v) == v \notin Anonymous /\ Change(<< >>, <<Step("fill", v)>>)
VolumeRm(v) == Change(VolumeInverse(v), <<Step("rm-volume", v)>>)
VolumeRestore(v, f) ==
  /\ v \in Anonymous => v \in DOMAIN world.vol
  /\ Change(VolumeInverse(v), <<[Step("fill", v) EXCEPT !.files = [x \in {v} |-> {f}]]>>)

\* networks.create and rm
CreateNetwork(n) == n \notin world.net /\ Change(<< >>, <<Step("add-network", n)>>)
NetworkRm(n) == n \in world.net /\ Change(<<Step("add-network", n)>>, <<Step("rm-network", n)>>)

Steps(do, S) == LET s == SetToSeq(S) IN [i \in DOMAIN s |-> Step(do, s[i])]

\* The group of a stack.down: networks, volumes, then all containers of the
\* stack, also when only some services go down.
DownInverse(services, vols) ==
  LET cs == SetToSeq(Stack \cap DOMAIN world.ctr)
      vs == SetToSeq(StackVols \cap DOMAIN world.vol)
  IN (IF services = Stack THEN Steps("add-network", StackNets \cap world.net) ELSE << >>)
     \o (IF services = Stack /\ vols THEN [i \in DOMAIN vs |-> SaveVolume(vs[i])] ELSE << >>)
     \o [i \in DOMAIN cs |-> Recreate(cs[i], FALSE)]

\* stack.down, of some services or of all
StackDown(services, vols) ==
  /\ services # {}
  /\ Change(DownInverse(services, vols),
            Steps("remove", services \cap DOMAIN world.ctr)
            \o (IF services = Stack THEN Steps("rm-network", StackNets \cap world.net) ELSE << >>)
            \o (IF services = Stack /\ vols THEN Steps("rm-volume", StackVols \cap DOMAIN world.vol) ELSE << >>))

\* The next call of a change.  An error ends it, but stack.down keeps a network
\* that is in use and goes on, and containers.start and stop take NotModified.
OpCall ==
  /\ cmd = "op"
  /\ IF todo # << >> /\ Accepts(world, Head(todo))
     THEN world' = Effect(world, Head(todo)) /\ todo' = Tail(todo)
     ELSE UNCHANGED world /\ todo' = IF todo # << >> /\ Head(todo).do = "rm-network" THEN Tail(todo) ELSE << >>
  /\ cmd' = IF todo' = << >> THEN "idle" ELSE "op"
  /\ UNCHANGED <<base, active, journal, cmds, faults, rolled, failed, cut>>

----------------------------------------------------------------------------
(* rollback.                                                               *)

\* Variant of InBaseline: no filter.
InBaselineAll(s) == TRUE

\* "objects created during the session and removed again were never in the
\* baseline: don't bring them back"
InBaseline(s) ==
  /\ s.do \in {"recreate", "start", "stop"} => s.on \in DOMAIN base.ctr
  /\ s.do = "restore" => s.on \in DOMAIN base.vol
  /\ s.do = "add-network" => s.on \in base.net

\* The steps of a sequence that are about the baseline.
Kept(steps) == FlattenSeq([j \in DOMAIN steps |-> IF InBaseline(steps[j]) THEN <<steps[j]>> ELSE << >>])

\* What is left to undo of an entry.
Undoing(e) == IF e.done THEN << >> ELSE Kept(e.undo)

\* Variant of Inverses: oldest first.
InversesOldestFirst == FlattenSeq([i \in DOMAIN journal |-> Undoing(journal[i])])

\* What is left to undo of the journal, newest first.
Inverses == FlattenSeq(Reverse([i \in DOMAIN journal |-> Undoing(journal[i])]))

\* The volumes that some inverse in the journal removes.
Removed == {v \in Volume : \E i \in DOMAIN journal : Step("rm-volume", v) \in Range(journal[i].undo)}

Plan ==
  Steps("remove-v", DOMAIN world.ctr \ DOMAIN base.ctr)
  \o Inverses
  \o Steps("drop-volume", (DOMAIN world.vol \ DOMAIN base.vol) \ Removed)
  \o Steps("rm-network", world.net \ base.net)

Rollback ==
  /\ active
  /\ Command
  /\ cmd' = "rollback" /\ todo' = Plan
  /\ UNCHANGED <<active, journal, faults>>

\* What is there already, or is gone already, is no failure.
Settled(w, s) ==
  \/ s.do = "recreate" /\ s.on \in DOMAIN w.ctr
  \/ s.do = "add-network" /\ s.on \in w.net
  \/ s.do = "drop-volume" /\ s.on \notin DOMAIN w.vol

Rest(s) == (IF s.do = "recreate" /\ s.run THEN <<Step("boot", s.on)>> ELSE << >>) \o Tail(todo)

\* The next call of a rollback; a container is created, then started.  A call
\* that changes nothing is reported as failed too: no step takes NotModified.
UndoCall ==
  /\ cmd = "rollback" /\ todo # << >>
  /\ LET s == Head(todo) IN
       IF Settled(world, s)
       THEN todo' = Tail(todo) /\ UNCHANGED <<world, failed>>
       ELSE IF Accepts(world, s)
       THEN world' = Effect(world, s) /\ todo' = Rest(s) /\ failed' = (failed \/ NotModified(world, s))
       ELSE failed' = TRUE /\ todo' = Tail(todo) /\ UNCHANGED world
  /\ UNCHANGED <<base, active, journal, cmd, cmds, faults, rolled, cut>>

\* Variant of UndoFails: the failure is not reported.
UndoFailsSilently ==
  /\ cmd = "rollback" /\ todo # << >> /\ faults < MaxFaults
  /\ faults' = faults + 1
  /\ todo' = Tail(todo)
  /\ UNCHANGED <<world, base, active, journal, cmd, cmds, rolled, failed, cut>>

\* A step fails for another reason; the rest goes on.
UndoFails ==
  /\ cmd = "rollback" /\ todo # << >> /\ faults < MaxFaults
  /\ faults' = faults + 1
  /\ failed' = TRUE
  /\ todo' = Tail(todo)
  /\ UNCHANGED <<world, base, active, journal, cmd, cmds, rolled, cut>>

\* Every inverse is marked done, also one that failed, and the journal is
\* written.
Finish ==
  /\ cmd = "rollback" /\ todo = << >>
  /\ journal' = [i \in DOMAIN journal |-> [journal[i] EXCEPT !.done = @ \/ journal[i].undo # << >> \/ journal[i].lost]]
  /\ cmd' = "idle" /\ rolled' = TRUE
  /\ UNCHANGED <<world, base, active, todo, cmds, faults, failed, cut>>

\* The container a rollback has created and is about to start.
Booting == IF cmd = "rollback" /\ todo # << >> /\ Head(todo).do = "boot" THEN {Head(todo).on} ELSE {}

\* The process ends, or a change is refused, before the next call.
Crash ==
  /\ cmd # "idle"
  /\ cmd' = "idle" /\ todo' = << >>
  /\ cut' = cut \cup Booting
  /\ UNCHANGED <<world, base, active, journal, cmds, faults, rolled, failed>>

----------------------------------------------------------------------------
(* begin and end.                                                          *)

End ==
  /\ active /\ Command
  /\ active' = FALSE
  /\ UNCHANGED <<journal, cmd, todo, faults>>

Begin ==
  /\ cmd = "idle" /\ ~active
  /\ active' = TRUE /\ base' = world /\ journal' = << >>
  /\ rolled' = FALSE /\ failed' = FALSE /\ cut' = {}
  /\ UNCHANGED <<world, cmd, todo, cmds, faults>>

Next ==
  \/ \E c \in Container : \/ Run(c)
                          \/ \E b \in BOOLEAN : Rm(c, b)
                          \/ \E what \in {"start", "stop"} : StartStop(c, what)
  \/ \E v \in Volume : \/ CreateVolume(v) \/ VolumeRm(v)
                       \/ \E f \in File : VolumeRestore(v, f)
  \/ \E n \in Network : CreateNetwork(n) \/ NetworkRm(n)
  \/ \E S \in SUBSET Stack, b \in BOOLEAN : StackDown(S, b)
  \/ OpCall \/ Rollback \/ UndoCall \/ UndoFails \/ Finish \/ Crash
  \/ End \/ Begin

Spec == Init /\ [][Next]_vars

----------------------------------------------------------------------------
(* Properties.                                                             *)

\* Volumes that are not in the baseline and that an earlier rollback removed
\* by an inverse.
Shadowed ==
  {v \in Volume \ DOMAIN base.vol : \E i \in DOMAIN journal :
     journal[i].done /\ Step("rm-volume", v) \in Range(journal[i].undo)}

\* The baseline is back, except that a container that a rollback was cut before
\* starting may be stopped, and a shadowed volume may be there.
IsBack(w) ==
  /\ DOMAIN w.ctr = DOMAIN base.ctr
  /\ \A c \in DOMAIN base.ctr \ (cut \cup Booting) : w.ctr[c] = base.ctr[c]
  /\ w.net = base.net
  /\ DOMAIN w.vol \ Shadowed = DOMAIN base.vol
  /\ \A v \in DOMAIN base.vol : w.vol[v] = base.vol[v]

\* A step of a rollback as a whole, and all steps one after another.
Undo(w, s) ==
  IF Settled(w, s) \/ ~Accepts(w, s) THEN w
  ELSE IF s.do = "recreate" /\ s.run THEN Effect(Effect(w, s), Step("boot", s.on))
  ELSE Effect(w, s)

UndoAll(w, p) ==
  LET after[i \in 0..Len(p)] == IF i = 0 THEN w ELSE Undo(after[i - 1], p[i])
  IN after[Len(p)]

\* "so `session rollback` can restore the baseline": after any changes, whole
\* or cut, and after a rollback that was cut, a rollback brings the baseline
\* back, unless a capture or a step has failed.
AlwaysUndoable == active /\ faults = 0 => IsBack(UndoAll(world, Plan))

\* The report of a rollback can be believed: when no rollback of the session
\* has named a failed step and no change is named as not undoable, the baseline
\* is back.
Reported == failed \/ \E i \in DOMAIN journal : journal[i].lost
ReportIsTrue == active /\ rolled /\ ~Reported => IsBack(world)

\* A rollback brings back nothing that the baseline did not have.
NothingResurrected ==
  [][cmd = "rollback" =>
       /\ DOMAIN world'.ctr \subseteq DOMAIN world.ctr \cup DOMAIN base.ctr
       /\ DOMAIN world'.vol \subseteq DOMAIN world.vol \cup DOMAIN base.vol
       /\ world'.net \subseteq world.net \cup base.net]_vars

\* "Return to the session baseline": as ReportIsTrue, without exceptions for
\* volumes.
RestoresBaseline ==
  active /\ rolled /\ ~Reported => DOMAIN world.vol = DOMAIN base.vol
=============================================================================
