------------------------------ MODULE Runbook ------------------------------
(***************************************************************************)
(* The runbook engine (src/aisb/runbooks.py, src/aisb/api/runbook.py): one *)
(* run, whose state is one JSON file that `run`, `resume` and `approve`    *)
(* load, change in memory and write back whole.  Each operator in Proc is  *)
(* a process (a CLI call, the portal, an MCP session).  Nothing locks the  *)
(* file, so the load and the save of one operator are separate steps and   *)
(* others may come in between.  An operator may die at any point.          *)
(*                                                                         *)
(* Abstracted: what a command does (only that it ends ok or not), prompts, *)
(* notes, timings.  Runs have distinct ids and files, so one run suffices. *)
(* `confirmed` is TRUE in every run the program creates and is left out.   *)
(***************************************************************************)
EXTENDS Integers, Sequences, FiniteSets

CONSTANTS
  Proc,     \* the operators
  Name,     \* the step names
  Version,  \* the contents the runbook file takes over time
  Book      \* Book[v]: the steps that parse() finds in content v, in order

StepKind == {"run", "approve", "sleep"}
StepMode == {"success", "always", "on_failure", "ok", "failed"}

\* One parsed step.  ref is the earlier step named by STEP.ok / STEP.failed.
StepDef == [name: Name, kind: StepKind, mode: StepMode, ref: Name,
            retry: Nat, tolerate: BOOLEAN]

StepStatus == {"absent", "pending", "waiting", "done", "failed", "skipped"}
RunStatus  == {"none", "running", "waiting", "failed", "done"}
Decision   == {"approve", "deny"}

\* The run record.  "absent": the step has no entry in it; "none": no answer.
Snapshot == [status: RunStatus, sha: Version, steps: [Name -> StepStatus],
             approvals: [Name -> Decision \cup {"none"}]]

NamesIn(v) == {Book[v][i].name : i \in 1..Len(Book[v])}

\* What parse() guarantees of every content, and one restriction on edits: a
\* step keeps its kind as long as it keeps its name.
ASSUME BookAssumption ==
  /\ Version # {}
  /\ Book \in [Version -> Seq(StepDef)]
  /\ \A v \in Version :
       /\ Len(Book[v]) > 0
       /\ \A i, j \in 1..Len(Book[v]) : Book[v][i].name = Book[v][j].name => i = j
       /\ \A i \in 1..Len(Book[v]) :
            Book[v][i].mode \in {"ok", "failed"} =>
               \E j \in 1..(i - 1) : Book[v][j].name = Book[v][i].ref
  /\ \A v, w \in Version : \A i \in 1..Len(Book[v]) : \A j \in 1..Len(Book[w]) :
       Book[v][i].name = Book[w][j].name => Book[v][i].kind = Book[w][j].kind

VARIABLES
  disk,     \* the saved run record (state.json)
  file,     \* the current content of the runbook file
  pc,       \* where each operator is
  mem,      \* the record each operator holds in memory
  ver,      \* the content each operator loaded
  idx,      \* the step each operator is at
  failed,   \* the engine's failed flag
  tries,    \* attempts of the current command
  consent,  \* resume: --allow-changed; approve: --resume; else FALSE
  answers   \* history: the decisions operators have saved, <<step, decision>>

vars == <<disk, file, pc, mem, ver, idx, failed, tries, consent, answers>>

----------------------------------------------------------------------------
NoRun == [status |-> "none", sha |-> CHOOSE v \in Version : TRUE,
          steps |-> [n \in Name |-> "absent"],
          approvals |-> [n \in Name |-> "none"]]

\* new_run: every step of the loaded content is pending.
NewRun(v) == [status |-> "running", sha |-> v,
              steps |-> [n \in Name |-> IF n \in NamesIn(v) THEN "pending" ELSE "absent"],
              approvals |-> [n \in Name |-> "none"]]

SetStep(st, n, s) == [st EXCEPT !.steps = [@ EXCEPT ![n] = s]]

SetAnswer(st, n, d) == [st EXCEPT !.approvals = [@ EXCEPT ![n] = d]]

SetStatus(st, s) == [st EXCEPT !.status = s]

\* Variant of Reset: done steps reset too.
ResetDoneToo(st) ==
  [st EXCEPT !.status = "running",
             !.steps = [n \in Name |-> IF st.steps[n] = "absent" THEN "absent" ELSE "pending"]]

\* resume: failed, skipped and waiting steps become pending again.
Reset(st) ==
  [st EXCEPT !.status = "running",
             !.steps = [n \in Name |-> IF st.steps[n] \in {"failed", "skipped", "waiting"}
                                       THEN "pending" ELSE st.steps[n]]]

Waiting(st) == {n \in Name : st.steps[n] = "waiting"}

ShouldRun(step, steps, fail) ==
  \/ step.mode = "always"
  \/ step.mode = "on_failure" /\ fail
  \/ step.mode = "success" /\ ~fail
  \/ step.mode = "ok" /\ steps[step.ref] = "done"
  \/ step.mode = "failed" /\ steps[step.ref] = "failed"

Init ==
  /\ disk = NoRun
  /\ file \in Version
  /\ pc = [p \in Proc |-> "idle"]
  /\ mem = [p \in Proc |-> NoRun]
  /\ ver = [p \in Proc |-> file]
  /\ idx = [p \in Proc |-> 1]
  /\ failed = [p \in Proc |-> FALSE]
  /\ tries = [p \in Proc |-> 0]
  /\ consent = [p \in Proc |-> FALSE]
  /\ answers = {}

----------------------------------------------------------------------------
(* Operator commands.                                                      *)

\* The start of _execute over record st with the content the file now has.
Enter(p, st) ==
  /\ pc' = [pc EXCEPT ![p] = "step"]
  /\ mem' = [mem EXCEPT ![p] = st]
  /\ ver' = [ver EXCEPT ![p] = file]
  /\ idx' = [idx EXCEPT ![p] = 1]
  /\ failed' = [failed EXCEPT ![p] = FALSE]
  /\ tries' = [tries EXCEPT ![p] = 0]

\* The end of an operator's command: what it held in memory is gone.
Exit(p) ==
  /\ pc' = [pc EXCEPT ![p] = "idle"]
  /\ mem' = [mem EXCEPT ![p] = NoRun]
  /\ idx' = [idx EXCEPT ![p] = 1]
  /\ failed' = [failed EXCEPT ![p] = FALSE]
  /\ tries' = [tries EXCEPT ![p] = 0]
  /\ consent' = [consent EXCEPT ![p] = FALSE]
  /\ UNCHANGED ver

\* `runbook run --yes`: create the record, save it, execute.
Run(p) ==
  /\ pc[p] = "idle"
  /\ disk.status = "none"
  /\ disk' = NewRun(file)
  /\ Enter(p, NewRun(file))
  /\ UNCHANGED <<file, consent, answers>>

\* `runbook resume --yes`: refused when the run is done, or when the file
\* changed and --allow-changed (allow) was not given.
Resume(p, allow) ==
  /\ pc[p] = "idle"
  /\ disk.status \notin {"none", "done"}
  /\ file = disk.sha \/ allow
  /\ Enter(p, Reset(disk))
  /\ consent' = [consent EXCEPT ![p] = allow]
  /\ UNCHANGED <<disk, file, answers>>

\* `runbook approve`, up to the save: an error unless a step is waiting.
Approve(p, d, go) ==
  /\ pc[p] = "idle"
  /\ \E n \in Waiting(disk) :
       mem' = [mem EXCEPT ![p] = SetAnswer(disk, n, d)]
  /\ pc' = [pc EXCEPT ![p] = "answer"]
  /\ consent' = [consent EXCEPT ![p] = go]
  /\ UNCHANGED <<disk, file, ver, idx, failed, tries, answers>>

\* approve: save the decision; then return, or go on with --resume.
Answer(p) ==
  /\ pc[p] = "answer"
  /\ disk' = mem[p]
  /\ answers' = answers \cup {<<n, mem[p].approvals[n]>> : n \in Waiting(mem[p])}
  /\ \/ /\ consent[p]
        /\ pc' = [pc EXCEPT ![p] = "reopen"]
        /\ UNCHANGED <<mem, ver, idx, failed, tries, consent>>
     \/ ~consent[p] /\ Exit(p)
  /\ UNCHANGED file

\* approve --resume: load the file as it is now, take the gate up again.
Reopen(p) ==
  /\ pc[p] = "reopen"
  /\ \E n \in Waiting(mem[p]) :
       Enter(p, SetStatus(SetStep(mem[p], n, "pending"), "running"))
  /\ consent' = [consent EXCEPT ![p] = FALSE]
  /\ UNCHANGED <<disk, file, answers>>

----------------------------------------------------------------------------
(* The engine, _execute: one pass over the steps of the loaded content.    *)

Cur(p) == Book[ver[p]][idx[p]]

\* Operator p is about to consider a step the record has an entry for ...
AtStep(p) ==
  /\ pc[p] = "step"
  /\ idx[p] <= Len(Book[ver[p]])
  /\ mem[p].steps[Cur(p).name] # "absent"

\* ... and the step is not done and its `when` holds.
Due(p) ==
  /\ AtStep(p)
  /\ mem[p].steps[Cur(p).name] # "done"
  /\ ShouldRun(Cur(p), mem[p].steps, failed[p])

\* Give the current step a status, save the record, go to the next step.
Settle(p, s, fail) ==
  /\ mem' = [mem EXCEPT ![p] = SetStep(@, Cur(p).name, s)]
  /\ disk' = SetStep(mem[p], Cur(p).name, s)
  /\ pc' = [pc EXCEPT ![p] = "step"]
  /\ idx' = [idx EXCEPT ![p] = @ + 1]
  /\ failed' = [failed EXCEPT ![p] = fail]
  /\ tries' = [tries EXCEPT ![p] = 0]
  /\ UNCHANGED <<file, ver, consent, answers>>

\* A step added to the file after the run began: KeyError, nothing is saved.
Unknown(p) ==
  /\ pc[p] = "step"
  /\ idx[p] <= Len(Book[ver[p]])
  /\ mem[p].steps[Cur(p).name] = "absent"
  /\ Exit(p)
  /\ UNCHANGED <<disk, file, answers>>

PassDone(p) ==
  /\ AtStep(p)
  /\ mem[p].steps[Cur(p).name] = "done"
  /\ idx' = [idx EXCEPT ![p] = @ + 1]
  /\ UNCHANGED <<disk, file, pc, mem, ver, failed, tries, consent, answers>>

Skip(p) ==
  /\ AtStep(p)
  /\ mem[p].steps[Cur(p).name] # "done"
  /\ ~ShouldRun(Cur(p), mem[p].steps, failed[p])
  /\ Settle(p, "skipped", failed[p])

\* Variant of Wait: only the step is marked, not the run.
WaitStepOnly(p) ==
  /\ Due(p) /\ Cur(p).kind = "approve"
  /\ mem[p].approvals[Cur(p).name] = "none"
  /\ disk' = SetStep(mem[p], Cur(p).name, "waiting")
  /\ Exit(p)
  /\ UNCHANGED <<file, answers>>

\* An approve step without an answer: the run waits and the command returns.
Wait(p) ==
  /\ Due(p) /\ Cur(p).kind = "approve"
  /\ mem[p].approvals[Cur(p).name] = "none"
  /\ disk' = SetStatus(SetStep(mem[p], Cur(p).name, "waiting"), "waiting")
  /\ Exit(p)
  /\ UNCHANGED <<file, answers>>

Granted(p) ==
  /\ Due(p) /\ Cur(p).kind = "approve"
  /\ mem[p].approvals[Cur(p).name] = "approve"
  /\ Settle(p, "done", failed[p])

\* Variant of Denied: any answer opens the gate.
DeniedOpens(p) ==
  /\ Due(p) /\ Cur(p).kind = "approve"
  /\ mem[p].approvals[Cur(p).name] = "deny"
  /\ Settle(p, "done", failed[p])

Denied(p) ==
  /\ Due(p) /\ Cur(p).kind = "approve"
  /\ mem[p].approvals[Cur(p).name] = "deny"
  /\ Settle(p, "failed", TRUE)

Sleep(p) ==
  /\ Due(p) /\ Cur(p).kind = "sleep"
  /\ Settle(p, "done", failed[p])

\* A run step begins: its command is handed to invoke().
Start(p) ==
  /\ Due(p) /\ Cur(p).kind = "run"
  /\ pc' = [pc EXCEPT ![p] = "exec"]
  /\ UNCHANGED <<disk, file, mem, ver, idx, failed, tries, consent, answers>>

\* One attempt ends; a failed one is repeated while retries are left.
Exec(p, ok) ==
  /\ pc[p] = "exec"
  /\ tries' = [tries EXCEPT ![p] = @ + 1]
  /\ pc' = [pc EXCEPT ![p] = IF ok THEN "good"
                             ELSE IF tries[p] < Cur(p).retry THEN "exec" ELSE "bad"]
  /\ UNCHANGED <<disk, file, mem, ver, idx, failed, consent, answers>>

\* Variant of Record: the flag tells of the last command only.
RecordLast(p) ==
  \/ pc[p] = "good" /\ Settle(p, "done", FALSE)
  \/ pc[p] = "bad" /\ Settle(p, "failed", ~Cur(p).tolerate)

\* The command's outcome is saved: a separate step, a crash may come first.
Record(p) ==
  \/ pc[p] = "good" /\ Settle(p, "done", failed[p])
  \/ pc[p] = "bad" /\ Settle(p, "failed", failed[p] \/ ~Cur(p).tolerate)

\* Past the last step: save the verdict of the pass.
Finish(p) ==
  /\ pc[p] = "step"
  /\ idx[p] > Len(Book[ver[p]])
  /\ disk' = SetStatus(mem[p], IF failed[p] THEN "failed" ELSE "done")
  /\ Exit(p)
  /\ UNCHANGED <<file, answers>>

\* The process is killed, or an exception the engine does not catch ends it
\* (an undefined variable in a later step's command line, for instance).
Crash(p) ==
  /\ pc[p] # "idle"
  /\ Exit(p)
  /\ UNCHANGED <<disk, file, answers>>

\* Somebody edits the runbook file while the run exists.
EditFile ==
  /\ disk.status # "none"
  /\ \E v \in Version \ {file} : file' = v
  /\ UNCHANGED <<disk, pc, mem, ver, idx, failed, tries, consent, answers>>

Command(p) ==
  \/ Run(p)
  \/ \E allow \in BOOLEAN : Resume(p, allow)
  \/ \E d \in Decision, go \in BOOLEAN : Approve(p, d, go)

Engine(p) ==
  \/ Answer(p) \/ Reopen(p)
  \/ Unknown(p) \/ PassDone(p) \/ Skip(p)
  \/ Wait(p) \/ Granted(p) \/ Denied(p) \/ Sleep(p)
  \/ Start(p) \/ (\E ok \in BOOLEAN : Exec(p, ok)) \/ Record(p)
  \/ Finish(p)

Next ==
  \/ \E p \in Proc : Command(p) \/ Engine(p) \/ Crash(p)
  \/ EditFile

Spec == Init /\ [][Next]_vars

----------------------------------------------------------------------------
(* Properties.                                                             *)

PcValue == {"idle", "answer", "reopen", "step", "exec", "good", "bad"}

\* Every variable keeps its type; an operator's position is a step of the
\* content it loaded, or the one past the end.
TypeOK ==
  /\ disk \in Snapshot
  /\ file \in Version
  /\ pc \in [Proc -> PcValue]
  /\ mem \in [Proc -> Snapshot]
  /\ ver \in [Proc -> Version]
  /\ idx \in [Proc -> Nat \ {0}]
  /\ \A p \in Proc : idx[p] <= Len(Book[ver[p]]) + 1
  /\ failed \in [Proc -> BOOLEAN]
  /\ tries \in [Proc -> Nat]
  /\ consent \in [Proc -> BOOLEAN]
  /\ answers \subseteq Name \X Decision

IsGate(n) == \E v \in Version : \E i \in 1..Len(Book[v]) :
                Book[v][i].name = n /\ Book[v][i].kind = "approve"

\* An approve step stands open in the plain course of the run.
OpenGate(v, i) == Book[v][i].kind = "approve" /\ Book[v][i].mode = "success"

\* _execute: no command of the plain course (when = success) starts unless
\* for every approve step before it somebody has saved the answer "approve";
\* whatever crashes, resumes, edits and concurrent operators came before.
GateNeedsApproval ==
  \A p \in Proc :
    (pc[p] = "exec" /\ Cur(p).mode = "success") =>
      \A i \in 1..(idx[p] - 1) :
        OpenGate(ver[p], i) => <<Book[ver[p]][i].name, "approve">> \in answers

\* pending() takes the first waiting step of a run whose status is waiting
\* and has no answer for a run without one; approve() takes the first waiting
\* step as the one that is asked.  So in the saved record the status is
\* waiting exactly when a step is, and at most one step is.
WaitingIsAnswerable ==
  /\ disk.status = "waiting" <=> Waiting(disk) # {}
  /\ \A m, n \in Waiting(disk) : m = n

\* What the record holds when a pass over content v ended well, or badly.
Complete(st, v) ==
  \A i \in 1..Len(Book[v]) :
    LET def == Book[v][i]  s == st.steps[def.name] IN
    /\ s \in {"done", "failed", "skipped"}
    /\ def.mode = "success" => s = "done" \/ (s = "failed" /\ def.tolerate)
    /\ def.mode = "always" => s \in {"done", "failed"}

Stopped(st, v) ==
  /\ \A i \in 1..Len(Book[v]) :
       LET def == Book[v][i] IN
       def.mode = "always" => st.steps[def.name] \in {"done", "failed"}
  /\ \E i \in 1..Len(Book[v]) :
       st.steps[Book[v][i].name] = "failed" /\ ~(Book[v][i].kind = "run" /\ Book[v][i].tolerate)

\* Finish: a pass that saves "done" has run every plain step of the content
\* it loaded (or tolerated its failure) and every `always` step; one that
\* saves "failed" leaves a failure that was not tolerated, the one the report
\* names, and has run the `always` steps.
VerdictMatchesSteps ==
  [][\A p \in Proc :
       (idx[p] > Len(Book[ver[p]]) /\ pc'[p] = "idle" /\ disk' # disk) =>
         /\ disk'.status = "done" => Complete(disk', ver[p])
         /\ disk'.status = "failed" => Stopped(disk', ver[p])
         /\ disk'.status \in {"done", "failed"}]_vars

\* "Completed steps are never re-run on resume": no command starts for a step
\* the saved record has as done.
NoRerun ==
  [][\A p \in Proc : (pc[p] # "exec" /\ pc'[p] = "exec") =>
                        disk.steps[Cur(p).name] # "done"]_vars

\* A command runs from the content the run was started with, or from one the
\* operator accepted with --allow-changed.
RunsReviewedFile ==
  \A p \in Proc : pc[p] = "exec" => ver[p] = mem[p].sha \/ consent[p]
=============================================================================
