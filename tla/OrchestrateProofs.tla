------------------------- MODULE OrchestrateProofs -------------------------
(***************************************************************************)
(* Proofs about the two that carry out a plan step by step: Runbook, for   *)
(* every set of operators, every runbook and every sequence of edits of    *)
(* it; and Converge, for any stacks, any number of processes and any       *)
(* commands.                                                               *)
(***************************************************************************)
EXTENDS Runbook, Converge, FunctionTheorems, FiniteSetTheorems, SequenceTheorems, TLAPS

(***************************************************************************)
(* Runbook.                                                                *)
(***************************************************************************)

InEngine(p) == pc[p] \in {"step", "exec", "good", "bad"}

InCommand(p) == pc[p] \in {"exec", "good", "bad"}

\* A gate the record has as done was approved; an approval in the record was
\* given, except perhaps the one for the step that waits.
Backed(st) ==
  \A n \in Name :
    /\ (IsGate(n) /\ st.steps[n] = "done") => <<n, "approve">> \in answers
    /\ (st.approvals[n] = "approve" /\ st.steps[n] # "waiting") => <<n, "approve">> \in answers

\* Every approval in the record was given.
Given(st) ==
  \A n \in Name : st.approvals[n] = "approve" => <<n, "approve">> \in answers

\* The status is "waiting" exactly when a step is, and then one step is.
OneWaiting(st) ==
  /\ st.status = "waiting" <=> Waiting(st) # {}
  /\ \A m, n \in Waiting(st) : m = n

\* While the engine works nothing waits, and until it has met a failure the
\* gates it has passed are done.
PassedGates(p) ==
  InEngine(p) =>
    /\ Waiting(mem[p]) = {}
    /\ mem[p].status = "running"
    /\ ~failed[p] => \A i \in 1..(idx[p] - 1) :
                       OpenGate(ver[p], i) => mem[p].steps[Book[ver[p]][i].name] = "done"

\* A command in progress is that of a run step whose `when` held.
Busy(p) ==
  InCommand(p) =>
    /\ idx[p] <= Len(Book[ver[p]])
    /\ Cur(p).kind = "run"
    /\ Cur(p).mode = "success" => ~failed[p]

\* approve() holds an answer for the step that waits.
Answering(p) ==
  pc[p] = "answer" => \A n \in Waiting(mem[p]) : mem[p].approvals[n] \in Decision

Sound(p) ==
  /\ Backed(mem[p])
  /\ pc[p] # "answer" => Given(mem[p])
  /\ OneWaiting(mem[p])
  /\ PassedGates(p)
  /\ Busy(p)
  /\ Answering(p)

SoundDisk == Backed(disk) /\ Given(disk) /\ OneWaiting(disk)

\* The inductive invariant: every copy of the record, saved or in memory, is
\* sound.  A save replaces the saved record by an operator's copy as a whole,
\* so soundness of the copies is what makes the saved one sound, whatever the
\* order of the operators' loads and saves.
IInv == TypeOK /\ SoundDisk /\ \A p \in Proc : Sound(p)

----------------------------------------------------------------------------
(* The operations on a run record.                                         *)

\* What a record holds after one step's status is set.
LEMMA SetStepFacts ==
  ASSUME NEW st \in Snapshot, NEW n \in Name, NEW s \in StepStatus
  PROVE  /\ SetStep(st, n, s) \in Snapshot
         /\ SetStep(st, n, s).status = st.status
         /\ SetStep(st, n, s).sha = st.sha
         /\ SetStep(st, n, s).approvals = st.approvals
         /\ \A m \in Name : SetStep(st, n, s).steps[m] = IF m = n THEN s ELSE st.steps[m]
  BY DEF SetStep, Snapshot

\* What a record holds after the run's status is set.
LEMMA SetStatusFacts ==
  ASSUME NEW st \in Snapshot, NEW s \in RunStatus
  PROVE  /\ SetStatus(st, s) \in Snapshot
         /\ SetStatus(st, s).status = s
         /\ SetStatus(st, s).approvals = st.approvals
         /\ SetStatus(st, s).steps = st.steps
         /\ SetStatus(st, s).sha = st.sha
  BY DEF SetStatus, Snapshot

\* What a record holds after a resume took its unfinished steps up again.
LEMMA ResetFacts ==
  ASSUME NEW st \in Snapshot
  PROVE  /\ Reset(st) \in Snapshot
         /\ Reset(st).status = "running"
         /\ Reset(st).approvals = st.approvals
         /\ \A n \in Name : Reset(st).steps[n] # "waiting"
         /\ \A n \in Name : Reset(st).steps[n] = "done" => st.steps[n] = "done"
  BY DEF Reset, Snapshot, StepStatus, RunStatus

\* What a record holds after an answer to step n.
LEMMA SetAnswerFacts ==
  ASSUME NEW st \in Snapshot, NEW n \in Name, NEW d \in Decision
  PROVE  /\ SetAnswer(st, n, d) \in Snapshot
         /\ SetAnswer(st, n, d).status = st.status
         /\ SetAnswer(st, n, d).steps = st.steps
         /\ \A m \in Name : SetAnswer(st, n, d).approvals[m] = IF m = n THEN d ELSE st.approvals[m]
  BY DEF SetAnswer, Snapshot

\* No operator has created the run yet; or one just has.
LEMMA NoRunFacts ==
  /\ NoRun \in Snapshot
  /\ NoRun.status = "none"
  /\ \A n \in Name : NoRun.steps[n] = "absent" /\ NoRun.approvals[n] = "none"
  BY BookAssumption DEF NoRun, Snapshot, RunStatus, StepStatus

LEMMA NewRunFacts ==
  ASSUME NEW v \in Version
  PROVE  /\ NewRun(v) \in Snapshot
         /\ NewRun(v).status = "running"
         /\ \A n \in Name : /\ NewRun(v).steps[n] \in {"pending", "absent"}
                            /\ NewRun(v).approvals[n] = "none"
  BY DEF NewRun, Snapshot, RunStatus, StepStatus

\* Within a runbook a name is one step; between edits it keeps its kind.
LEMMA NameIsOneStep ==
  ASSUME NEW v \in Version, NEW i \in 1..Len(Book[v]), NEW j \in 1..Len(Book[v]),
         Book[v][i].name = Book[v][j].name
  PROVE  i = j
  BY BookAssumption

LEMMA NameKeepsKind ==
  ASSUME NEW v \in Version, NEW w \in Version,
         NEW i \in 1..Len(Book[v]), NEW j \in 1..Len(Book[w]),
         Book[v][i].name = Book[w][j].name
  PROVE  Book[v][i].kind = Book[w][j].kind
  BY BookAssumption

\* A position within a runbook holds a step.
LEMMA BookFacts ==
  ASSUME NEW v \in Version, NEW i \in 1..Len(Book[v])
  PROVE  Book[v][i] \in StepDef /\ Book[v][i].name \in Name
  <1>1. Book[v] \in Seq(StepDef)
    BY BookAssumption
  <1>2. Book[v][i] \in StepDef
    BY <1>1
  <1>3. QED
    BY <1>2 DEF StepDef

\* The step an operator is at is a step of a runbook.
LEMMA CurFacts ==
  ASSUME TypeOK, NEW p \in Proc, idx[p] <= Len(Book[ver[p]])
  PROVE  /\ idx[p] \in 1..Len(Book[ver[p]])
         /\ Cur(p) \in StepDef
         /\ Cur(p).name \in Name
  <1>1. Book[ver[p]] \in Seq(StepDef) /\ idx[p] \in Nat \ {0}
    BY BookAssumption DEF TypeOK
  <1>2. idx[p] \in 1..Len(Book[ver[p]])
    BY <1>1
  <1>3. Cur(p) \in StepDef
    BY <1>1, <1>2 DEF Cur
  <1>4. QED
    BY <1>2, <1>3 DEF StepDef

----------------------------------------------------------------------------
(* Type correctness.                                                       *)

\* Entering a pass keeps the types.
LEMMA EnterType ==
  ASSUME TypeOK, NEW p \in Proc, NEW st \in Snapshot, Enter(p, st)
  PROVE  /\ pc' \in [Proc -> PcValue]
         /\ mem' \in [Proc -> Snapshot]
         /\ ver' \in [Proc -> Version]
         /\ idx' \in [Proc -> Nat \ {0}]
         /\ \A q \in Proc : idx'[q] <= Len(Book[ver'[q]]) + 1
         /\ failed' \in [Proc -> BOOLEAN]
         /\ tries' \in [Proc -> Nat]
  <1>1. Len(Book[file]) \in Nat
    BY BookAssumption DEF TypeOK
  <1>2. QED
    BY <1>1 DEF TypeOK, Enter, PcValue

\* Leaving a command keeps the types.
LEMMA ExitType ==
  ASSUME TypeOK, NEW p \in Proc, Exit(p)
  PROVE  /\ pc' \in [Proc -> PcValue]
         /\ mem' \in [Proc -> Snapshot]
         /\ ver' \in [Proc -> Version]
         /\ idx' \in [Proc -> Nat \ {0}]
         /\ \A q \in Proc : idx'[q] <= Len(Book[ver'[q]]) + 1
         /\ failed' \in [Proc -> BOOLEAN]
         /\ tries' \in [Proc -> Nat]
         /\ consent' \in [Proc -> BOOLEAN]
  <1>1. \A q \in Proc : Len(Book[ver[q]]) \in Nat
    BY BookAssumption DEF TypeOK
  <1>2. QED
    BY <1>1, NoRunFacts DEF TypeOK, Exit, PcValue

\* Settling a step keeps the types.
LEMMA SettleType ==
  ASSUME TypeOK, NEW p \in Proc, NEW s \in StepStatus, NEW f \in BOOLEAN,
         idx[p] <= Len(Book[ver[p]]), Settle(p, s, f)
  PROVE  TypeOK'
  <1>1. SetStep(mem[p], Cur(p).name, s) \in Snapshot
    BY CurFacts, SetStepFacts DEF TypeOK
  <1>2. \A q \in Proc : Len(Book[ver[q]]) \in Nat
    BY BookAssumption DEF TypeOK
  <1>3. \A q \in Proc : idx'[q] <= Len(Book[ver'[q]]) + 1
    BY <1>2 DEF TypeOK, Settle
  <1>4. idx' \in [Proc -> Nat \ {0}]
    BY DEF TypeOK, Settle
  <1>5. mem' \in [Proc -> Snapshot] /\ disk' \in Snapshot
    BY <1>1 DEF TypeOK, Settle
  <1>6. QED
    BY <1>3, <1>4, <1>5 DEF TypeOK, Settle, PcValue

\* Every step keeps the types, as long as a command in progress is that of a
\* step of the runbook and approve() holds an answer to save.
LEMMA NextType ==
  ASSUME TypeOK, \A p \in Proc : Busy(p) /\ Answering(p), [Next]_vars
  PROVE  TypeOK'
  <1>1. ASSUME NEW p \in Proc, Run(p) PROVE TypeOK'
    <2>1. NewRun(file) \in Snapshot
      BY NewRunFacts DEF TypeOK
    <2>2. QED
      BY <1>1, <2>1, EnterType DEF TypeOK, Run
  <1>2. ASSUME NEW p \in Proc, NEW allow \in BOOLEAN, Resume(p, allow) PROVE TypeOK'
    <2>1. Reset(disk) \in Snapshot
      BY ResetFacts DEF TypeOK
    <2>2. QED
      BY <1>2, <2>1, EnterType DEF TypeOK, Resume
  <1>3. ASSUME NEW p \in Proc, NEW d \in Decision, NEW go \in BOOLEAN, Approve(p, d, go)
        PROVE  TypeOK'
    <2>1. PICK n \in Waiting(disk) :
            mem' = [mem EXCEPT ![p] = SetAnswer(disk, n, d)]
      BY <1>3 DEF Approve
    <2>2. SetAnswer(disk, n, d) \in Snapshot
      BY SetAnswerFacts DEF TypeOK, Waiting
    <2>3. mem' \in [Proc -> Snapshot]
      BY <2>1, <2>2 DEF TypeOK
    <2>4. QED
      BY <1>3, <2>3 DEF TypeOK, Approve, PcValue
  <1>4. ASSUME NEW p \in Proc, Answer(p) PROVE TypeOK'
    <2>1. answers' \subseteq Name \X Decision
      BY <1>4 DEF TypeOK, Answer, Answering, Waiting
    <2>2. CASE consent[p]
      BY <1>4, <2>1, <2>2 DEF TypeOK, Answer, PcValue
    <2>3. CASE ~consent[p]
      BY <1>4, <2>1, <2>3, ExitType DEF TypeOK, Answer
    <2>4. QED
      BY <2>2, <2>3
  <1>5. ASSUME NEW p \in Proc, Reopen(p) PROVE TypeOK'
    <2>1. PICK n \in Waiting(mem[p]) :
            Enter(p, SetStatus(SetStep(mem[p], n, "pending"), "running"))
      BY <1>5 DEF Reopen
    <2>2. SetStep(mem[p], n, "pending") \in Snapshot
      BY SetStepFacts DEF TypeOK, Waiting, StepStatus
    <2>3. SetStatus(SetStep(mem[p], n, "pending"), "running") \in Snapshot
      BY <2>2, SetStatusFacts DEF RunStatus
    <2>4. QED
      BY <1>5, <2>1, <2>3, EnterType DEF TypeOK, Reopen
  <1>6. ASSUME NEW p \in Proc, Unknown(p) \/ Crash(p) PROVE TypeOK'
    BY <1>6, ExitType DEF TypeOK, Unknown, Crash
  <1>7. ASSUME NEW p \in Proc, PassDone(p) PROVE TypeOK'
    <2>1. \A q \in Proc : Len(Book[ver[q]]) \in Nat
      BY BookAssumption DEF TypeOK
    <2>2. QED
      BY <1>7, <2>1 DEF TypeOK, PassDone, AtStep
  <1>8. ASSUME NEW p \in Proc, Skip(p) \/ Granted(p) \/ Denied(p) \/ Sleep(p) PROVE TypeOK'
    <2>1. idx[p] <= Len(Book[ver[p]]) /\ failed[p] \in BOOLEAN
      BY <1>8 DEF TypeOK, Skip, Granted, Denied, Sleep, Due, AtStep
    <2>2. QED
      BY <1>8, <2>1, SettleType DEF Skip, Granted, Denied, Sleep, StepStatus
  <1>9. ASSUME NEW p \in Proc, Wait(p) PROVE TypeOK'
    <2>1. idx[p] <= Len(Book[ver[p]])
      BY <1>9 DEF Wait, Due, AtStep
    <2>2. Cur(p).name \in Name
      BY <2>1, CurFacts
    <2>3. SetStep(mem[p], Cur(p).name, "waiting") \in Snapshot
      BY <2>2, SetStepFacts DEF TypeOK, StepStatus
    <2>4. disk' \in Snapshot
      BY <1>9, <2>3, SetStatusFacts DEF Wait, RunStatus
    <2>5. QED
      BY <1>9, <2>4, ExitType DEF TypeOK, Wait
  <1>10. ASSUME NEW p \in Proc, Start(p) PROVE TypeOK'
    BY <1>10 DEF TypeOK, Start, PcValue
  <1>11. ASSUME NEW p \in Proc, NEW ok \in BOOLEAN, Exec(p, ok) PROVE TypeOK'
    BY <1>11 DEF TypeOK, Exec, PcValue
  <1>12. ASSUME NEW p \in Proc, Record(p) PROVE TypeOK'
    <2>1. idx[p] <= Len(Book[ver[p]]) /\ failed[p] \in BOOLEAN
      BY <1>12 DEF TypeOK, Record, Busy, InCommand
    <2>2. (failed[p] \/ ~Cur(p).tolerate) \in BOOLEAN
      OBVIOUS
    <2>3. QED
      BY <1>12, <2>1, <2>2, SettleType DEF Record, StepStatus
  <1>13. ASSUME NEW p \in Proc, Finish(p) PROVE TypeOK'
    <2>1. disk' \in Snapshot
      BY <1>13, SetStatusFacts DEF TypeOK, Finish, RunStatus
    <2>2. QED
      BY <1>13, <2>1, ExitType DEF TypeOK, Finish
  <1>14. ASSUME EditFile PROVE TypeOK'
    BY <1>14 DEF TypeOK, EditFile
  <1>15. ASSUME UNCHANGED vars PROVE TypeOK'
    BY <1>15 DEF TypeOK, vars
  <1>16. QED
    BY <1>1, <1>2, <1>3, <1>4, <1>5, <1>6, <1>7, <1>8, <1>9, <1>10, <1>11, <1>12, <1>13,
       <1>14, <1>15 DEF Next, Command, Engine

----------------------------------------------------------------------------
(* Soundness of the copies of the record.                                  *)

\* A step that leaves operator q's variables alone leaves q sound.
LEMMA Frame ==
  ASSUME NEW q \in Proc, Sound(q), answers \subseteq answers',
         mem'[q] = mem[q], pc'[q] = pc[q], ver'[q] = ver[q],
         idx'[q] = idx[q], failed'[q] = failed[q]
  PROVE  Sound(q)'
  <1>1. Backed(mem[q])' /\ (pc[q] # "answer" => Given(mem[q]))'
    BY DEF Sound, Backed, Given
  <1>2. OneWaiting(mem[q])' /\ Answering(q)'
    BY DEF Sound, OneWaiting, Answering, Waiting
  <1>3. PassedGates(q)'
    BY DEF Sound, PassedGates, InEngine, Waiting
  <1>4. Busy(q)'
    BY DEF Sound, Busy, InCommand, Cur
  <1>5. QED
    BY <1>1, <1>2, <1>3, <1>4 DEF Sound

\* The saved record stays sound when it does not change.
LEMMA FrameDisk ==
  ASSUME SoundDisk, answers \subseteq answers', disk' = disk
  PROVE  SoundDisk'
  BY DEF SoundDisk, Backed, Given, OneWaiting, Waiting

\* An operator whose command has ended is sound, and the others still are.
LEMMA ExitSound ==
  ASSUME TypeOK, \A q \in Proc : Sound(q), NEW p \in Proc, Exit(p), answers \subseteq answers'
  PROVE  \A q \in Proc : Sound(q)'
  <1>1. mem'[p] = NoRun /\ pc'[p] = "idle"
    BY DEF TypeOK, Exit
  <1>2. Sound(p)'
    BY <1>1, NoRunFacts
       DEF Sound, Backed, Given, OneWaiting, PassedGates, Busy, Answering, InEngine, InCommand, Waiting
  <1>3. ASSUME NEW q \in Proc, q # p PROVE Sound(q)'
    BY <1>3, Frame DEF TypeOK, Exit
  <1>4. QED
    BY <1>2, <1>3

\* An operator that begins a pass on a record in which nothing waits is sound.
LEMMA EnterSound ==
  ASSUME TypeOK, \A q \in Proc : Sound(q), NEW p \in Proc, NEW st \in Snapshot,
         Enter(p, st), UNCHANGED answers,
         st.status = "running", Waiting(st) = {}, Backed(st), Given(st)
  PROVE  \A q \in Proc : Sound(q)'
  <1>1. mem'[p] = st /\ pc'[p] = "step" /\ idx'[p] = 1
    BY DEF TypeOK, Enter
  <1>2. Backed(mem[p])' /\ Given(mem[p])'
    BY <1>1 DEF Backed, Given
  <1>3. OneWaiting(mem[p])' /\ Answering(p)' /\ Busy(p)'
    BY <1>1 DEF OneWaiting, Answering, Busy, InCommand, Waiting
  <1>4. PassedGates(p)'
    BY <1>1 DEF PassedGates, InEngine, Waiting
  <1>5. Sound(p)'
    BY <1>2, <1>3, <1>4 DEF Sound
  <1>6. ASSUME NEW q \in Proc, q # p PROVE Sound(q)'
    BY <1>6, Frame DEF TypeOK, Enter
  <1>7. QED
    BY <1>5, <1>6

\* Settling a step keeps every copy sound: a gate is done only with an
\* approval, and a gate that is not done sets the failed flag or had it set.
LEMMA SettleSound ==
  ASSUME IInv, NEW p \in Proc, NEW s \in {"done", "failed", "skipped"}, NEW f \in BOOLEAN,
         Settle(p, s, f), InEngine(p), idx[p] <= Len(Book[ver[p]]),
         (s = "done" /\ Cur(p).kind = "approve") => <<Cur(p).name, "approve">> \in answers,
         ~f => ~failed[p] /\ (OpenGate(ver[p], idx[p]) => s = "done")
  PROVE  SoundDisk' /\ \A q \in Proc : Sound(q)'
  <1> DEFINE n == Cur(p).name
             st == SetStep(mem[p], n, s)
  <1>1. n \in Name /\ idx[p] \in 1..Len(Book[ver[p]]) /\ mem[p] \in Snapshot /\ s \in StepStatus
    BY CurFacts DEF IInv, TypeOK, StepStatus
  <1>2. /\ st \in Snapshot
        /\ st.status = mem[p].status
        /\ st.approvals = mem[p].approvals
        /\ \A m \in Name : st.steps[m] = IF m = n THEN s ELSE mem[p].steps[m]
    BY <1>1, SetStepFacts
  <1>3. disk' = st /\ mem'[p] = st /\ pc'[p] = "step" /\ failed'[p] = f
        /\ idx'[p] = idx[p] + 1 /\ ver'[p] = ver[p] /\ answers' = answers
    BY DEF Settle, IInv, TypeOK
  <1> HIDE DEF st
  <1>4. Waiting(st) = {} /\ st.status = "running"
    BY <1>1, <1>2 DEF IInv, Sound, PassedGates, Waiting
  <1>5. ASSUME IsGate(n), s = "done" PROVE <<n, "approve">> \in answers
    <2>1. PICK v \in Version : \E i \in 1..Len(Book[v]) :
            Book[v][i].name = n /\ Book[v][i].kind = "approve"
      BY <1>5 DEF IsGate
    <2>2. ver[p] \in Version
      BY DEF IInv, TypeOK
    <2>3. Cur(p).kind = "approve"
      BY <1>1, <2>1, <2>2, NameKeepsKind DEF Cur
    <2>4. QED
      BY <1>5, <2>3
  <1>6. pc[p] # "answer"
    BY DEF InEngine
  <1>7. Backed(st) /\ Given(st)
    <2>1. Backed(mem[p]) /\ Given(mem[p]) /\ Waiting(mem[p]) = {}
      BY <1>6 DEF IInv, Sound, PassedGates
    <2>2. QED
      BY <1>1, <1>2, <1>5, <2>1 DEF Backed, Given, Waiting
  <1>8. SoundDisk'
    BY <1>3, <1>4, <1>7 DEF SoundDisk, Backed, Given, OneWaiting, Waiting
  <1>9. PassedGates(p)'
    <2>1. ASSUME ~f, NEW i \in 1..idx[p], OpenGate(ver[p], i)
          PROVE  st.steps[Book[ver[p]][i].name] = "done"
      <3>1. CASE i = idx[p]
        BY <1>1, <1>2, <2>1, <3>1 DEF Cur
      <3>2. CASE i # idx[p]
        <4>1. i \in 1..(idx[p] - 1) /\ i \in 1..Len(Book[ver[p]])
          BY <1>1, <2>1, <3>2
        <4>2. mem[p].steps[Book[ver[p]][i].name] = "done"
          BY <2>1, <4>1 DEF IInv, Sound, PassedGates
        <4>3. Book[ver[p]][i].name # n
          BY <1>1, <3>2, <4>1, NameIsOneStep DEF Cur, IInv, TypeOK
        <4>4. Book[ver[p]][i].name \in Name
          BY <4>1, BookFacts DEF IInv, TypeOK
        <4>5. QED
          BY <1>2, <4>2, <4>3, <4>4
      <3>3. QED
        BY <3>1, <3>2
    <2>2. (idx[p] + 1) - 1 = idx[p]
      BY <1>1
    <2>3. QED
      BY <1>3, <1>4, <2>1, <2>2 DEF PassedGates, OpenGate, Waiting
  <1>10. Sound(p)'
    <2>1. Backed(mem[p])' /\ Given(mem[p])'
      BY <1>3, <1>7 DEF Backed, Given
    <2>2. OneWaiting(mem[p])' /\ Busy(p)' /\ Answering(p)'
      BY <1>3, <1>4 DEF OneWaiting, Waiting, Busy, InCommand, Answering
    <2>3. QED
      BY <1>9, <2>1, <2>2 DEF Sound
  <1>11. ASSUME NEW q \in Proc, q # p PROVE Sound(q)'
    BY <1>3, <1>11, Frame DEF IInv, TypeOK, Settle
  <1>12. QED
    BY <1>8, <1>10, <1>11

----------------------------------------------------------------------------
(* The inductive invariant.                                                *)

LEMMA InitIInv == Init => IInv
  <1> SUFFICES ASSUME Init PROVE IInv
    OBVIOUS
  <1>1. \A v \in Version : Len(Book[v]) \in Nat
    BY BookAssumption
  <1>2. TypeOK
    BY <1>1, NoRunFacts DEF Init, TypeOK, PcValue
  <1>3. SoundDisk
    BY NoRunFacts DEF Init, SoundDisk, Backed, Given, OneWaiting, Waiting
  <1>4. ASSUME NEW p \in Proc PROVE Sound(p)
    BY NoRunFacts
       DEF Init, Sound, Backed, Given, OneWaiting, PassedGates, Busy, Answering, InEngine, InCommand, Waiting
  <1>5. QED
    BY <1>2, <1>3, <1>4 DEF IInv

LEMMA NextIInv == IInv /\ [Next]_vars => IInv'
  <1> SUFFICES ASSUME IInv, [Next]_vars PROVE IInv'
    OBVIOUS
  <1> USE DEF IInv
  <1>0. TypeOK'
    BY NextType DEF Sound
  <1> SUFFICES SoundDisk' /\ \A q \in Proc : Sound(q)'
    BY <1>0
  <1> DEFINE Goal == SoundDisk' /\ \A q \in Proc : Sound(q)'
  <1>1. ASSUME NEW p \in Proc, Run(p) PROVE Goal
    <2>1. /\ NewRun(file) \in Snapshot /\ NewRun(file).status = "running"
          /\ Waiting(NewRun(file)) = {}
          /\ Backed(NewRun(file)) /\ Given(NewRun(file))
      BY NewRunFacts DEF TypeOK, Waiting, Backed, Given
    <2>2. disk' = NewRun(file) /\ Enter(p, NewRun(file)) /\ answers' = answers
      BY <1>1 DEF Run
    <2>3. SoundDisk'
      BY <2>1, <2>2 DEF SoundDisk, Backed, Given, OneWaiting, Waiting
    <2>4. QED
      BY <2>1, <2>2, <2>3, EnterSound
  <1>2. ASSUME NEW p \in Proc, NEW allow \in BOOLEAN, Resume(p, allow) PROVE Goal
    <2>1. /\ Reset(disk) \in Snapshot /\ Reset(disk).status = "running"
          /\ Waiting(Reset(disk)) = {}
          /\ Given(Reset(disk)) /\ Backed(Reset(disk))
      BY ResetFacts DEF TypeOK, Waiting, Backed, Given, SoundDisk
    <2>2. Enter(p, Reset(disk)) /\ UNCHANGED <<disk, answers>>
      BY <1>2 DEF Resume
    <2>3. QED
      BY <2>1, <2>2, EnterSound, FrameDisk
  <1>3. ASSUME NEW p \in Proc, NEW d \in Decision, NEW go \in BOOLEAN, Approve(p, d, go)
        PROVE  Goal
    <2>1. PICK n \in Waiting(disk) :
            mem' = [mem EXCEPT ![p] = SetAnswer(disk, n, d)]
      BY <1>3 DEF Approve
    <2> DEFINE r == SetAnswer(disk, n, d)
    <2>0. n \in Name /\ disk \in Snapshot
      BY DEF TypeOK, Waiting
    <2>2. /\ n \in Name
          /\ r \in Snapshot /\ r.status = disk.status /\ r.steps = disk.steps
          /\ \A m \in Name : r.approvals[m] = IF m = n THEN d ELSE disk.approvals[m]
      BY <2>0, SetAnswerFacts
    <2>3. mem'[p] = r /\ pc'[p] = "answer" /\ UNCHANGED <<disk, answers>>
      BY <1>3, <2>1 DEF TypeOK, Approve
    <2> HIDE DEF r
    <2>4. \A m \in Name : disk.steps[m] = "waiting" => m = n
      BY <2>1 DEF SoundDisk, OneWaiting, Waiting
    <2>5. disk.steps[n] = "waiting"
      BY <2>1 DEF Waiting
    <2>6. Backed(mem[p])'
      BY <2>2, <2>3, <2>5 DEF SoundDisk, Backed
    <2>7. OneWaiting(mem[p])' /\ Answering(p)'
      BY <2>2, <2>3, <2>4 DEF SoundDisk, OneWaiting, Answering, Waiting
    <2>8. Sound(p)'
      BY <2>3, <2>6, <2>7 DEF Sound, PassedGates, Busy, InEngine, InCommand
    <2>9. ASSUME NEW q \in Proc, q # p PROVE Sound(q)'
      BY <1>3, <2>1, <2>9, Frame DEF TypeOK, Approve
    <2>10. QED
      BY <2>3, <2>8, <2>9, FrameDisk
  <1>4. ASSUME NEW p \in Proc, Answer(p) PROVE Goal
    <2>1. /\ answers' = answers \cup {<<n, mem[p].approvals[n]>> : n \in Waiting(mem[p])}
          /\ disk' = mem[p]
          /\ Backed(mem[p]) /\ OneWaiting(mem[p])
      BY <1>4 DEF Answer, Sound
    <2>2. \A n \in Name : mem[p].approvals[n] = "approve" => <<n, "approve">> \in answers'
      BY <2>1 DEF Backed, Waiting
    <2>3. answers \subseteq answers'
      BY <2>1
    <2>4. SoundDisk'
      BY <2>1, <2>2, <2>3 DEF SoundDisk, Backed, Given, OneWaiting, Waiting
    <2>5. CASE ~consent[p]
      BY <1>4, <2>3, <2>4, <2>5, ExitSound DEF Answer
    <2>6. CASE consent[p]
      <3>1. pc'[p] = "reopen" /\ mem'[p] = mem[p]
        BY <1>4, <2>6 DEF Answer, TypeOK
      <3>2. Backed(mem[p])' /\ Given(mem[p])' /\ OneWaiting(mem[p])'
        BY <2>1, <2>2, <2>3, <3>1 DEF Backed, Given, OneWaiting, Waiting
      <3>3. Sound(p)'
        BY <3>1, <3>2 DEF Sound, PassedGates, Busy, Answering, InEngine, InCommand
      <3>4. ASSUME NEW q \in Proc, q # p PROVE Sound(q)'
        BY <1>4, <2>3, <2>6, <3>4, Frame DEF TypeOK, Answer
      <3>5. QED
        BY <2>4, <3>3, <3>4
    <2>7. QED
      BY <2>5, <2>6
  <1>5. ASSUME NEW p \in Proc, Reopen(p) PROVE Goal
    <2>1. PICK n \in Waiting(mem[p]) :
            Enter(p, SetStatus(SetStep(mem[p], n, "pending"), "running"))
      BY <1>5 DEF Reopen
    <2> DEFINE s1 == SetStep(mem[p], n, "pending")
               s2 == SetStatus(s1, "running")
    <2>2. mem[p] \in Snapshot /\ n \in Name /\ "pending" \in StepStatus /\ "running" \in RunStatus
      BY DEF TypeOK, Waiting, StepStatus, RunStatus
    <2>3. /\ s1 \in Snapshot /\ s1.approvals = mem[p].approvals
          /\ \A m \in Name : s1.steps[m] = IF m = n THEN "pending" ELSE mem[p].steps[m]
      BY <2>2, SetStepFacts
    <2> HIDE DEF s1
    <2>4. /\ s2 \in Snapshot /\ s2.approvals = s1.approvals /\ s2.steps = s1.steps
          /\ s2.status = "running"
      BY <2>2, <2>3, SetStatusFacts
    <2> HIDE DEF s2
    <2>5. Backed(mem[p]) /\ Given(mem[p]) /\ \A m \in Waiting(mem[p]) : m = n
      BY <1>5, <2>1 DEF Reopen, Sound, OneWaiting
    <2>6. Waiting(s2) = {} /\ Backed(s2) /\ Given(s2)
      BY <2>3, <2>4, <2>5 DEF Waiting, Backed, Given
    <2>7. Enter(p, s2) /\ UNCHANGED <<disk, answers>>
      BY <1>5, <2>1 DEF Reopen, s1, s2
    <2>8. QED
      BY <2>4, <2>6, <2>7, EnterSound, FrameDisk
  <1>6. ASSUME NEW p \in Proc, Unknown(p) \/ Crash(p) PROVE Goal
    BY <1>6, ExitSound, FrameDisk DEF Unknown, Crash
  <1>7. ASSUME NEW p \in Proc, PassDone(p) PROVE Goal
    <2>1. idx[p] \in 1..Len(Book[ver[p]]) /\ pc[p] = "step"
      BY <1>7, CurFacts DEF PassDone, AtStep
    <2>2. idx'[p] = idx[p] + 1 /\ UNCHANGED <<disk, pc, mem, ver, failed, answers>>
          /\ mem[p].steps[Cur(p).name] = "done"
      BY <1>7 DEF PassDone, TypeOK
    <2>3. \A i \in 1..((idx[p] + 1) - 1) : i = idx[p] \/ i \in 1..(idx[p] - 1)
      BY <2>1
    <2>4. PassedGates(p)'
      BY <2>1, <2>2, <2>3 DEF Sound, PassedGates, InEngine, OpenGate, Waiting, Cur
    <2>5. Sound(p)'
      BY <2>1, <2>2, <2>4
         DEF Sound, Backed, Given, OneWaiting, Waiting, Busy, InCommand, Answering
    <2>6. ASSUME NEW q \in Proc, q # p PROVE Sound(q)'
      BY <1>7, <2>6, Frame DEF TypeOK, PassDone
    <2>7. QED
      BY <2>2, <2>5, <2>6, FrameDisk
  <1>8. ASSUME NEW p \in Proc, Skip(p) \/ Granted(p) \/ Denied(p) \/ Sleep(p) PROVE Goal
    <2>1. /\ idx[p] <= Len(Book[ver[p]]) /\ pc[p] = "step"
          /\ failed[p] \in BOOLEAN
      BY <1>8 DEF TypeOK, Skip, Granted, Denied, Sleep, Due, AtStep
    <2>2. InEngine(p) /\ Given(mem[p]) /\ Cur(p).name \in Name
      BY <2>1, CurFacts DEF InEngine, Sound
    <2>3. CASE Skip(p)
      <3>1. ~failed[p] => Cur(p).mode # "success"
        BY <2>3 DEF Skip, ShouldRun
      <3>2. ~failed[p] => ~OpenGate(ver[p], idx[p])
        BY <3>1 DEF OpenGate, Cur
      <3>3. QED
        BY <2>1, <2>2, <2>3, <3>2, SettleSound DEF Skip
    <2>4. CASE Granted(p)
      <3>1. <<Cur(p).name, "approve">> \in answers
        BY <2>2, <2>4 DEF Granted, Given
      <3>2. QED
        BY <2>1, <2>2, <2>4, <3>1, SettleSound DEF Granted
    <2>5. CASE Denied(p)
      BY <2>1, <2>2, <2>5, SettleSound DEF Denied
    <2>6. CASE Sleep(p)
      BY <2>1, <2>2, <2>6, SettleSound DEF Sleep
    <2>7. QED
      BY <1>8, <2>3, <2>4, <2>5, <2>6
  <1>9. ASSUME NEW p \in Proc, Wait(p) PROVE Goal
    <2>1. idx[p] <= Len(Book[ver[p]]) /\ pc[p] = "step" /\ mem[p].approvals[Cur(p).name] = "none"
      BY <1>9 DEF Wait, Due, AtStep
    <2>2. Cur(p).name \in Name /\ mem[p] \in Snapshot /\ "waiting" \in StepStatus
          /\ "waiting" \in RunStatus
      BY <2>1, CurFacts DEF TypeOK, StepStatus, RunStatus
    <2> DEFINE n == Cur(p).name
               s1 == SetStep(mem[p], n, "waiting")
               s2 == SetStatus(s1, "waiting")
    <2>3. /\ s1 \in Snapshot /\ s1.approvals = mem[p].approvals
          /\ \A m \in Name : s1.steps[m] = IF m = n THEN "waiting" ELSE mem[p].steps[m]
      BY <2>2, SetStepFacts
    <2>4. disk' = s2 /\ answers' = answers /\ Exit(p)
      BY <1>9 DEF Wait
    <2> HIDE DEF s1
    <2>5. s2.approvals = s1.approvals /\ s2.steps = s1.steps /\ s2.status = "waiting"
      BY <2>2, <2>3, SetStatusFacts
    <2> HIDE DEF s2
    <2>6. Backed(mem[p]) /\ Given(mem[p]) /\ Waiting(mem[p]) = {}
      BY <2>1 DEF Sound, PassedGates, InEngine
    <2>7. Backed(s2) /\ Given(s2)
      BY <2>3, <2>5, <2>6 DEF Backed, Given
    <2>8. Waiting(s2) = {n}
      BY <2>2, <2>3, <2>5, <2>6 DEF Waiting
    <2>9. SoundDisk'
      BY <2>4, <2>5, <2>7, <2>8 DEF SoundDisk, Backed, Given, OneWaiting, Waiting
    <2>10. QED
      BY <2>4, <2>9, ExitSound
  <1>10. ASSUME NEW p \in Proc, Start(p) PROVE Goal
    <2>1. /\ idx[p] <= Len(Book[ver[p]]) /\ pc[p] = "step" /\ Cur(p).kind = "run"
          /\ ShouldRun(Cur(p), mem[p].steps, failed[p])
          /\ pc'[p] = "exec" /\ UNCHANGED <<disk, mem, ver, idx, failed, answers>>
      BY <1>10 DEF Start, Due, AtStep, TypeOK
    <2>2. Cur(p).mode = "success" => ~failed[p]
      BY <2>1 DEF ShouldRun
    <2>3. PassedGates(p)'
      BY <2>1 DEF Sound, PassedGates, InEngine, Waiting
    <2>4. Busy(p)'
      BY <2>1, <2>2 DEF Busy, Cur
    <2>5. Sound(p)'
      BY <2>1, <2>3, <2>4 DEF Sound, Backed, Given, OneWaiting, Waiting, Answering
    <2>6. ASSUME NEW q \in Proc, q # p PROVE Sound(q)'
      BY <1>10, <2>6, Frame DEF TypeOK, Start
    <2>7. QED
      BY <2>1, <2>5, <2>6, FrameDisk
  <1>11. ASSUME NEW p \in Proc, NEW ok \in BOOLEAN, Exec(p, ok) PROVE Goal
    <2>1. /\ pc[p] = "exec" /\ pc'[p] \in {"exec", "good", "bad"}
          /\ UNCHANGED <<disk, mem, ver, idx, failed, answers>>
      BY <1>11 DEF Exec, TypeOK
    <2>2. PassedGates(p)'
      BY <2>1 DEF Sound, PassedGates, InEngine, Waiting
    <2>3. Busy(p)'
      BY <2>1 DEF Sound, Busy, InCommand, Cur
    <2>4. Sound(p)'
      BY <2>1, <2>2, <2>3 DEF Sound, Backed, Given, OneWaiting, Waiting, Answering
    <2>5. ASSUME NEW q \in Proc, q # p PROVE Sound(q)'
      BY <1>11, <2>5, Frame DEF TypeOK, Exec
    <2>6. QED
      BY <2>1, <2>4, <2>5, FrameDisk
  <1>12. ASSUME NEW p \in Proc, Record(p) PROVE Goal
    <2>1. InEngine(p) /\ InCommand(p)
      BY <1>12 DEF Record, InEngine, InCommand
    <2>2. idx[p] <= Len(Book[ver[p]]) /\ Cur(p).kind = "run" /\ failed[p] \in BOOLEAN
      BY <2>1 DEF Sound, Busy, TypeOK
    <2>3. ~OpenGate(ver[p], idx[p])
      BY <2>2 DEF OpenGate, Cur
    <2>4. (failed[p] \/ ~Cur(p).tolerate) \in BOOLEAN
      OBVIOUS
    <2>5. CASE Settle(p, "done", failed[p])
      BY <2>1, <2>2, <2>3, <2>5, SettleSound
    <2>6. CASE Settle(p, "failed", failed[p] \/ ~Cur(p).tolerate)
      BY <2>1, <2>2, <2>3, <2>4, <2>6, SettleSound
    <2>7. QED
      BY <1>12, <2>5, <2>6 DEF Record
  <1>13. ASSUME NEW p \in Proc, Finish(p) PROVE Goal
    <2> DEFINE s == IF failed[p] THEN "failed" ELSE "done"
               st == SetStatus(mem[p], s)
    <2>1. disk' = st /\ answers' = answers /\ Exit(p) /\ pc[p] = "step"
      BY <1>13 DEF Finish
    <2>2. st.approvals = mem[p].approvals /\ st.steps = mem[p].steps /\ st.status # "waiting"
      BY SetStatusFacts DEF TypeOK, RunStatus
    <2>3. Backed(mem[p]) /\ Given(mem[p]) /\ Waiting(mem[p]) = {}
      BY <2>1 DEF Sound, PassedGates, InEngine
    <2> HIDE DEF st
    <2>4. SoundDisk'
      BY <2>1, <2>2, <2>3 DEF SoundDisk, Backed, Given, OneWaiting, Waiting
    <2>5. QED
      BY <2>1, <2>4, ExitSound
  <1>14. ASSUME EditFile PROVE Goal
    BY <1>14, Frame, FrameDisk DEF EditFile
  <1>15. ASSUME UNCHANGED vars PROVE Goal
    BY <1>15, Frame, FrameDisk DEF vars
  <1>16. QED
    BY <1>1, <1>2, <1>3, <1>4, <1>5, <1>6, <1>7, <1>8, <1>9, <1>10, <1>11, <1>12, <1>13,
       <1>14, <1>15 DEF Next, Command, Engine

THEOREM InductiveInvariant == Spec => []IInv
  BY InitIInv, NextIInv, PTL DEF Spec

----------------------------------------------------------------------------
(* What follows.                                                           *)

\* Every reachable state is well typed, for every number of operators and
\* every runbook: no operator runs past the end of the content it loaded.
THEOREM TypeCorrect == Spec => []TypeOK
  <1>1. IInv => TypeOK
    BY DEF IInv
  <1>2. QED
    BY <1>1, InductiveInvariant, PTL

\* An approval gate holds: _execute starts no command of the plain course
\* before every gate ahead of it was answered "approve", although operators
\* overwrite each other's saves.
THEOREM GatesHold == Spec => []GateNeedsApproval
  <1>1. IInv => GateNeedsApproval
    <2> SUFFICES ASSUME IInv, NEW p \in Proc, pc[p] = "exec", Cur(p).mode = "success",
                        NEW i \in 1..(idx[p] - 1), OpenGate(ver[p], i)
                 PROVE  <<Book[ver[p]][i].name, "approve">> \in answers
      BY DEF GateNeedsApproval
    <2>1. ~failed[p] /\ idx[p] <= Len(Book[ver[p]])
      BY DEF IInv, Sound, Busy, InCommand
    <2>2. mem[p].steps[Book[ver[p]][i].name] = "done"
      BY <2>1 DEF IInv, Sound, PassedGates, InEngine
    <2>3. ver[p] \in Version /\ idx[p] \in Nat /\ Book[ver[p]] \in Seq(StepDef)
      BY BookAssumption DEF IInv, TypeOK
    <2>4. i \in 1..Len(Book[ver[p]])
      BY <2>1, <2>3
    <2>5. Book[ver[p]][i].name \in Name
      BY <2>3, <2>4, BookFacts
    <2>6. IsGate(Book[ver[p]][i].name)
      BY <2>3, <2>4 DEF IsGate, OpenGate
    <2>7. QED
      BY <2>2, <2>5, <2>6 DEF IInv, Sound, Backed
  <1>2. QED
    BY <1>1, InductiveInvariant, PTL

\* pending() and approve() always find exactly the one step that waits.
THEOREM WaitingAnswerable == Spec => []WaitingIsAnswerable
  <1>1. IInv => WaitingIsAnswerable
    BY DEF IInv, SoundDisk, OneWaiting, WaitingIsAnswerable
  <1>2. QED
    BY <1>1, InductiveInvariant, PTL
----------------------------------------------------------------------------
(* The verdict of a pass.                                                  *)

\* What a pass that meets step def and leaves it as s owes it.
Owed(def, s, fail) ==
  /\ s \in {"done", "failed", "skipped"}
  /\ def.mode = "always" => s \in {"done", "failed"}
  /\ ~fail /\ def.mode = "success" => s = "done" \/ (s = "failed" /\ def.tolerate)

\* A failure that was not tolerated.
Blamed(def, s) == s = "failed" /\ ~(def.kind = "run" /\ def.tolerate)

\* The pass of operator p so far: every step behind it got what it is owed, and
\* the failed flag is set for a step that is to blame.  Outside a pass the
\* position is the first one.
Course(p) ==
  /\ InEngine(p) =>
       /\ \A i \in 1..(idx[p] - 1) :
            Owed(Book[ver[p]][i], mem[p].steps[Book[ver[p]][i].name], failed[p])
       /\ failed[p] => \E i \in 1..(idx[p] - 1) :
                         Blamed(Book[ver[p]][i], mem[p].steps[Book[ver[p]][i].name])
  /\ ~InEngine(p) => idx[p] = 1

\* The inductive invariant of the verdict.
VInv == IInv /\ \A p \in Proc : Course(p)

\* A step that keeps the pass of p where it is keeps its course.
LEMMA CourseFrame ==
  ASSUME NEW p \in Proc, Course(p), InEngine(p)' <=> InEngine(p),
         InEngine(p) => mem'[p] = mem[p],
         ver'[p] = ver[p], idx'[p] = idx[p], failed'[p] = failed[p]
  PROVE  Course(p)'
  BY DEF Course

\* A pass that begins has nothing behind it; no more has a command that ended.
LEMMA CourseEnter ==
  ASSUME TypeOK, \A q \in Proc : Course(q), NEW p \in Proc, NEW st, Enter(p, st)
  PROVE  \A q \in Proc : Course(q)'
  <1>1. Course(p)'
    <2>1. pc'[p] = "step" /\ idx'[p] = 1 /\ ~failed'[p]
      BY DEF Enter, TypeOK
    <2>2. 1..(idx'[p] - 1) = {}
      BY <2>1
    <2>3. QED
      BY <2>1, <2>2 DEF Course, InEngine
  <1>2. ASSUME NEW q \in Proc, q # p PROVE Course(q)'
    BY <1>2, CourseFrame DEF Enter, TypeOK, InEngine
  <1>3. QED
    BY <1>1, <1>2

LEMMA CourseExit ==
  ASSUME TypeOK, \A q \in Proc : Course(q), NEW p \in Proc, Exit(p)
  PROVE  \A q \in Proc : Course(q)'
  <1>1. Course(p)'
    BY DEF Course, Exit, TypeOK, InEngine
  <1>2. ASSUME NEW q \in Proc, q # p PROVE Course(q)'
    BY <1>2, CourseFrame DEF Exit, TypeOK, InEngine
  <1>3. QED
    BY <1>1, <1>2

\* Settling the current step: it gets what it is owed, and the flag is set for
\* it or was set before.
LEMMA CourseSettle ==
  ASSUME TypeOK, \A q \in Proc : Course(q), NEW p \in Proc, NEW s \in StepStatus, NEW f \in BOOLEAN,
         Settle(p, s, f), InEngine(p), idx[p] <= Len(Book[ver[p]]),
         Owed(Cur(p), s, f), failed[p] => f, f => failed[p] \/ Blamed(Cur(p), s)
  PROVE  \A q \in Proc : Course(q)'
  <1> DEFINE n == Cur(p).name
             st == SetStep(mem[p], n, s)
  <1>1. n \in Name /\ idx[p] \in 1..Len(Book[ver[p]]) /\ mem[p] \in Snapshot
    BY CurFacts DEF TypeOK
  <1>2. \A m \in Name : st.steps[m] = IF m = n THEN s ELSE mem[p].steps[m]
    BY <1>1, SetStepFacts
  <1>3. mem'[p] = st /\ pc'[p] = "step" /\ failed'[p] = f /\ idx'[p] = idx[p] + 1 /\ ver'[p] = ver[p]
    BY DEF Settle, TypeOK
  <1> HIDE DEF st
  <1>4. ASSUME NEW i \in 1..(idx[p] - 1)
        PROVE  st.steps[Book[ver[p]][i].name] = mem[p].steps[Book[ver[p]][i].name]
    <2>1. i \in 1..Len(Book[ver[p]]) /\ i # idx[p] /\ ver[p] \in Version
      BY <1>1 DEF TypeOK
    <2>2. Book[ver[p]][i].name \in Name /\ Book[ver[p]][i].name # n
      BY <1>1, <2>1, NameIsOneStep, BookFacts DEF Cur
    <2>3. QED
      BY <1>2, <2>2
  <1>5. st.steps[Book[ver[p]][idx[p]].name] = s
    BY <1>1, <1>2 DEF Cur
  <1>6. \A i \in 1..((idx[p] + 1) - 1) : i = idx[p] \/ i \in 1..(idx[p] - 1)
    BY <1>1
  <1>7. ASSUME NEW i \in 1..((idx[p] + 1) - 1)
        PROVE  Owed(Book[ver[p]][i], st.steps[Book[ver[p]][i].name], f)
    <2>1. CASE i = idx[p]
      BY <1>5, <2>1 DEF Cur
    <2>2. CASE i \in 1..(idx[p] - 1)
      <3>1. Owed(Book[ver[p]][i], mem[p].steps[Book[ver[p]][i].name], failed[p])
        BY <2>2 DEF Course
      <3>2. QED
        BY <1>4, <2>2, <3>1 DEF Owed
    <2>3. QED
      BY <1>6, <2>1, <2>2
  <1>8. ASSUME f
        PROVE  \E i \in 1..((idx[p] + 1) - 1) :
                 Blamed(Book[ver[p]][i], st.steps[Book[ver[p]][i].name])
    <2>1. CASE failed[p]
      <3>1. PICK i \in 1..(idx[p] - 1) :
              Blamed(Book[ver[p]][i], mem[p].steps[Book[ver[p]][i].name])
        BY <2>1 DEF Course
      <3>2. i \in 1..((idx[p] + 1) - 1)
        BY <1>1
      <3>3. QED
        BY <1>4, <3>1, <3>2
    <2>2. CASE ~failed[p]
      <3>1. Blamed(Book[ver[p]][idx[p]], st.steps[Book[ver[p]][idx[p]].name])
        BY <1>5, <1>8, <2>2 DEF Cur
      <3>2. idx[p] \in 1..((idx[p] + 1) - 1)
        BY <1>1
      <3>3. QED
        BY <3>1, <3>2
    <2>3. QED
      BY <2>1, <2>2
  <1>9. Course(p)'
    BY <1>3, <1>7, <1>8 DEF Course, InEngine
  <1>10. ASSUME NEW q \in Proc, q # p PROVE Course(q)'
    BY <1>10, CourseFrame DEF Settle, TypeOK, InEngine
  <1>11. QED
    BY <1>9, <1>10

\* Every step keeps the course of every pass.
LEMMA NextCourse ==
  ASSUME VInv, [Next]_vars
  PROVE  \A q \in Proc : Course(q)'
  <1> DEFINE Goal == \A q \in Proc : Course(q)'
  <1> USE DEF VInv, IInv
  <1>1. ASSUME NEW p \in Proc, NEW st, Enter(p, st) PROVE Goal
    BY <1>1, CourseEnter
  <1>2. ASSUME NEW p \in Proc, Exit(p) PROVE Goal
    BY <1>2, CourseExit
  <1>3. ASSUME NEW p \in Proc, Run(p) \/ (\E allow \in BOOLEAN : Resume(p, allow)) \/ Reopen(p)
        PROVE  Goal
    BY <1>1, <1>3 DEF Run, Resume, Reopen
  <1>4. ASSUME NEW p \in Proc, Unknown(p) \/ Crash(p) \/ Wait(p) \/ Finish(p) PROVE Goal
    BY <1>2, <1>4 DEF Unknown, Crash, Wait, Finish
  <1>5. ASSUME NEW p \in Proc, NEW d \in Decision, NEW go \in BOOLEAN, Approve(p, d, go) PROVE Goal
    BY <1>5, CourseFrame DEF Approve, TypeOK, InEngine
  <1>6. ASSUME NEW p \in Proc, Answer(p) PROVE Goal
    <2>1. CASE ~consent[p]
      BY <1>2, <1>6, <2>1 DEF Answer
    <2>2. CASE consent[p]
      BY <1>6, <2>2, CourseFrame DEF Answer, TypeOK, InEngine
    <2>3. QED
      BY <2>1, <2>2
  <1>7. ASSUME NEW p \in Proc, PassDone(p) PROVE Goal
    <2>1. /\ idx[p] \in 1..Len(Book[ver[p]]) /\ pc[p] = "step" /\ idx'[p] = idx[p] + 1
          /\ UNCHANGED <<pc, mem, ver, failed>> /\ mem[p].steps[Cur(p).name] = "done"
      BY <1>7, CurFacts DEF PassDone, AtStep, TypeOK
    <2>2. \A i \in 1..((idx[p] + 1) - 1) : i = idx[p] \/ i \in 1..(idx[p] - 1)
      BY <2>1
    <2>3. \A i \in 1..(idx[p] - 1) : i \in 1..((idx[p] + 1) - 1)
      BY <2>1
    <2>4. Owed(Cur(p), mem[p].steps[Cur(p).name], failed[p])
      BY <2>1 DEF Owed
    <2>5. Course(p)'
      BY <2>1, <2>2, <2>3, <2>4 DEF Course, InEngine, Cur
    <2>6. ASSUME NEW q \in Proc, q # p PROVE Course(q)'
      BY <1>7, <2>6, CourseFrame DEF PassDone, TypeOK, InEngine
    <2>7. QED
      BY <2>5, <2>6
  <1>8. ASSUME NEW p \in Proc, Skip(p) \/ Granted(p) \/ Denied(p) \/ Sleep(p) PROVE Goal
    <2>1. /\ idx[p] <= Len(Book[ver[p]]) /\ InEngine(p) /\ failed[p] \in BOOLEAN
          /\ {"done", "failed", "skipped"} \subseteq StepStatus
      BY <1>8 DEF Skip, Granted, Denied, Sleep, Due, AtStep, InEngine, TypeOK, StepStatus
    <2>2. CASE Skip(p)
      <3>1. Owed(Cur(p), "skipped", failed[p])
        BY <2>2 DEF Skip, Owed, ShouldRun
      <3>2. QED
        BY <2>1, <2>2, <3>1, CourseSettle DEF Skip
    <2>3. CASE Granted(p) \/ Sleep(p)
      <3>1. Owed(Cur(p), "done", failed[p]) /\ Settle(p, "done", failed[p])
        BY <2>3 DEF Granted, Sleep, Owed
      <3>2. QED
        BY <2>1, <3>1, CourseSettle
    <2>4. CASE Denied(p)
      <3>1. Owed(Cur(p), "failed", TRUE) /\ Blamed(Cur(p), "failed") /\ Settle(p, "failed", TRUE)
        BY <2>4 DEF Denied, Owed, Blamed, Due
      <3>2. QED
        BY <2>1, <3>1, CourseSettle
    <2>5. QED
      BY <1>8, <2>2, <2>3, <2>4
  <1>9. ASSUME NEW p \in Proc, Record(p) PROVE Goal
    <2>1. /\ idx[p] <= Len(Book[ver[p]]) /\ InEngine(p) /\ failed[p] \in BOOLEAN
          /\ Cur(p).kind = "run" /\ {"done", "failed"} \subseteq StepStatus
      BY <1>9 DEF Record, InEngine, TypeOK, StepStatus, Sound, Busy, InCommand
    <2>2. CASE Settle(p, "done", failed[p])
      <3>1. Owed(Cur(p), "done", failed[p])
        BY DEF Owed
      <3>2. QED
        BY <2>1, <2>2, <3>1, CourseSettle
    <2>3. CASE Settle(p, "failed", failed[p] \/ ~Cur(p).tolerate)
      <3> DEFINE f == failed[p] \/ ~Cur(p).tolerate
      <3>1. f \in BOOLEAN /\ (failed[p] => f)
        BY <2>1
      <3>2. Owed(Cur(p), "failed", f)
        BY DEF Owed
      <3>3. f => failed[p] \/ Blamed(Cur(p), "failed")
        BY DEF Blamed
      <3> HIDE DEF f
      <3>4. Settle(p, "failed", f)
        BY <2>3 DEF f
      <3>5. QED
        BY <2>1, <3>1, <3>2, <3>3, <3>4, CourseSettle
    <2>4. QED
      BY <1>9, <2>2, <2>3 DEF Record
  <1>10. ASSUME NEW p \in Proc, Start(p) \/ (\E ok \in BOOLEAN : Exec(p, ok)) PROVE Goal
    BY <1>10, CourseFrame DEF Start, Exec, Due, AtStep, TypeOK, InEngine
  <1>11. ASSUME EditFile \/ UNCHANGED vars PROVE Goal
    BY <1>11, CourseFrame DEF EditFile, vars, InEngine
  <1>12. QED
    BY <1>3, <1>4, <1>5, <1>6, <1>7, <1>8, <1>9, <1>10, <1>11 DEF Next, Command, Engine

LEMMA CourseInvariant == Spec => []VInv
  <1>1. Init => VInv
    BY InitIInv DEF Init, VInv, Course, InEngine
  <1>2. VInv /\ [Next]_vars => VInv'
    BY NextCourse, NextIInv DEF VInv
  <1>3. QED
    BY <1>1, <1>2, PTL DEF Spec

\* An operator past its last step can only finish its pass, or leave the saved
\* record alone.
LEMMA PastTheEnd ==
  ASSUME VInv, [Next]_vars, NEW p \in Proc, idx[p] > Len(Book[ver[p]]), pc'[p] = "idle", disk' # disk
  PROVE  Finish(p) /\ InEngine(p)
  <1> USE DEF VInv, IInv
  <1>1. ver[p] \in Version /\ idx[p] \in Nat /\ Len(Book[ver[p]]) \in Nat \ {0} /\ idx[p] # 1
    BY BookAssumption DEF TypeOK
  <1>2. pc[p] = "step"
    BY <1>1 DEF Course, InEngine, Sound, Busy, InCommand
  <1>3. ~(\E q \in Proc : Unknown(q) \/ PassDone(q) \/ Start(q) \/ Crash(q) \/ (\E ok \in BOOLEAN : Exec(q, ok)))
    BY DEF Unknown, PassDone, Start, Crash, Exec
  <1>4. ~EditFile /\ ~UNCHANGED vars /\ ~(\E q \in Proc : Reopen(q) \/ (\E allow \in BOOLEAN : Resume(q, allow)))
    BY DEF EditFile, vars, Reopen, Resume
  <1>5. ASSUME NEW q \in Proc, NEW d \in Decision, NEW go \in BOOLEAN, Approve(q, d, go) PROVE FALSE
    BY <1>5 DEF Approve
  <1>6. ASSUME NEW q \in Proc, Run(q) \/ Answer(q) PROVE FALSE
    BY <1>2, <1>6 DEF Run, Answer, Enter, Exit, TypeOK
  <1>7. ASSUME NEW q \in Proc,
               Skip(q) \/ Wait(q) \/ Granted(q) \/ Denied(q) \/ Sleep(q) \/ Record(q)
        PROVE  FALSE
    <2>1. q # p
      <3>1. ~AtStep(p)
        BY <1>1 DEF AtStep
      <3>2. ~Record(p)
        BY <1>2 DEF Record
      <3>3. QED
        BY <1>7, <3>1, <3>2 DEF Skip, Wait, Granted, Denied, Sleep, Due
    <2>2. pc'[p] = pc[p]
      BY <1>7, <2>1 DEF Skip, Wait, Granted, Denied, Sleep, Record, Settle, Exit, TypeOK
    <2>3. QED
      BY <1>2, <2>2
  <1>8. ASSUME NEW q \in Proc, Finish(q) PROVE q = p
    BY <1>2, <1>8 DEF Finish, Exit, TypeOK
  <1>9. QED
    BY <1>2, <1>3, <1>4, <1>5, <1>6, <1>7, <1>8 DEF Next, Command, Engine, InEngine

\* The status a pass saves in the end tells the truth: "done" when every plain
\* step ran well or was allowed to fail, "failed" when one is to blame.
THEOREM VerdictIsTrue == Spec => VerdictMatchesSteps
  <1> DEFINE Ends(p) == idx[p] > Len(Book[ver[p]]) /\ pc'[p] = "idle" /\ disk' # disk
             Verdict(p) ==
               /\ disk'.status = "done" => Complete(disk', ver[p])
               /\ disk'.status = "failed" => Stopped(disk', ver[p])
               /\ disk'.status \in {"done", "failed"}
  <1>1. ASSUME VInv, [Next]_vars, NEW p \in Proc, Ends(p) PROVE Verdict(p)
    <2> DEFINE v == ver[p]
               S(i) == mem[p].steps[Book[v][i].name]
               end == IF failed[p] THEN "failed" ELSE "done"
    <2>1. Finish(p) /\ InEngine(p)
      BY <1>1, PastTheEnd
    <2>2. mem[p] \in Snapshot /\ end \in RunStatus /\ failed[p] \in BOOLEAN
      BY <1>1 DEF VInv, IInv, TypeOK, RunStatus
    <2>3. disk'.steps = mem[p].steps /\ disk'.status = end
      BY <2>1, <2>2, SetStatusFacts DEF Finish
    <2>4. idx[p] = Len(Book[v]) + 1 /\ Len(Book[v]) \in Nat
      BY <1>1, BookAssumption DEF VInv, IInv, TypeOK
    <2>5. 1..(idx[p] - 1) = 1..Len(Book[v])
      BY <2>4
    <2>6. \A i \in 1..Len(Book[v]) : Owed(Book[v][i], S(i), failed[p])
      BY <1>1, <2>1, <2>5 DEF VInv, Course
    <2>7. failed[p] => \E i \in 1..Len(Book[v]) : Blamed(Book[v][i], S(i))
      BY <1>1, <2>1, <2>5 DEF VInv, Course
    <2>8. CASE failed[p]
      BY <2>3, <2>6, <2>7, <2>8 DEF Stopped, Owed, Blamed
    <2>9. CASE ~failed[p]
      BY <2>3, <2>6, <2>9 DEF Complete, Owed
    <2>10. QED
      BY <2>8, <2>9
  <1>2. VInv /\ [Next]_vars => [\A p \in Proc : Ends(p) => Verdict(p)]_vars
    BY <1>1
  <1>3. QED
    BY <1>2, CourseInvariant, PTL DEF Spec, VerdictMatchesSteps

----------------------------------------------------------------------------
(* Completed steps are never re-run.                                       *)

\* What is saved as done, operator p, while it is at work, has as done too.
UpToDate(p) ==
  pc[p] # "idle" => \A n \in Name : disk.steps[n] = "done" => mem[p].steps[n] = "done"

\* What every save of the engine keeps up to date.
LEMMA SettleUpToDate ==
  ASSUME TypeOK, NEW p \in Proc, NEW s \in StepStatus, NEW f, Settle(p, s, f)
  PROVE  UpToDate(p)'
  <1>1. mem'[p] = disk'
    BY DEF Settle, TypeOK
  <1>2. QED
    BY <1>1 DEF UpToDate

\* The copy a command takes up differs from the saved record only in steps that
\* are not done.
LEMMA CommandUpToDate ==
  ASSUME TypeOK, NEW p \in Proc, Command(p)
  PROVE  UpToDate(p)'
  <1>1. disk \in Snapshot
    BY DEF TypeOK
  <1>2. CASE Run(p)
    <2>1. mem'[p] = disk'
      BY <1>2 DEF Run, Enter, TypeOK
    <2>2. QED
      BY <2>1 DEF UpToDate
  <1>3. ASSUME NEW allow \in BOOLEAN, Resume(p, allow) PROVE UpToDate(p)'
    <2>1. mem'[p] = Reset(disk) /\ disk' = disk
      BY <1>3 DEF Resume, Enter, TypeOK
    <2>2. \A n \in Name : disk.steps[n] = "done" => Reset(disk).steps[n] = "done"
      BY <1>1 DEF Reset, Snapshot
    <2>3. QED
      BY <2>1, <2>2 DEF UpToDate
  <1>4. ASSUME NEW d \in Decision, NEW go \in BOOLEAN, Approve(p, d, go) PROVE UpToDate(p)'
    <2>1. PICK n \in Name : mem'[p] = SetAnswer(disk, n, d)
      BY <1>4 DEF Approve, Waiting, TypeOK
    <2>2. mem'[p].steps = disk.steps /\ disk' = disk
      BY <1>1, <1>4, <2>1, SetAnswerFacts DEF Approve
    <2>3. QED
      BY <2>2 DEF UpToDate
  <1>5. QED
    BY <1>2, <1>3, <1>4 DEF Command

LEMMA EngineUpToDate ==
  ASSUME TypeOK, NEW p \in Proc, UpToDate(p), Engine(p) \/ Crash(p)
  PROVE  UpToDate(p)'
  <1>1. CASE Answer(p)
    <2>1. pc'[p] # "idle" => mem'[p] = disk'
      BY <1>1 DEF Answer, Exit, TypeOK
    <2>2. QED
      BY <2>1 DEF UpToDate
  <1>2. CASE Reopen(p)
    <2>1. PICK n \in Name : /\ mem[p].steps[n] = "waiting"
                           /\ mem'[p] = SetStatus(SetStep(mem[p], n, "pending"), "running")
      BY <1>2 DEF Reopen, Enter, Waiting, TypeOK
    <2> DEFINE st == SetStep(mem[p], n, "pending")
    <2>2. /\ st \in Snapshot
          /\ \A m \in Name : st.steps[m] = IF m = n THEN "pending" ELSE mem[p].steps[m]
      BY <2>1, SetStepFacts DEF TypeOK, StepStatus
    <2> HIDE DEF st
    <2>3. mem'[p].steps = st.steps
      BY <2>1, <2>2, SetStatusFacts DEF RunStatus, st
    <2>4. pc[p] # "idle" /\ disk' = disk
      BY <1>2 DEF Reopen
    <2>5. QED
      BY <2>1, <2>2, <2>3, <2>4 DEF UpToDate
  <1>3. CASE Unknown(p) \/ Wait(p) \/ Finish(p) \/ Crash(p)
    <2>1. pc'[p] = "idle"
      BY <1>3 DEF Unknown, Wait, Finish, Crash, Exit, TypeOK
    <2>2. QED
      BY <2>1 DEF UpToDate
  <1>4. CASE PassDone(p) \/ Start(p) \/ (\E ok \in BOOLEAN : Exec(p, ok))
    <2>1. pc[p] # "idle" /\ mem' = mem /\ disk' = disk
      BY <1>4 DEF PassDone, Start, Exec, Due, AtStep
    <2>2. QED
      BY <2>1 DEF UpToDate
  <1>5. CASE Skip(p) \/ Granted(p) \/ Denied(p) \/ Sleep(p) \/ Record(p)
    <2>1. \E s \in StepStatus, f \in {failed[p], TRUE, failed[p] \/ ~Cur(p).tolerate} : Settle(p, s, f)
      BY <1>5 DEF Skip, Granted, Denied, Sleep, Record, StepStatus
    <2>2. QED
      BY <2>1, SettleUpToDate
  <1>6. QED
    BY <1>1, <1>2, <1>3, <1>4, <1>5 DEF Engine

\* No operator begins before another's command has ended.
TakeTurns == \A p, q \in Proc : pc[p] # "idle" /\ pc[q] # "idle" => p = q

\* "Completed steps are never re-run on resume", as long as operators take turns,
\* and whatever they run, resume, approve or edit, and wherever they crash.  The
\* hypothesis is needed: the save of a second operator may make a step done that
\* the first has loaded as pending.
THEOREM DoneStaysDone == Spec /\ []TakeTurns => NoRerun
  <1> DEFINE Current == IInv /\ \A p \in Proc : UpToDate(p)
  <1>1. Init => Current
    BY InitIInv DEF Init, UpToDate
  <1>2. Current /\ TakeTurns /\ [Next]_vars /\ TakeTurns' => Current'
    <2> SUFFICES ASSUME Current, TakeTurns, [Next]_vars, TakeTurns', NEW p \in Proc PROVE UpToDate(p)'
      BY NextIInv
    <2>0. TypeOK
      BY DEF IInv
    <2>1. CASE EditFile \/ UNCHANGED vars
      BY <2>1 DEF EditFile, vars, UpToDate
    <2>2. CASE Command(p)
      BY <2>0, <2>2, CommandUpToDate
    <2>3. CASE Engine(p) \/ Crash(p)
      BY <2>0, <2>3, EngineUpToDate
    <2>4. ASSUME NEW q \in Proc, q # p, Command(q) PROVE UpToDate(p)'
      <3>1. pc'[q] # "idle"
        BY <2>0, <2>4 DEF Command, Run, Resume, Approve, Enter, TypeOK
      <3>2. QED
        BY <2>4, <3>1 DEF TakeTurns, UpToDate
    <2>5. ASSUME NEW q \in Proc, q # p, Engine(q) \/ Crash(q) PROVE UpToDate(p)'
      <3>1. pc[q] # "idle"
        BY <2>5 DEF Engine, Crash, Answer, Reopen, Unknown, PassDone, Skip, Wait, Granted, Denied,
                    Sleep, Start, Exec, Record, Finish, Due, AtStep
      <3>2. pc'[p] = pc[p]
        BY <2>0, <2>5 DEF Engine, Crash, Answer, Reopen, Unknown, PassDone, Skip, Wait, Granted, Denied,
                          Sleep, Start, Exec, Record, Finish, Enter, Exit, Settle, TypeOK
      <3>3. QED
        BY <2>5, <3>1, <3>2 DEF TakeTurns, UpToDate
    <2>6. QED
      BY <2>1, <2>2, <2>3, <2>4, <2>5 DEF Next
  <1>3. Current /\ [Next]_vars =>
          [\A p \in Proc : (pc[p] # "exec" /\ pc'[p] = "exec") => disk.steps[Cur(p).name] # "done"]_vars
    <2> SUFFICES ASSUME Current, Next, NEW p \in Proc, pc[p] # "exec", pc'[p] = "exec"
                 PROVE  disk.steps[Cur(p).name] # "done"
      BY DEF vars, IInv
    <2> TypeOK
      BY DEF IInv
    <2>1. Start(p)
      <3>0. ASSUME NEW q \in Proc, q # p, Command(q) \/ Engine(q) \/ Crash(q) PROVE FALSE
        BY <3>0 DEF Command, Engine, Run, Resume, Approve, Crash, Answer, Reopen, Unknown, PassDone,
                    Skip, Wait, Granted, Denied, Sleep, Start, Exec, Record, Finish,
                    Enter, Exit, Settle, TypeOK
      <3>1. ~EditFile /\ ~Command(p) /\ ~Crash(p)
        BY DEF EditFile, Command, Run, Resume, Approve, Enter, Crash, Exit, TypeOK
      <3>2. ~(Answer(p) \/ Reopen(p) \/ Unknown(p) \/ PassDone(p) \/ Wait(p) \/ Finish(p))
        BY DEF Answer, Reopen, Unknown, PassDone, Wait, Finish, Enter, Exit, TypeOK
      <3>3. ~(Skip(p) \/ Granted(p) \/ Denied(p) \/ Sleep(p) \/ Record(p))
        BY DEF Skip, Granted, Denied, Sleep, Record, Settle, TypeOK
      <3>4. ~(\E ok \in BOOLEAN : Exec(p, ok))
        BY DEF Exec
      <3>5. QED
        BY <3>0, <3>1, <3>2, <3>3, <3>4 DEF Next, Engine
    <2>2. pc[p] = "step" /\ mem[p].steps[Cur(p).name] # "done" /\ Cur(p).name \in Name
      BY <2>1, CurFacts DEF Start, Due, AtStep, TypeOK
    <2>3. QED
      BY <2>2 DEF UpToDate
  <1>4. QED
    BY <1>1, <1>2, <1>3, PTL DEF Spec, NoRerun


(***************************************************************************)
(* Converge: a command that reports success has achieved what it is for,   *)
(* and a waiting `up` starts its services in the order of their            *)
(* dependencies.                                                           *)
(***************************************************************************)

Kinds == {"up", "down", "ps", "diff", "converge", "replace"}
Reading == {"rows", "plan"}
Looping == {"net", "mknet", "vols", "look", "create", "start", "gate"}
Upping == {"load"} \cup Looping
Listing == {"list", "delete"}
Dropping == {"nets", "rmnet", "rmvols"}
Ats == {"idle"} \cup Reading \cup Upping \cup Listing \cup Dropping

(***************************************************************************)
(* The shape of the state.                                                 *)
(***************************************************************************)

CommandOK(c) ==
  /\ c \in [kind : Kinds, k : {c.k}, only : {c.only}, wait : BOOLEAN, volumes : BOOLEAN]
  /\ c.kind \in {"up", "down", "ps"} => c.k \in DOMAIN Stacks /\ c.only \subseteq Stacks[c.k]
  /\ c.kind \in {"diff", "converge", "replace"} => c.k = 1

Mind(m) ==
  [at : Ats, cmd : {m.cmd}, k : Nat \ {0}, want : {m.want}, rows : {m.rows}, order : {m.order},
   pos : Nat \ {0}, passed : {m.passed}, todo : {m.todo}, had : BOOLEAN,
   said : {"nothing", "ok", "not ok", "error"}, quiet : BOOLEAN]

\* Which stack and which service of it a process is at.
Located(m) ==
  /\ m.at \in Upping \cup Listing \cup Dropping => m.k \in DOMAIN Stacks
  /\ m.at # "idle" /\ m.cmd.kind \in {"up", "down", "ps"} => m.k = m.cmd.k
  /\ m.at = "rows" => m.k = m.cmd.k
  /\ IF m.at \in Looping
     THEN /\ m.order \in Orders(m.k) /\ m.pos <= Len(m.order)
          /\ m.passed = {m.order[i] : i \in 1..(m.pos - 1)}
     ELSE m.at # "idle" => m.pos = 1 /\ m.passed = {}
  /\ m.at \in Reading => m.cmd.kind \in {"ps", "diff", "converge", "replace"}
  /\ m.at \in Upping => m.cmd.kind \in {"up", "converge", "replace"}
  /\ m.at \in Listing => m.cmd.kind \in {"down", "replace"}
  /\ m.at \in Dropping => m.cmd.kind = "down" /\ m.cmd.only = {}

ProcessOK(m) == m \in Mind(m) /\ CommandOK(m.cmd) /\ Located(m)

BoxTyped(b) ==
  b = None \/ b \in [id : {b.id}, hash : {b.hash}, state : {"created", "running", "paused", "exited"}, ready : BOOLEAN]

Shape ==
  /\ want = [s \in Service |-> want[s]]
  /\ box = [s \in Service |-> box[s]] /\ \A s \in Service : BoxTyped(box[s])
  /\ me = [p \in Process |-> me[p]] /\ \A p \in Process : ProcessOK(me[p])

(***************************************************************************)
(* What a process that nobody has disturbed knows.                         *)
(***************************************************************************)

InOrder(m, s) == Drifted(s) \/ (InPlace(s) /\ (m.cmd.wait => box[s].ready))

\* What it has read of the stacks it has yet to come to is still so; only its
\* own replace-drifted has removed some since.
ReadsHold(m) ==
  /\ \A j \in DOMAIN Stacks : j >= m.k => \A s \in Stacks[j] : m.want[s] = want[s]
  /\ m.cmd.kind \in {"ps", "diff", "converge", "replace"} /\ m.at # "rows" =>
       \A j \in DOMAIN Stacks : j > m.k \/ (j = m.k /\ m.at \in {"plan", "list"}) =>
         \A s \in Stacks[j] : m.rows[s] = Row(s) \/ (m.cmd.kind = "replace" /\ box[s] = None)

\* What it is done with is as it should be.
DoneHolds(m) ==
  \A j \in DOMAIN Stacks : j < m.k =>
    \A s \in Stacks[j] :
      /\ m.cmd.kind = "converge" => Drifted(s) \/ InPlace(s)
      /\ m.cmd.kind = "replace" => ~Drifted(s)
      /\ m.cmd.kind = "diff" /\ m.had => InPlace(s) /\ box[s].state = "running"

\* What it has found and done in the stack it is at.
HereHolds(m) ==
  /\ \A s \in m.passed : InOrder(m, s)
  /\ m.at = "start" => box[m.order[m.pos]] # None /\ box[m.order[m.pos]].hash = want[m.order[m.pos]]
  /\ m.at = "gate" => InPlace(m.order[m.pos])
  /\ m.cmd.kind = "replace" /\ m.at \in Upping => \A s \in Stacks[m.k] : ~Drifted(s)
  /\ m.cmd.kind = "replace" /\ m.at = "delete" =>
       \A s \in Stacks[m.k] : Drifted(s) => box[s].id \in m.todo
  /\ m.cmd.kind = "down" /\ m.at = "delete" =>
       \A s \in IF m.cmd.only = {} THEN Stacks[m.k] ELSE m.cmd.only : box[s] = None \/ box[s].id \in m.todo
  /\ m.at \in Dropping => \A s \in Stacks[m.k] : box[s] = None

Knows(m) ==
  /\ m.at # "idle" /\ m.quiet => ReadsHold(m) /\ DoneHolds(m) /\ HereHolds(m)
  /\ m.at = "idle" /\ m.said = "ok" => Achieved(m.cmd)

ConvergeInv == Shape /\ \A p \in Process : Knows(me[p])

----------------------------------------------------------------------------
(* Stacks and orders.                                                      *)

\* Every service is of one stack.
LEMMA StackFacts ==
  /\ DOMAIN Stacks = 1..Len(Stacks) /\ Len(Stacks) \in Nat
  /\ \A k \in DOMAIN Stacks : Stacks[k] \subseteq Service
  /\ \A s \in Service : \E k \in DOMAIN Stacks : s \in Stacks[k]
  /\ \A j, k \in DOMAIN Stacks : \A s \in Stacks[j] : s \in Stacks[k] => j = k
<1>1. DOMAIN Stacks = 1..Len(Stacks) /\ Len(Stacks) \in Nat
  BY ConvergeAssumption
<1>2. QED
  BY <1>1, ConvergeAssumption DEF Service

\* static_order(): all the services of the stack, each after those it needs.
LEMMA OrderFacts ==
  ASSUME NEW k \in DOMAIN Stacks, NEW o \in Orders(k)
  PROVE  /\ Len(o) \in Nat \ {0}
         /\ \A i \in 1..Len(o) : o[i] \in Stacks[k]
         /\ \A s \in Stacks[k] : \E i \in 1..Len(o) : o[i] = s
         /\ \A i, j \in 1..Len(o) : o[j] \in deps[o[i]] => j < i
<1>1. PICK S : S = Stacks[k]
  OBVIOUS
<1>2. IsFiniteSet(S) /\ S # {}
  BY <1>1, ConvergeAssumption
<1>3. PICK n : n = Cardinality(S)
  OBVIOUS
<1>4. n \in Nat
  BY <1>2, <1>3, FS_CardinalityType
<1>5. o \in [1..n -> S] /\ \A s \in S : \E i \in DOMAIN o : o[i] = s
  BY <1>1, <1>3 DEF Orders, OrdersAny
<1>6. \A i, j \in DOMAIN o : o[j] \in deps[o[i]] => j < i
  BY DEF Orders
<1>7. DOMAIN o = 1..n /\ Len(o) = n
  BY <1>4, <1>5
<1>8. n # 0
  BY <1>2, <1>4, <1>5, <1>7
<1>9. QED
  BY <1>1, <1>4, <1>5, <1>6, <1>7, <1>8

----------------------------------------------------------------------------
(* A process that is at rest, and those that another has disturbed.        *)

LEMMA RestOK == ProcessOK(Rest) /\ Knows(Rest)
<1>1. PICK c : c = Converging
  OBVIOUS
<1>2. CommandOK(c)
  BY <1>1 DEF Converging, CommandOK, Kinds
<1>3. ProcessOK(Idle(c, "nothing"))
  BY <1>2 DEF Idle, ProcessOK, Mind, Located, Ats, Upping, Looping, Listing, Dropping, Reading
<1>4. Knows(Idle(c, "nothing"))
  BY DEF Idle, Knows
<1>5. QED
  BY <1>1, <1>3, <1>4 DEF Rest

LEMMA DisturbedOK ==
  ASSUME NEW m, ProcessOK(m)
  PROVE  ProcessOK(Disturbed(m)) /\ Knows(Disturbed(m))
<1>1. CASE m.at = "idle"
  BY <1>1, RestOK DEF Disturbed
<1>2. CASE m.at # "idle"
  <2>1. PICK n : n = [m EXCEPT !.quiet = FALSE]
    OBVIOUS
  <2>2. m \in Mind(m)
    BY DEF ProcessOK
  <2>3. n.at = m.at /\ n.cmd = m.cmd /\ n.k = m.k /\ n.order = m.order /\ n.pos = m.pos
        /\ n.passed = m.passed /\ n.quiet = FALSE /\ n \in Mind(n)
    BY <2>1, <2>2 DEF Mind
  <2>4. ProcessOK(n)
    BY <2>3 DEF ProcessOK, Located, CommandOK
  <2>5. Knows(n)
    BY <1>2, <2>3 DEF Knows
  <2>6. QED
    BY <1>2, <2>1, <2>4, <2>5 DEF Disturbed
<1>3. QED
  BY <1>1, <1>2

\* What is known of the stack files and the containers stays true with them.
LEMMA WorldStays ==
  ASSUME NEW m, UNCHANGED <<want, box>>, Knows(m)
  PROVE  Knows(m)'
<1>1. want' = want /\ box' = box
  OBVIOUS
<1>2. ReadsHold(m) => ReadsHold(m)'
  BY <1>1 DEF ReadsHold, Row
<1>3. DoneHolds(m) => DoneHolds(m)'
  BY <1>1 DEF DoneHolds, Drifted, InPlace, Up
<1>4. HereHolds(m) => HereHolds(m)'
  BY <1>1 DEF HereHolds, InOrder, Drifted, InPlace, Up
<1>5. Achieved(m.cmd) => Achieved(m.cmd)'
  BY <1>1 DEF Achieved, Drifted, InPlace, Up
<1>6. QED
  BY <1>2, <1>3, <1>4, <1>5 DEF Knows

----------------------------------------------------------------------------
(* The two ways a process goes on.                                         *)

LEMMA KnowsIs ==
  ASSUME NEW p \in Process, NEW m, Knows(m)', me'[p] = m
  PROVE  Knows(me[p])'
<1>1. ReadsHold(m)' => ReadsHold(me[p])'
  BY DEF ReadsHold, Row
<1>2. DoneHolds(m)' => DoneHolds(me[p])'
  BY DEF DoneHolds, Drifted, InPlace, Up
<1>3. HereHolds(m)' => HereHolds(me[p])'
  BY DEF HereHolds, InOrder, Drifted, InPlace, Up
<1>4. Achieved(m.cmd)' => Achieved(me[p].cmd)'
  BY DEF Achieved, Drifted, InPlace, Up
<1>5. QED
  BY <1>1, <1>2, <1>3, <1>4 DEF Knows

LEMMA GoesKeeps ==
  ASSUME ConvergeInv, NEW p \in Process, NEW m, me' = [me EXCEPT ![p] = m],
         UNCHANGED <<want, box>>, ProcessOK(m), Knows(m)
  PROVE  ConvergeInv'
<1>1. UNCHANGED <<want, box>>
  OBVIOUS
<1>2. ASSUME NEW x \in Process
      PROVE  ProcessOK(me'[x]) /\ Knows(me[x])'
  <2>1. PICK y : y = IF x = p THEN m ELSE me[x]
    OBVIOUS
  <2>2. ProcessOK(y) /\ Knows(y) /\ me'[x] = y
    BY <1>1, <2>1 DEF ConvergeInv, Shape
  <2>3. Knows(y)'
    BY <1>1, <2>2, WorldStays
  <2>4. QED
    BY <2>2, <2>3, KnowsIs
<1>3. Shape'
  BY <1>1, <1>2 DEF ConvergeInv, Shape, BoxTyped
<1>4. QED
  BY <1>2, <1>3 DEF ConvergeInv

LEMMA DisturbedKnows ==
  ASSUME NEW y, ProcessOK(y), NEW z, z = Disturbed(y)
  PROVE  ProcessOK(z) /\ Knows(z)'
<1>1. ProcessOK(z)
  BY DisturbedOK
<1>2. y \in Mind(y)
  BY DEF ProcessOK
<1>3. (z.at = "idle" => z.said = "nothing") /\ (z.at # "idle" => ~z.quiet)
  <2>1. CASE y.at = "idle"
    BY <2>1 DEF Disturbed, Rest, Idle
  <2>2. CASE y.at # "idle"
    BY <1>2, <2>2 DEF Disturbed, Mind
  <2>3. QED
    BY <2>1, <2>2
<1>4. QED
  BY <1>1, <1>3 DEF Knows

LEMMA ActsKeep ==
  ASSUME ConvergeInv, NEW p \in Process, NEW m, Acts(p, m), ProcessOK(m), Knows(m)',
         box' = [s \in Service |-> box'[s]], \A s \in Service : BoxTyped(box'[s])
  PROVE  ConvergeInv'
<1>1. want' = want /\ me' = [x \in Process |-> IF x = p THEN m ELSE Disturbed(me[x])]
  BY DEF Acts
<1>2. ASSUME NEW x \in Process
      PROVE  ProcessOK(me'[x]) /\ Knows(me[x])'
  <2>1. CASE x = p
    BY <1>1, <2>1, KnowsIs
  <2>2. CASE x # p
    <3>1. PICK y, z : y = me[x] /\ z = Disturbed(y)
      OBVIOUS
    <3>2. me'[x] = z /\ ProcessOK(y)
      BY <1>1, <2>2, <3>1 DEF ConvergeInv, Shape
    <3>3. ProcessOK(z) /\ Knows(z)'
      BY <3>1, <3>2, DisturbedKnows
    <3>4. QED
      BY <3>2, <3>3, KnowsIs
  <2>3. QED
    BY <2>1, <2>2
<1>3. Shape'
  BY <1>1, <1>2 DEF ConvergeInv, Shape, BoxTyped
<1>4. QED
  BY <1>2, <1>3 DEF ConvergeInv

\* Faults and edits disturb every process.
LEMMA FaultKeeps ==
  ASSUME ConvergeInv, Disturbs, want' = [s \in Service |-> want'[s]],
         box' = [s \in Service |-> box'[s]], \A s \in Service : BoxTyped(box'[s])
  PROVE  ConvergeInv'
<1>1. me' = [x \in Process |-> Disturbed(me[x])]
  BY DEF Disturbs
<1>2. ASSUME NEW x \in Process
      PROVE  ProcessOK(me'[x]) /\ Knows(me[x])'
  <2>1. PICK y, z : y = me[x] /\ z = Disturbed(y)
    OBVIOUS
  <2>2. me'[x] = z /\ ProcessOK(y)
    BY <1>1, <2>1 DEF ConvergeInv, Shape
  <2>3. ProcessOK(z) /\ Knows(z)'
    BY <2>1, <2>2, DisturbedKnows
  <2>4. QED
    BY <2>2, <2>3, KnowsIs
<1>3. Shape'
  BY <1>1, <1>2 DEF Shape, BoxTyped
<1>4. QED
  BY <1>2, <1>3 DEF ConvergeInv

----------------------------------------------------------------------------
(* The ways a command ends or goes on to another service or stack.         *)

LEMMA EndedOK ==
  ASSUME ConvergeInv, NEW p \in Process, NEW said,
         said = "ok" /\ me[p].quiet => Achieved(me[p].cmd)
  PROVE  ProcessOK(Ended(p, said)) /\ Knows(Ended(p, said))
<1>1. CASE said = "ok" /\ me[p].quiet
  <2>1. PICK c : c = me[p].cmd
    OBVIOUS
  <2>2. CommandOK(c)
    BY <2>1 DEF ConvergeInv, Shape, ProcessOK
  <2>3. Achieved(c)
    BY <1>1, <2>1
  <2>4. ProcessOK(Idle(c, "ok"))
    BY <2>2 DEF Idle, ProcessOK, Mind, Located, Ats, Upping, Looping, Listing, Dropping, Reading
  <2>5. Knows(Idle(c, "ok"))
    BY <2>3 DEF Idle, Knows
  <2>6. QED
    BY <1>1, <2>1, <2>4, <2>5 DEF Ended
<1>2. CASE ~(said = "ok" /\ me[p].quiet)
  BY <1>2, RestOK DEF Ended
<1>3. QED
  BY <1>1, <1>2

\* An error, or the end of a process.
LEMMA RaiseKeeps ==
  ASSUME ConvergeInv, NEW p \in Process, Raise(p)
  PROVE  ConvergeInv'
<1>1. ProcessOK(Ended(p, "error")) /\ Knows(Ended(p, "error"))
  BY EndedOK
<1>2. me' = [me EXCEPT ![p] = Ended(p, "error")] /\ UNCHANGED <<want, box>>
  BY DEF Raise, Goes, World
<1>3. QED
  BY <1>1, <1>2, GoesKeeps

\* A stack of several is done with.
LEMMA OnToOK ==
  ASSUME NEW m, ProcessOK(m), m.k \in DOMAIN Stacks, m.at \in {"plan"} \cup Looping,
         m.cmd.kind \in {"diff", "converge", "replace"},
         m.quiet => /\ ReadsHold(m) /\ DoneHolds(m)
                    /\ \A s \in Stacks[m.k] :
                         /\ m.cmd.kind = "converge" => Drifted(s) \/ InPlace(s)
                         /\ m.cmd.kind = "replace" => ~Drifted(s)
                         /\ m.cmd.kind = "diff" /\ m.had => InPlace(s) /\ box[s].state = "running"
  PROVE  ProcessOK(OnTo(m)) /\ Knows(OnTo(m))
<1>1. PICK r, w, e, o, k, i : /\ r = Forget(m.rows, m.k, None) /\ w = Forget(m.want, m.k, AnyDigest)
                              /\ e = {} /\ o = << >> /\ k = m.k + 1 /\ i = 1
  OBVIOUS
<1>2. PICK n : n = [m EXCEPT !.k = k, !.at = "plan", !.order = o, !.pos = i, !.passed = e,
                       !.rows = r, !.want = w]
  OBVIOUS
<1>3. n = OnTo(m)
  BY <1>1, <1>2 DEF OnTo
<1>4. m \in Mind(m)
  BY DEF ProcessOK
<1>5. /\ n.k = m.k + 1 /\ n.at = "plan" /\ n.pos = 1 /\ n.passed = {} /\ n.rows = r /\ n.want = w
      /\ n.cmd = m.cmd /\ n.had = m.had /\ n.quiet = m.quiet
  BY <1>1, <1>2, <1>4 DEF Mind
<1>6. n \in Mind(n)
  <2>1. "plan" \in Ats
    BY DEF Ats, Reading
  <2>2. m.k \in Nat \ {0}
    BY <1>4 DEF Mind
  <2>3. k \in Nat \ {0} /\ i \in Nat \ {0}
    BY <1>1, <2>2
  <2>4. QED
    BY <1>2, <1>4, <2>1, <2>3 DEF Mind
<1>7. ProcessOK(n)
  BY <1>5, <1>6 DEF ProcessOK, Located, CommandOK, Upping, Listing, Dropping, Looping, Reading
<1>8. m.k \in Nat
  BY <1>4 DEF Mind
<1>9. ASSUME n.quiet
      PROVE  ReadsHold(n) /\ DoneHolds(n) /\ HereHolds(n)
  <2>1. ReadsHold(m) /\ DoneHolds(m)
    BY <1>5, <1>9
  <2>2. \A j \in DOMAIN Stacks : j \in Nat
    BY StackFacts
  <2>3. ASSUME NEW j \in DOMAIN Stacks, j >= m.k + 1, NEW s \in Stacks[j]
        PROVE  r[s] = m.rows[s] /\ w[s] = m.want[s]
    <3>1. s \in Service /\ s \notin Stacks[m.k]
      BY <1>8, <2>2, <2>3, StackFacts
    <3>2. QED
      BY <1>1, <3>1 DEF Forget
  <2>4. m.at # "rows"
    BY DEF Looping
  <2>5. ReadsHold(n)
    BY <1>5, <1>8, <2>1, <2>2, <2>3, <2>4 DEF ReadsHold
  <2>6. DoneHolds(n)
    BY <1>5, <1>8, <1>9, <2>1, <2>2 DEF DoneHolds
  <2>7. HereHolds(n)
    BY <1>5 DEF HereHolds, Upping, Looping, Dropping
  <2>8. QED
    BY <2>5, <2>6, <2>7
<1>10. QED
  BY <1>3, <1>5, <1>7, <1>9 DEF Knows

\* A service is done with: another one is looked at, or the stack is.
LEMMA PassOK ==
  ASSUME ConvergeInv, NEW p \in Process, me[p].at \in {"look", "gate"},
         me[p].quiet => InOrder(me[p], Here(p))
  PROVE  ProcessOK(Pass(p)) /\ Knows(Pass(p))
<1>1. PICK m : m = me[p]
  OBVIOUS
<1>2. ProcessOK(m) /\ Knows(m)
  BY <1>1 DEF ConvergeInv, Shape
<1>3. m \in Mind(m) /\ CommandOK(m.cmd) /\ Located(m) /\ m.at \in Looping
  BY <1>1, <1>2 DEF ProcessOK, Looping
<1>4. /\ m.k \in DOMAIN Stacks /\ m.order \in Orders(m.k) /\ m.pos <= Len(m.order) /\ m.pos \in Nat \ {0}
      /\ m.passed = {m.order[i] : i \in 1..(m.pos - 1)} /\ m.cmd.kind \in {"up", "converge", "replace"}
  BY <1>3 DEF Located, Mind, Upping
<1>5. PICK h : h = m.order[m.pos]
  OBVIOUS
<1>6. h = Here(p)
  BY <1>1, <1>5 DEF Here
<1>7. m.quiet => ReadsHold(m) /\ DoneHolds(m) /\ HereHolds(m) /\ InOrder(m, h)
  BY <1>1, <1>2, <1>3, <1>6 DEF Knows, Looping
<1>8. CASE m.pos = Len(m.order)
  <2>1. \A s \in Stacks[m.k] : s = h \/ s \in m.passed
    BY <1>4, <1>5, <1>8, OrderFacts
  <2>2. m.quiet => \A s \in Stacks[m.k] : InOrder(m, s)
    BY <1>7, <2>1 DEF HereHolds
  <2>3. Pass(p) = Back(p, TRUE)
    <3>1. PICK n : n = [m EXCEPT !.passed = @ \cup {h}]
      OBVIOUS
    <3>2. n.pos = m.pos /\ n.order = m.order
      BY <1>3, <3>1 DEF Mind
    <3>3. QED
      BY <1>1, <1>6, <1>8, <3>1, <3>2 DEF Pass
  <2>4. CASE m.cmd.kind = "up"
    <3>1. m.cmd.k = m.k
      BY <1>3, <2>4 DEF Located, Looping
    <3>2. m.quiet => Achieved(m.cmd)
      BY <2>2, <2>4, <3>1 DEF Achieved, InOrder
    <3>3. ProcessOK(Ended(p, "ok")) /\ Knows(Ended(p, "ok"))
      BY <1>1, <3>2, EndedOK
    <3>4. QED
      BY <1>1, <2>3, <2>4, <3>3 DEF Back
  <2>5. CASE m.cmd.kind \in {"converge", "replace"}
    <3>1. ASSUME m.quiet, NEW s \in Stacks[m.k]
          PROVE  /\ m.cmd.kind = "converge" => Drifted(s) \/ InPlace(s)
                 /\ m.cmd.kind = "replace" => ~Drifted(s)
      BY <1>3, <1>7, <2>2, <3>1 DEF InOrder, HereHolds, Upping
    <3>2. ProcessOK(OnTo(m)) /\ Knows(OnTo(m))
      BY <1>2, <1>3, <1>4, <1>7, <2>5, <3>1, OnToOK
    <3>3. QED
      BY <1>1, <2>3, <2>5, <3>2 DEF Back
  <2>6. QED
    BY <1>4, <2>4, <2>5
<1>9. CASE m.pos # Len(m.order)
  <2>1. PICK n : n = [m EXCEPT !.passed = @ \cup {h}, !.pos = @ + 1, !.at = "look"]
    OBVIOUS
  <2>2. Pass(p) = n
    <3>1. PICK n1 : n1 = [m EXCEPT !.passed = @ \cup {h}]
      OBVIOUS
    <3>2. n1.pos = m.pos /\ n1.order = m.order /\ [n1 EXCEPT !.pos = @ + 1, !.at = "look"] = n
      BY <1>3, <2>1, <3>1 DEF Mind
    <3>3. QED
      BY <1>1, <1>6, <1>9, <3>1, <3>2 DEF Pass
  <2>3. /\ n.passed = m.passed \cup {h} /\ n.pos = m.pos + 1 /\ n.at = "look" /\ n.cmd = m.cmd /\ n.k = m.k
        /\ n.want = m.want /\ n.rows = m.rows /\ n.order = m.order /\ n.had = m.had /\ n.quiet = m.quiet
    BY <1>3, <2>1 DEF Mind
  <2>4. n \in Mind(n)
    <3>1. "look" \in Ats
      BY DEF Ats, Upping, Looping
    <3>2. m.pos + 1 \in Nat \ {0}
      BY <1>4
    <3>3. QED
      BY <1>3, <2>1, <3>1, <3>2 DEF Mind
  <2>5. n.pos <= Len(n.order)
    BY <1>4, <1>9, <2>3, OrderFacts
  <2>6. n.passed = {n.order[i] : i \in 1..(n.pos - 1)}
    BY <1>4, <1>5, <2>3
  <2>7. Located(n)
    BY <1>3, <1>4, <2>3, <2>5, <2>6 DEF Located, Looping, Upping, Listing, Dropping, Reading
  <2>8. ProcessOK(n)
    BY <1>3, <2>3, <2>4, <2>7 DEF ProcessOK
  <2>9. ASSUME n.quiet
        PROVE  ReadsHold(n) /\ DoneHolds(n) /\ HereHolds(n)
    <3>1. ReadsHold(m) /\ DoneHolds(m) /\ HereHolds(m) /\ InOrder(m, h)
      BY <1>7, <2>3, <2>9
    <3>2. ReadsHold(n)
      BY <1>3, <2>3, <3>1 DEF ReadsHold, Looping
    <3>3. DoneHolds(n)
      BY <2>3, <3>1 DEF DoneHolds
    <3>4. HereHolds(n)
      BY <1>3, <2>3, <3>1 DEF HereHolds, InOrder, Upping, Looping, Dropping
    <3>5. QED
      BY <3>2, <3>3, <3>4
  <2>10. QED
    BY <2>2, <2>3, <2>8, <2>9 DEF Knows
<1>10. QED
  BY <1>8, <1>9

\* A process that does not change the world goes on as one that knows.
LEMMA GoingKeeps ==
  ASSUME ConvergeInv, NEW p \in Process, NEW m, Goes(p, m), ProcessOK(m), Knows(m)
  PROVE  ConvergeInv'
<1>1. me' = [me EXCEPT ![p] = m] /\ UNCHANGED <<want, box>>
  BY DEF Goes, World
<1>2. QED
  BY <1>1, GoesKeeps

\* One that changes networks or volumes only.
LEMMA ActingKeeps ==
  ASSUME ConvergeInv, NEW p \in Process, NEW m, Acts(p, m), ProcessOK(m), Knows(m), UNCHANGED box
  PROVE  ConvergeInv'
<1>1. UNCHANGED <<want, box>>
  BY DEF Acts
<1>2. Knows(m)'
  BY <1>1, WorldStays
<1>3. box' = [s \in Service |-> box'[s]] /\ \A s \in Service : BoxTyped(box'[s])
  BY <1>1 DEF ConvergeInv, Shape
<1>4. QED
  BY <1>2, <1>3, ActsKeep

\* What is said of the process p.
LEMMA Of ==
  ASSUME ConvergeInv, NEW p \in Process, NEW m, m = me[p]
  PROVE  /\ m \in Mind(m) /\ CommandOK(m.cmd) /\ Located(m) /\ ProcessOK(m) /\ Knows(m)
         /\ m.k \in Nat \ {0} /\ m.pos \in Nat \ {0}
         /\ m.at # "idle" /\ m.quiet => ReadsHold(m) /\ DoneHolds(m) /\ HereHolds(m)
<1>1. ProcessOK(m) /\ Knows(m)
  BY DEF ConvergeInv, Shape
<1>2. m \in Mind(m) /\ CommandOK(m.cmd) /\ Located(m)
  BY <1>1 DEF ProcessOK
<1>3. m.k \in Nat \ {0} /\ m.pos \in Nat \ {0}
  BY <1>2 DEF Mind
<1>4. QED
  BY <1>1, <1>2, <1>3 DEF Knows

\* A process that only comes to another point of its program.
LEMMA ComesTo ==
  ASSUME NEW m, m \in Mind(m), NEW a \in Ats, NEW n, n = [m EXCEPT !.at = a]
  PROVE  /\ n \in Mind(n) /\ n.at = a /\ n.cmd = m.cmd /\ n.k = m.k /\ n.want = m.want /\ n.rows = m.rows
         /\ n.order = m.order /\ n.pos = m.pos /\ n.passed = m.passed /\ n.todo = m.todo /\ n.had = m.had
         /\ n.quiet = m.quiet
BY DEF Mind

\* The same within one `up`.
LEMMA LoopMoves ==
  ASSUME NEW m, ProcessOK(m), Knows(m), m.at \in Looping, NEW a \in Looping, NEW n, n = [m EXCEPT !.at = a],
         a = "start" /\ m.quiet => /\ box[m.order[m.pos]] # None
                                   /\ box[m.order[m.pos]].hash = want[m.order[m.pos]],
         a = "gate" /\ m.quiet => InPlace(m.order[m.pos])
  PROVE  ProcessOK(n) /\ Knows(n)
<1>1. m \in Mind(m) /\ a \in Ats /\ a # "idle" /\ m.at # "idle"
  BY DEF ProcessOK, Ats, Upping, Looping
<1>2. /\ n \in Mind(n) /\ n.at = a /\ n.cmd = m.cmd /\ n.k = m.k /\ n.want = m.want /\ n.rows = m.rows
      /\ n.order = m.order /\ n.pos = m.pos /\ n.passed = m.passed /\ n.todo = m.todo /\ n.had = m.had
      /\ n.quiet = m.quiet
  BY <1>1, ComesTo
<1>3. ProcessOK(n)
  BY <1>2 DEF ProcessOK, Located, Looping, Upping, Listing, Dropping, Reading
<1>4. ASSUME n.quiet
      PROVE  ReadsHold(n) /\ DoneHolds(n) /\ HereHolds(n)
  <2>1. ReadsHold(m) /\ DoneHolds(m) /\ HereHolds(m)
    BY <1>1, <1>2, <1>4 DEF Knows
  <2>2. ReadsHold(n)
    BY <1>2, <2>1 DEF ReadsHold, Looping
  <2>3. DoneHolds(n)
    BY <1>2, <2>1 DEF DoneHolds
  <2>4. HereHolds(n)
    BY <1>2, <1>4, <2>1 DEF HereHolds, InOrder, Upping, Looping, Dropping
  <2>5. QED
    BY <2>2, <2>3, <2>4
<1>5. QED
  BY <1>1, <1>2, <1>3, <1>4 DEF Knows

----------------------------------------------------------------------------
(* The steps of a process that leave the containers alone.                 *)

LEMMA CommandIsOK ==
  ASSUME NEW c \in Commands \cup {Converging}
  PROVE  CommandOK(c)
<1>1. CASE c \in Commands
  BY <1>1, ConvergeAssumption DEF CommandOK, Kinds
<1>2. CASE c = Converging
  BY <1>2 DEF Converging, CommandOK, Kinds
<1>3. QED
  BY <1>1, <1>2

LEMMA BeginKeeps ==
  ASSUME ConvergeInv, NEW p \in Process, Begin(p)
  PROVE  ConvergeInv'
<1>1. PICK c \in Commands \cup {Converging} :
        me' = [me EXCEPT ![p] = Begins(p, c, CASE c.kind = "up" -> "load"
                                               [] c.kind = "down" -> "list"
                                               [] c.kind \in {"converge", "replace", "diff", "ps"} -> "rows")]
  BY DEF Begin
<1>2. CommandOK(c)
  BY CommandIsOK
<1>3. PICK a : a = CASE c.kind = "up" -> "load"
                     [] c.kind = "down" -> "list"
                     [] c.kind \in {"converge", "replace", "diff", "ps"} -> "rows"
  OBVIOUS
<1>4. /\ c.kind \in {"up", "down", "ps"} => c.k \in DOMAIN Stacks
      /\ c.kind \in {"diff", "converge", "replace"} => c.k = 1
      /\ c.kind \in Kinds
  BY <1>2 DEF CommandOK
<1>5. \/ c.kind = "up" /\ a = "load"
      \/ c.kind = "down" /\ a = "list"
      \/ c.kind \in {"converge", "replace", "diff", "ps"} /\ a = "rows"
  BY <1>3, <1>4 DEF Kinds
<1>6. c.k \in Nat \ {0}
  BY <1>4, StackFacts DEF Kinds
<1>7. PICK i, w, kk : i = Idle(c, "nothing") /\ w = want /\ kk = c.k
  OBVIOUS
<1>8. PICK n : n = [i EXCEPT !.at = a, !.k = kk, !.want = w]
  OBVIOUS
<1>9. i \in Mind(i) /\ i.cmd = c /\ i.pos = 1 /\ i.passed = {} /\ i.quiet = TRUE
  BY <1>7 DEF Idle, Mind, Ats
<1>10. a \in Ats /\ kk \in Nat \ {0}
  BY <1>5, <1>6, <1>7 DEF Ats, Reading, Upping, Listing
<1>11. n \in Mind(n)
  BY <1>8, <1>9, <1>10 DEF Mind
<1>12. n.cmd = c /\ n.k = c.k /\ n.at = a /\ n.want = want /\ n.pos = 1 /\ n.passed = {}
  BY <1>7, <1>8, <1>9 DEF Mind
<1>13. ProcessOK(n)
  BY <1>2, <1>4, <1>5, <1>11, <1>12 DEF ProcessOK, Located, Looping, Upping, Listing, Dropping, Reading
<1>14. Knows(n)
  <2>1. ReadsHold(n)
    BY <1>5, <1>12 DEF ReadsHold
  <2>2. DoneHolds(n)
    BY <1>4, <1>5, <1>12, StackFacts DEF DoneHolds
  <2>3. HereHolds(n)
    BY <1>5, <1>12 DEF HereHolds, Upping, Looping, Dropping
  <2>4. n.at # "idle"
    BY <1>5, <1>12
  <2>5. QED
    BY <2>1, <2>2, <2>3, <2>4 DEF Knows
<1>15. UNCHANGED <<want, box>> /\ me' = [me EXCEPT ![p] = n]
  BY <1>1, <1>3, <1>7, <1>8 DEF Begin, Begins, World
<1>16. QED
  BY <1>13, <1>14, <1>15, GoesKeeps

LEMMA RowsKeep ==
  ASSUME ConvergeInv, NEW p \in Process, Rows(p)
  PROVE  ConvergeInv'
<1>1. PICK m, r : m = me[p] /\ r = [s \in Service |-> Row(s)]
  OBVIOUS
<1>2. PICK n : n = [m EXCEPT !.rows = r, !.at = "plan"]
  OBVIOUS
<1>3. m.at = "rows" /\ Goes(p, n)
  BY <1>1, <1>2 DEF Rows, At
<1>4. /\ m \in Mind(m) /\ CommandOK(m.cmd) /\ Located(m)
      /\ m.quiet => ReadsHold(m) /\ DoneHolds(m) /\ HereHolds(m)
  BY <1>1, <1>3, Of
<1>5. "plan" \in Ats
  BY DEF Ats, Reading
<1>6. /\ n \in Mind(n) /\ n.at = "plan" /\ n.rows = r /\ n.cmd = m.cmd /\ n.k = m.k /\ n.want = m.want
      /\ n.pos = m.pos /\ n.passed = m.passed /\ n.had = m.had /\ n.quiet = m.quiet
  BY <1>2, <1>4, <1>5 DEF Mind
<1>7. ProcessOK(n)
  BY <1>3, <1>4, <1>6 DEF ProcessOK, Located, Looping, Upping, Listing, Dropping, Reading
<1>8. ASSUME n.quiet
      PROVE  ReadsHold(n) /\ DoneHolds(n) /\ HereHolds(n)
  <2>1. ReadsHold(m) /\ DoneHolds(m) /\ HereHolds(m)
    BY <1>4, <1>6, <1>8
  <2>2. \A j \in DOMAIN Stacks : \A s \in Stacks[j] : r[s] = Row(s)
    BY <1>1, StackFacts
  <2>3. ReadsHold(n)
    BY <1>6, <2>1, <2>2 DEF ReadsHold
  <2>4. DoneHolds(n)
    BY <1>6, <2>1 DEF DoneHolds
  <2>5. HereHolds(n)
    BY <1>6, <2>1 DEF HereHolds, InOrder, Upping, Looping, Dropping
  <2>6. QED
    BY <2>3, <2>4, <2>5
<1>9. QED
  BY <1>3, <1>6, <1>7, <1>8, GoingKeeps DEF Knows

\* What plan() finds of a stack is what is there.
LEMMA PlanSees ==
  ASSUME ConvergeInv, NEW p \in Process, NEW m, m = me[p], m.at = "plan", m.k \in DOMAIN Stacks, m.quiet,
         NEW s \in Stacks[m.k]
  PROVE  /\ m.cmd.kind # "replace" /\ Missing(p, m.k) \cup NotRunning(p, m.k) = {} => Drifted(s) \/ InPlace(s)
         /\ m.cmd.kind # "replace" /\ Clean(p, m.k) => InPlace(s) /\ box[s].state = "running"
         /\ Drift(p, m.k) = {} => ~Drifted(s)
<1>1. m.want[s] = want[s] /\ (m.rows[s] = Row(s) \/ (m.cmd.kind = "replace" /\ box[s] = None))
  <2>1. ReadsHold(m) /\ m.k \in Nat /\ Located(m)
    BY Of
  <2>2. QED
    BY <2>1 DEF ReadsHold, Located, Reading
<1>2. BoxTyped(box[s])
  BY StackFacts DEF ConvergeInv, Shape
<1>3. box[s] # None => /\ m.rows[s] = [hash |-> box[s].hash, state |-> box[s].state]
                       /\ m.rows[s].hash = box[s].hash /\ m.rows[s].state = box[s].state
  BY <1>1 DEF Row
<1>4. box[s] # None => m.rows[s] # None
  <2>1. PICK a, b : a = box[s].hash /\ b = box[s].state
    OBVIOUS
  <2>2. [hash |-> a, state |-> b] # None
    <3>1. DOMAIN [hash |-> a, state |-> b] = {"hash", "state"} /\ DOMAIN None = {"id"}
      BY DEF None
    <3>2. QED
      BY <3>1
  <2>3. QED
    BY <1>3, <2>1, <2>2
<1>5. m.cmd.kind # "replace" /\ box[s] = None => m.rows[s] = None
  BY <1>1 DEF Row
<1>6. s \in Stacks[m.k] /\ me[p] = m
  OBVIOUS
<1>7. ASSUME m.cmd.kind # "replace", Missing(p, m.k) \cup NotRunning(p, m.k) = {}
      PROVE  Drifted(s) \/ InPlace(s)
  <2>1. box[s] # None
    BY <1>5, <1>6, <1>7 DEF Missing
  <2>2. m.rows[s].hash # m.want[s] \/ m.rows[s].state = "running"
    BY <1>6, <1>7 DEF Missing, NotRunning, Drift
  <2>3. QED
    BY <1>1, <1>3, <2>1, <2>2 DEF Drifted, InPlace, Up
<1>8. ASSUME m.cmd.kind # "replace", Clean(p, m.k)
      PROVE  InPlace(s) /\ box[s].state = "running"
  <2>1. box[s] # None
    BY <1>5, <1>6, <1>8 DEF Missing, Clean
  <2>2. m.rows[s].hash = m.want[s] /\ m.rows[s].state = "running"
    BY <1>4, <1>6, <1>8, <2>1 DEF Missing, NotRunning, Drift, Clean
  <2>3. QED
    BY <1>1, <1>3, <2>1, <2>2 DEF InPlace, Up
<1>9. ASSUME Drift(p, m.k) = {}, Drifted(s)
      PROVE  FALSE
  <2>1. m.rows[s] # None /\ m.rows[s].hash = box[s].hash
    BY <1>3, <1>4, <1>9 DEF Drifted
  <2>2. m.rows[s].hash = m.want[s]
    BY <1>6, <1>9, <2>1 DEF Missing, Drift
  <2>3. QED
    BY <1>1, <1>9, <2>1, <2>2 DEF Drifted
<1>10. QED
  BY <1>7, <1>8, <1>9

LEMMA PlanKeeps ==
  ASSUME ConvergeInv, NEW p \in Process, Plan(p)
  PROVE  ConvergeInv'
<1>1. PICK m : m = me[p]
  OBVIOUS
<1>2. m.at = "plan"
  BY <1>1 DEF Plan, At
<1>3. /\ m \in Mind(m) /\ CommandOK(m.cmd) /\ Located(m) /\ ProcessOK(m) /\ m.k \in Nat \ {0}
      /\ m.quiet => ReadsHold(m) /\ DoneHolds(m) /\ HereHolds(m)
  BY <1>1, <1>2, Of
<1>4. m.cmd.kind \in {"ps", "diff", "converge", "replace"} /\ m.pos = 1 /\ m.passed = {}
  BY <1>2, <1>3 DEF Located, Reading, Looping
<1>5. CASE m.k \notin DOMAIN Stacks
  <2>1. m.cmd.kind # "ps" /\ \A j \in DOMAIN Stacks : j < m.k
    BY <1>2, <1>3, <1>5, StackFacts DEF Located, CommandOK
  <2>2. m.quiet /\ m.had => Achieved(m.cmd)
    <3>1. ASSUME m.quiet, m.had, NEW s \in Service
          PROVE  /\ m.cmd.kind = "converge" => Drifted(s) \/ InPlace(s)
                 /\ m.cmd.kind = "replace" => ~Drifted(s)
                 /\ m.cmd.kind = "diff" => InPlace(s) /\ box[s].state = "running"
      BY <1>3, <2>1, <3>1, StackFacts DEF DoneHolds
    <3>2. QED
      BY <1>4, <2>1, <3>1 DEF Achieved
  <2>3. PICK said : said = IF m.had THEN "ok" ELSE "not ok"
    OBVIOUS
  <2>4. ProcessOK(Ended(p, said)) /\ Knows(Ended(p, said))
    BY <1>1, <2>2, <2>3, EndedOK
  <2>5. Goes(p, Ended(p, said))
    BY <1>1, <1>5, <2>3 DEF Plan
  <2>6. QED
    BY <2>4, <2>5, GoingKeeps
<1>6. CASE m.k \in DOMAIN Stacks /\ m.cmd.kind = "diff"
  <2>1. PICK n : n = [m EXCEPT !.had = @ /\ Clean(p, m.k)]
    OBVIOUS
  <2>2. (m.had /\ Clean(p, m.k)) \in BOOLEAN
    OBVIOUS
  <2>3. /\ n \in Mind(n) /\ n.at = "plan" /\ n.rows = m.rows /\ n.cmd = m.cmd /\ n.k = m.k /\ n.want = m.want
        /\ n.pos = m.pos /\ n.passed = m.passed /\ n.quiet = m.quiet
        /\ n.had = (m.had /\ Clean(p, m.k))
    BY <1>2, <1>3, <2>1, <2>2 DEF Mind
  <2>4. ProcessOK(n)
    BY <1>2, <1>3, <2>3 DEF ProcessOK, Located, Looping, Upping, Listing, Dropping, Reading
  <2>5. ASSUME n.quiet
        PROVE  /\ ReadsHold(n) /\ DoneHolds(n)
               /\ \A s \in Stacks[n.k] : n.had => InPlace(s) /\ box[s].state = "running"
    <3>1. ReadsHold(n)
      BY <1>2, <1>3, <2>3, <2>5 DEF ReadsHold
    <3>2. DoneHolds(n)
      BY <1>3, <2>3, <2>5 DEF DoneHolds
    <3>3. QED
      BY <1>1, <1>2, <1>6, <2>3, <2>5, <3>1, <3>2, PlanSees
  <2>6. ProcessOK(OnTo(n)) /\ Knows(OnTo(n))
    BY <1>6, <2>3, <2>4, <2>5, OnToOK
  <2>7. Goes(p, OnTo(n))
    BY <1>1, <1>6, <2>1 DEF Plan
  <2>8. QED
    BY <2>6, <2>7, GoingKeeps
<1>7. CASE m.k \in DOMAIN Stacks /\ m.cmd.kind = "ps"
  <2>1. m.cmd.k = m.k
    BY <1>2, <1>3, <1>7 DEF Located
  <2>2. m.quiet /\ Clean(p, m.k) => Achieved(m.cmd)
    BY <1>1, <1>2, <1>7, <2>1, PlanSees DEF Achieved
  <2>3. PICK said : said = IF Clean(p, m.k) THEN "ok" ELSE "not ok"
    OBVIOUS
  <2>4. ProcessOK(Ended(p, said)) /\ Knows(Ended(p, said))
    BY <1>1, <2>2, <2>3, EndedOK
  <2>5. Goes(p, Ended(p, said))
    BY <1>1, <1>7, <2>3 DEF Plan
  <2>6. QED
    BY <2>4, <2>5, GoingKeeps
<1>8. CASE m.k \in DOMAIN Stacks /\ m.cmd.kind = "converge" /\ Missing(p, m.k) \cup NotRunning(p, m.k) = {}
  <2>1. m.quiet => \A s \in Stacks[m.k] : Drifted(s) \/ InPlace(s)
    BY <1>1, <1>2, <1>8, PlanSees
  <2>2. ProcessOK(OnTo(m)) /\ Knows(OnTo(m))
    BY <1>2, <1>3, <1>8, <2>1, OnToOK
  <2>3. Goes(p, OnTo(m))
    BY <1>1, <1>8 DEF Plan
  <2>4. QED
    BY <2>2, <2>3, GoingKeeps
<1>9. CASE m.k \in DOMAIN Stacks /\ m.cmd.kind = "replace" /\ Drift(p, m.k) = {}
  <2>1. m.quiet => \A s \in Stacks[m.k] : ~Drifted(s)
    BY <1>1, <1>2, <1>9, PlanSees
  <2>2. ProcessOK(OnTo(m)) /\ Knows(OnTo(m))
    BY <1>2, <1>3, <1>9, <2>1, OnToOK
  <2>3. Goes(p, OnTo(m))
    BY <1>1, <1>9 DEF Plan
  <2>4. QED
    BY <2>2, <2>3, GoingKeeps
<1>10. ASSUME m.k \in DOMAIN Stacks, NEW a \in {"load", "list"}, Goes(p, [m EXCEPT !.at = a]),
              \/ a = "load" /\ m.cmd.kind = "converge"
              \/ a = "list" /\ m.cmd.kind = "replace"
       PROVE  ConvergeInv'
  <2>1. PICK n : n = [m EXCEPT !.at = a]
    OBVIOUS
  <2>2. a \in Ats
    BY DEF Ats, Upping, Listing
  <2>3. /\ n \in Mind(n) /\ n.at = a /\ n.cmd = m.cmd /\ n.k = m.k /\ n.want = m.want /\ n.rows = m.rows
        /\ n.order = m.order /\ n.pos = m.pos /\ n.passed = m.passed /\ n.todo = m.todo /\ n.had = m.had
        /\ n.quiet = m.quiet
    BY <1>3, <2>1, <2>2, ComesTo
  <2>4. ProcessOK(n)
    BY <1>3, <1>4, <1>10, <2>3 DEF ProcessOK, Located, Looping, Upping, Listing, Dropping, Reading
  <2>5. ASSUME n.quiet
        PROVE  ReadsHold(n) /\ DoneHolds(n) /\ HereHolds(n)
    <3>1. ReadsHold(m) /\ DoneHolds(m) /\ HereHolds(m)
      BY <1>3, <2>3, <2>5
    <3>2. ReadsHold(n)
      BY <1>2, <2>3, <3>1 DEF ReadsHold
    <3>3. DoneHolds(n)
      BY <2>3, <3>1 DEF DoneHolds
    <3>4. HereHolds(n)
      BY <1>4, <1>10, <2>3 DEF HereHolds, Upping, Looping, Dropping
    <3>5. QED
      BY <3>2, <3>3, <3>4
  <2>6. QED
    BY <1>10, <2>1, <2>3, <2>4, <2>5, GoingKeeps DEF Knows
<1>11. CASE m.k \in DOMAIN Stacks /\ m.cmd.kind = "converge" /\ Missing(p, m.k) \cup NotRunning(p, m.k) # {}
  <2>1. Goes(p, [m EXCEPT !.at = "load"])
    BY <1>1, <1>11 DEF Plan
  <2>2. QED
    BY <1>10, <1>11, <2>1
<1>12. CASE m.k \in DOMAIN Stacks /\ m.cmd.kind = "replace" /\ Drift(p, m.k) # {}
  <2>1. Goes(p, [m EXCEPT !.at = "list"])
    BY <1>1, <1>12 DEF Plan
  <2>2. QED
    BY <1>10, <1>12, <2>1
<1>13. QED
  BY <1>4, <1>5, <1>6, <1>7, <1>8, <1>9, <1>11, <1>12

LEMMA LoadKeeps ==
  ASSUME ConvergeInv, NEW p \in Process, Load(p)
  PROVE  ConvergeInv'
<1>1. PICK m : m = me[p]
  OBVIOUS
<1>2. m.at = "load"
  BY <1>1 DEF Load, At
<1>3. /\ m \in Mind(m) /\ CommandOK(m.cmd) /\ Located(m) /\ m.k \in Nat \ {0}
      /\ m.quiet => ReadsHold(m) /\ DoneHolds(m) /\ HereHolds(m)
  BY <1>1, <1>2, Of
<1>4. m.cmd.kind \in {"up", "converge", "replace"} /\ m.pos = 1 /\ m.passed = {} /\ m.k \in DOMAIN Stacks
  BY <1>2, <1>3 DEF Located, Upping, Looping
<1>5. PICK o \in Orders(m.k) :
        Goes(p, [m EXCEPT !.at = "net", !.order = o, !.rows = IF @ = << >> THEN @ ELSE Forget(@, m.k, None),
                          !.want = [s \in Service |-> IF s \in Stacks[m.k] THEN want[s] ELSE @[s]]])
  BY <1>1 DEF Load
<1>6. PICK r, w : /\ r = IF m.rows = << >> THEN m.rows ELSE Forget(m.rows, m.k, None)
                  /\ w = [s \in Service |-> IF s \in Stacks[m.k] THEN want[s] ELSE m.want[s]]
  OBVIOUS
<1>7. PICK n : n = [m EXCEPT !.at = "net", !.order = o, !.rows = r, !.want = w]
  OBVIOUS
<1>8. Goes(p, n)
  BY <1>3, <1>5, <1>6, <1>7 DEF Mind
<1>9. "net" \in Ats
  BY DEF Ats, Upping, Looping
<1>10. /\ n \in Mind(n) /\ n.at = "net" /\ n.cmd = m.cmd /\ n.k = m.k /\ n.want = w /\ n.rows = r
       /\ n.order = o /\ n.pos = m.pos /\ n.passed = m.passed /\ n.quiet = m.quiet /\ n.had = m.had
  BY <1>3, <1>7, <1>9 DEF Mind
<1>11. Len(o) \in Nat \ {0}
  BY <1>4, OrderFacts
<1>12. Located(n)
  <2>1. n.pos <= Len(n.order)
    BY <1>4, <1>10, <1>11
  <2>2. n.passed = {n.order[i] : i \in 1..(n.pos - 1)}
    BY <1>4, <1>10
  <2>3. /\ n.at \in Looping /\ n.at \in Upping /\ n.at \notin Listing /\ n.at \notin Dropping
        /\ n.at \notin Reading /\ n.at # "rows"
    BY <1>10 DEF Looping, Upping, Listing, Dropping, Reading
  <2>4. n.cmd.kind \in {"up", "down", "ps"} => n.k = n.cmd.k
    BY <1>2, <1>3, <1>10 DEF Located
  <2>5. n.k \in DOMAIN Stacks /\ n.order \in Orders(n.k) /\ n.cmd.kind \in {"up", "converge", "replace"}
    BY <1>4, <1>10
  <2>6. QED
    BY <2>1, <2>2, <2>3, <2>4, <2>5 DEF Located
<1>13. ProcessOK(n)
  BY <1>3, <1>10, <1>12 DEF ProcessOK
<1>14. ASSUME n.quiet
       PROVE  ReadsHold(n) /\ DoneHolds(n) /\ HereHolds(n)
  <2>1. ReadsHold(m) /\ DoneHolds(m) /\ HereHolds(m)
    BY <1>3, <1>10, <1>14
  <2>2. \A j \in DOMAIN Stacks : j \in Nat /\ Stacks[j] \subseteq Service
    BY StackFacts
  <2>3. ASSUME NEW j \in DOMAIN Stacks, j > m.k, NEW s \in Stacks[j]
        PROVE  r[s] = m.rows[s]
    <3>1. s \in Service /\ s \notin Stacks[m.k]
      BY <1>3, <1>4, <2>2, <2>3, StackFacts
    <3>2. QED
      BY <1>6, <3>1 DEF Forget
  <2>4. \A j \in DOMAIN Stacks : j >= m.k => \A s \in Stacks[j] : w[s] = want[s]
    BY <1>6, <2>1, <2>2 DEF ReadsHold
  <2>5. ReadsHold(n)
    BY <1>2, <1>4, <1>10, <2>1, <2>3, <2>4 DEF ReadsHold
  <2>6. DoneHolds(n)
    BY <1>10, <2>1 DEF DoneHolds
  <2>7. HereHolds(n)
    BY <1>2, <1>4, <1>10, <2>1 DEF HereHolds, Upping, Looping, Dropping
  <2>8. QED
    BY <2>5, <2>6, <2>7
<1>15. QED
  BY <1>8, <1>10, <1>13, <1>14, GoingKeeps DEF Knows

\* What an `up` has at hand.
LEMMA LoopOf ==
  ASSUME ConvergeInv, NEW p \in Process, NEW m, m = me[p], m.at \in Looping
  PROVE  /\ m \in Mind(m) /\ CommandOK(m.cmd) /\ Located(m) /\ ProcessOK(m) /\ Knows(m) /\ m.at # "idle"
         /\ m.quiet => /\ ReadsHold(m) /\ DoneHolds(m) /\ HereHolds(m)
                       /\ m.want[m.order[m.pos]] = want[m.order[m.pos]]
         /\ m.k \in DOMAIN Stacks /\ m.k \in Nat /\ m.order \in Orders(m.k)
         /\ m.order[m.pos] \in Stacks[m.k] /\ m.order[m.pos] \in Service
         /\ m.order[m.pos] = Here(p) /\ BoxTyped(box[m.order[m.pos]])
         /\ \A s \in m.passed : s \in Service
<1>1. m.at # "idle" /\ m.at \in Upping
  BY DEF Looping, Upping
<1>2. /\ m \in Mind(m) /\ CommandOK(m.cmd) /\ Located(m) /\ ProcessOK(m) /\ Knows(m)
      /\ m.quiet => ReadsHold(m) /\ DoneHolds(m) /\ HereHolds(m)
      /\ m.k \in Nat \ {0} /\ m.pos \in Nat \ {0}
  BY <1>1, Of
<1>3. m.k \in DOMAIN Stacks /\ m.order \in Orders(m.k) /\ m.pos <= Len(m.order)
  BY <1>1, <1>2 DEF Located
<1>4. m.order[m.pos] \in Stacks[m.k]
  BY <1>2, <1>3, OrderFacts
<1>5. m.order[m.pos] \in Service
  BY <1>3, <1>4, StackFacts
<1>6. BoxTyped(box[m.order[m.pos]])
  BY <1>5 DEF ConvergeInv, Shape
<1>7. m.quiet => m.want[m.order[m.pos]] = want[m.order[m.pos]]
  BY <1>2, <1>3, <1>4 DEF ReadsHold
<1>8. m.order[m.pos] = Here(p)
  BY DEF Here
<1>9. ASSUME NEW s \in m.passed
      PROVE  s \in Service
  <2>1. m.passed = {m.order[i] : i \in 1..(m.pos - 1)}
    BY <1>2 DEF Located
  <2>2. PICK i \in 1..(m.pos - 1) : s = m.order[i]
    BY <2>1
  <2>3. Len(m.order) \in Nat
    BY <1>3, OrderFacts
  <2>4. i \in 1..Len(m.order)
    BY <1>2, <1>3, <2>3
  <2>5. s \in Stacks[m.k]
    BY <1>3, <2>2, <2>4, OrderFacts
  <2>6. QED
    BY <1>3, <2>5, StackFacts
<1>10. QED
  BY <1>1, <1>2, <1>3, <1>4, <1>5, <1>6, <1>7, <1>8, <1>9

\* A step within `up` that leaves the containers alone.
LEMMA InLoop ==
  ASSUME ConvergeInv, NEW p \in Process, NEW m, m = me[p], m.at \in Looping, NEW a \in Looping,
         \/ Goes(p, [m EXCEPT !.at = a])
         \/ Acts(p, [m EXCEPT !.at = a]) /\ UNCHANGED box,
         a = "start" /\ m.quiet => /\ box[m.order[m.pos]] # None
                                   /\ box[m.order[m.pos]].hash = want[m.order[m.pos]],
         a = "gate" /\ m.quiet => InPlace(m.order[m.pos])
  PROVE  ConvergeInv'
<1>1. PICK n : n = [m EXCEPT !.at = a]
  OBVIOUS
<1>2. ProcessOK(m) /\ Knows(m)
  BY LoopOf
<1>3. ProcessOK(n) /\ Knows(n)
  BY <1>1, <1>2, LoopMoves
<1>4. CASE Goes(p, n)
  BY <1>3, <1>4, GoingKeeps
<1>5. CASE Acts(p, n) /\ UNCHANGED box
  BY <1>3, <1>5, ActingKeeps
<1>6. QED
  BY <1>1, <1>4, <1>5

LEMMA NetKeeps ==
  ASSUME ConvergeInv, NEW p \in Process, FindNet(p) \/ MakeNet(p) \/ MakeVols(p)
  PROVE  ConvergeInv'
<1>1. PICK m : m = me[p]
  OBVIOUS
<1>2. m.at \in Looping /\ "vols" \in Looping /\ "mknet" \in Looping /\ "look" \in Looping
  BY <1>1 DEF FindNet, MakeNet, MakeVols, At, Looping
<1>3. CASE FindNet(p)
  <2>1. Goes(p, [m EXCEPT !.at = "vols"]) \/ Goes(p, [m EXCEPT !.at = "mknet"])
    BY <1>1, <1>3 DEF FindNet
  <2>2. QED
    BY <1>1, <1>2, <2>1, InLoop
<1>4. CASE MakeNet(p)
  <2>1. Raise(p) \/ (Acts(p, [m EXCEPT !.at = "vols"]) /\ UNCHANGED box)
    BY <1>1, <1>4 DEF MakeNet
  <2>2. QED
    BY <1>1, <1>2, <2>1, InLoop, RaiseKeeps
<1>5. CASE MakeVols(p)
  <2>1. Goes(p, [m EXCEPT !.at = "look"]) \/ (Acts(p, [m EXCEPT !.at = "look"]) /\ UNCHANGED box)
    BY <1>1, <1>5 DEF MakeVols
  <2>2. QED
    BY <1>1, <1>2, <2>1, InLoop
<1>6. QED
  BY <1>3, <1>4, <1>5

LEMMA LookKeeps ==
  ASSUME ConvergeInv, NEW p \in Process, Look(p)
  PROVE  ConvergeInv'
<1>1. PICK m, h : m = me[p] /\ h = m.order[m.pos]
  OBVIOUS
<1>2. m.at = "look" /\ m.at \in Looping
  BY <1>1 DEF Look, At, Looping
<1>3. h = Here(p) /\ (m.quiet => m.want[h] = want[h])
  BY <1>1, <1>2, LoopOf
<1>4. CASE Found(p) = "drift"
  <2>1. box[h] # None /\ box[h].hash # m.want[h]
    BY <1>1, <1>3, <1>4 DEF Found
  <2>2. m.quiet => InOrder(m, h)
    BY <1>3, <2>1 DEF InOrder, Drifted
  <2>3. ProcessOK(Pass(p)) /\ Knows(Pass(p))
    BY <1>1, <1>2, <1>3, <2>2, PassOK
  <2>4. Goes(p, Pass(p))
    BY <1>4 DEF Look
  <2>5. QED
    BY <2>3, <2>4, GoingKeeps
<1>5. CASE Found(p) # "drift"
  <2>1. PICK a : a = Found(p)
    OBVIOUS
  <2>2. a \in {"create", "gate", "start"}
    BY <1>5, <2>1 DEF Found
  <2>3. a # "create" => box[h] # None /\ box[h].hash = m.want[h]
    BY <1>1, <1>3, <1>5, <2>1 DEF Found
  <2>4. a = "gate" => Up(h)
    BY <1>1, <1>3, <1>5, <2>1 DEF Found
  <2>5. m.quiet /\ a # "create" => box[h].hash = want[h]
    BY <1>3, <2>3
  <2>6. m.quiet /\ a = "gate" => InPlace(h)
    BY <2>4, <2>5 DEF InPlace
  <2>7. a \in Looping
    BY <2>2 DEF Looping
  <2>8. Goes(p, [m EXCEPT !.at = a])
    BY <1>1, <1>5, <2>1 DEF Look
  <2>9. QED
    BY <1>1, <1>2, <2>3, <2>5, <2>6, <2>7, <2>8, InLoop
<1>6. QED
  BY <1>4, <1>5

LEMMA GateKeeps ==
  ASSUME ConvergeInv, NEW p \in Process, Gate(p)
  PROVE  ConvergeInv'
<1>1. PICK m, h : m = me[p] /\ h = m.order[m.pos]
  OBVIOUS
<1>2. m.at = "gate" /\ m.at \in Looping
  BY <1>1 DEF Gate, At, Looping
<1>3. h = Here(p) /\ (m.quiet => InPlace(h))
  BY <1>1, <1>2, LoopOf DEF HereHolds
<1>4. CASE Goes(p, Pass(p)) /\ (m.cmd.wait => box[h].ready)
  <2>1. m.quiet => InOrder(m, h)
    BY <1>3, <1>4 DEF InOrder
  <2>2. ProcessOK(Pass(p)) /\ Knows(Pass(p))
    BY <1>1, <1>2, <1>3, <2>1, PassOK
  <2>3. QED
    BY <1>4, <2>2, GoingKeeps
<1>5. CASE Goes(p, Late(p))
  <2>1. Late(p) = Ended(p, "not ok")
    BY DEF Late, Back
  <2>2. ProcessOK(Ended(p, "not ok")) /\ Knows(Ended(p, "not ok"))
    BY EndedOK
  <2>3. QED
    BY <1>5, <2>1, <2>2, GoingKeeps
<1>6. QED
  BY <1>1, <1>3, <1>4, <1>5, RaiseKeeps DEF Gate

----------------------------------------------------------------------------
(* The steps that change containers.                                       *)

LEMMA CreatedIsOne ==
  ASSUME NEW i, NEW d
  PROVE  LET b == [id |-> i, hash |-> d, state |-> "created", ready |-> FALSE]
         IN b # None /\ BoxTyped(b) /\ b.hash = d
<1>1. PICK b : b = [id |-> i, hash |-> d, state |-> "created", ready |-> FALSE]
  OBVIOUS
<1>2. DOMAIN b = {"id", "hash", "state", "ready"} /\ DOMAIN None = {"id"}
  BY <1>1 DEF None
<1>3. b # None
  BY <1>2
<1>4. b \in [id : {b.id}, hash : {b.hash}, state : {"created", "running", "paused", "exited"}, ready : BOOLEAN]
  BY <1>1
<1>5. QED
  BY <1>1, <1>3, <1>4 DEF BoxTyped

\* Only the service that an `up` is at has changed.
LEMMA OnlyHere ==
  ASSUME NEW m, m.k \in DOMAIN Stacks, m.k \in Nat, NEW h \in Stacks[m.k], m.at \in Looping, UNCHANGED want,
         \A s \in Service : s # h => box'[s] = box[s]
  PROVE  /\ ReadsHold(m) => ReadsHold(m)'
         /\ DoneHolds(m) => DoneHolds(m)'
<1>1. \A j \in DOMAIN Stacks : \A s \in Stacks[j] : j \in Nat /\ (j # m.k => box'[s] = box[s])
  BY StackFacts
<1>2. m.at \notin {"plan", "list"}
  BY DEF Looping
<1>3. ReadsHold(m) => ReadsHold(m)'
  BY <1>1, <1>2 DEF ReadsHold, Row
<1>4. DoneHolds(m) => DoneHolds(m)'
  BY <1>1 DEF DoneHolds, Drifted, InPlace, Up
<1>5. QED
  BY <1>3, <1>4

LEMMA CreateKeeps ==
  ASSUME ConvergeInv, NEW p \in Process, Create(p)
  PROVE  ConvergeInv'
<1>1. PICK m, h : m = me[p] /\ h = m.order[m.pos]
  OBVIOUS
<1>2. m.at = "create" /\ m.at \in Looping /\ "start" \in Looping
  BY <1>1 DEF Create, At, Looping
<1>3. /\ h = Here(p) /\ (m.quiet => m.want[h] = want[h]) /\ ProcessOK(m) /\ Knows(m) /\ m \in Mind(m)
      /\ m.k \in DOMAIN Stacks /\ m.k \in Nat /\ h \in Stacks[m.k] /\ h \in Service
      /\ m.quiet => ReadsHold(m) /\ DoneHolds(m) /\ HereHolds(m)
  BY <1>1, <1>2, LoopOf
<1>4. CASE Raise(p)
  BY <1>4, RaiseKeeps
<1>5. CASE box[h] = None /\ ~Raise(p)
  <2>1. PICK i, d : i = FreshId /\ d = m.want[h]
    OBVIOUS
  <2>2. PICK b : b = [id |-> i, hash |-> d, state |-> "created", ready |-> FALSE]
    OBVIOUS
  <2>3. b # None /\ BoxTyped(b) /\ b.hash = d
    BY <2>2, CreatedIsOne
  <2>4. PICK n : n = [m EXCEPT !.at = "start"]
    OBVIOUS
  <2>5. Acts(p, n) /\ box' = [box EXCEPT ![h] = b]
    BY <1>1, <1>3, <1>5, <2>1, <2>2, <2>4 DEF Create
  <2>6. want' = want
    BY <2>5 DEF Acts
  <2>7. /\ box' = [s \in Service |-> box'[s]] /\ box'[h] = b
        /\ \A s \in Service : BoxTyped(box'[s])
        /\ \A s \in Service : s # h => box'[s] = box[s]
    BY <1>3, <2>3, <2>5 DEF ConvergeInv, Shape
  <2>8. /\ n.at = "start" /\ n.cmd = m.cmd /\ n.k = m.k /\ n.want = m.want /\ n.rows = m.rows
        /\ n.order = m.order /\ n.pos = m.pos /\ n.passed = m.passed /\ n.todo = m.todo /\ n.had = m.had
        /\ n.quiet = m.quiet /\ n \in Mind(n)
    <3>1. "start" \in Ats
      BY DEF Ats, Upping, Looping
    <3>2. QED
      BY <1>3, <2>4, <3>1, ComesTo
  <2>9. Located(n)
    BY <1>2, <1>3, <2>8 DEF ProcessOK, Located, Looping, Upping, Listing, Dropping, Reading
  <2>10. ProcessOK(n)
    BY <1>3, <2>8, <2>9 DEF ProcessOK
  <2>11. ASSUME n.quiet
         PROVE  ReadsHold(n)' /\ DoneHolds(n)' /\ HereHolds(n)'
    <3>1. ReadsHold(m) /\ DoneHolds(m) /\ HereHolds(m) /\ d = want[h]
      BY <1>3, <2>1, <2>8, <2>11
    <3>2. ReadsHold(n) /\ DoneHolds(n)
      BY <1>2, <2>8, <3>1 DEF ReadsHold, DoneHolds
    <3>3. n.at \in Looping /\ n.k \in DOMAIN Stacks /\ n.k \in Nat /\ h \in Stacks[n.k]
      BY <1>2, <1>3, <2>8
    <3>4. ReadsHold(n)' /\ DoneHolds(n)'
      BY <2>6, <2>7, <3>2, <3>3, OnlyHere
    <3>5. ASSUME NEW s \in m.passed
          PROVE  InOrder(n, s)'
      <4>1. InOrder(m, s) /\ box[s] # None
        BY <3>1, <1>5 DEF HereHolds, InOrder, Drifted, InPlace, Up
      <4>2. s \in Service
        BY <1>1, <1>2, <3>5, LoopOf
      <4>3. box'[s] = box[s]
        BY <1>5, <2>7, <4>1, <4>2
      <4>4. QED
        BY <2>6, <2>8, <4>1, <4>3 DEF InOrder, Drifted, InPlace, Up
    <3>6. box'[h] # None /\ box'[h].hash = want'[h]
      BY <2>3, <2>6, <2>7, <3>1
    <3>7. ASSUME n.cmd.kind = "replace", NEW s \in Stacks[n.k]
          PROVE  ~Drifted(s)'
      <4>1. ~Drifted(s) /\ s \in Service
        BY <1>2, <1>3, <2>8, <3>1, <3>7, StackFacts DEF HereHolds, Upping
      <4>2. CASE s = h
        BY <3>6, <4>2 DEF Drifted
      <4>3. CASE s # h
        BY <2>6, <2>7, <4>1, <4>3 DEF Drifted
      <4>4. QED
        BY <4>2, <4>3
    <3>8. HereHolds(n)'
      BY <1>1, <2>8, <3>5, <3>6, <3>7 DEF HereHolds, Dropping
    <3>9. QED
      BY <3>4, <3>8
  <2>12. Knows(n)'
    BY <2>8, <2>11 DEF Knows
  <2>13. QED
    BY <2>5, <2>7, <2>10, <2>12, ActsKeep
<1>6. QED
  BY <1>1, <1>3, <1>4, <1>5 DEF Create

LEMMA StartKeeps ==
  ASSUME ConvergeInv, NEW p \in Process, StartService(p)
  PROVE  ConvergeInv'
<1>1. PICK m, h : m = me[p] /\ h = m.order[m.pos]
  OBVIOUS
<1>2. m.at = "start" /\ m.at \in Looping /\ "gate" \in Looping
  BY <1>1 DEF StartService, At, Looping
<1>3. /\ h = Here(p) /\ ProcessOK(m) /\ Knows(m) /\ m \in Mind(m) /\ BoxTyped(box[h])
      /\ m.k \in DOMAIN Stacks /\ m.k \in Nat /\ h \in Stacks[m.k] /\ h \in Service
      /\ m.quiet => ReadsHold(m) /\ DoneHolds(m) /\ HereHolds(m)
  BY <1>1, <1>2, LoopOf
<1>4. m.quiet => box[h] # None /\ box[h].hash = want[h]
  BY <1>1, <1>2, <1>3 DEF HereHolds
<1>5. CASE Raise(p)
  BY <1>5, RaiseKeeps
<1>6. CASE Up(h) /\ Goes(p, [m EXCEPT !.at = "gate"])
  <2>1. m.quiet => InPlace(h)
    BY <1>4, <1>6 DEF InPlace
  <2>2. QED
    BY <1>1, <1>2, <1>6, <2>1, InLoop
<1>7. CASE box[h] # None /\ ~Up(h) /\ ~Raise(p)
  <2>1. PICK n : n = [m EXCEPT !.at = "gate"]
    OBVIOUS
  <2>2. Acts(p, n) /\ box' = [box EXCEPT ![h].state = "running"]
    BY <1>1, <1>3, <1>7, <2>1 DEF StartService
  <2>3. want' = want
    BY <2>2 DEF Acts
  <2>4. PICK b : b = box[h]
    OBVIOUS
  <2>5. b \in [id : {b.id}, hash : {b.hash}, state : {"created", "running", "paused", "exited"}, ready : BOOLEAN]
    BY <1>3, <1>7, <2>4 DEF BoxTyped
  <2>6. PICK c : c = [b EXCEPT !.state = "running"]
    OBVIOUS
  <2>7. /\ c \in [id : {c.id}, hash : {c.hash}, state : {"created", "running", "paused", "exited"}, ready : BOOLEAN]
        /\ c.hash = b.hash /\ c.state = "running" /\ DOMAIN c = {"id", "hash", "state", "ready"}
    BY <2>5, <2>6
  <2>8. c # None /\ BoxTyped(c)
    <3>1. DOMAIN None = {"id"}
      BY DEF None
    <3>2. QED
      BY <2>7, <3>1 DEF BoxTyped
  <2>9. /\ box' = [s \in Service |-> box'[s]] /\ box'[h] = c
        /\ \A s \in Service : BoxTyped(box'[s])
        /\ \A s \in Service : s # h => box'[s] = box[s]
    BY <1>3, <2>2, <2>4, <2>6, <2>8 DEF ConvergeInv, Shape
  <2>10. /\ n.at = "gate" /\ n.cmd = m.cmd /\ n.k = m.k /\ n.want = m.want /\ n.rows = m.rows
         /\ n.order = m.order /\ n.pos = m.pos /\ n.passed = m.passed /\ n.todo = m.todo /\ n.had = m.had
         /\ n.quiet = m.quiet /\ n \in Mind(n)
    <3>1. "gate" \in Ats
      BY DEF Ats, Upping, Looping
    <3>2. QED
      BY <1>3, <2>1, <3>1, ComesTo
  <2>11. Located(n)
    BY <1>2, <1>3, <2>10 DEF ProcessOK, Located, Looping, Upping, Listing, Dropping, Reading
  <2>12. ProcessOK(n)
    BY <1>3, <2>10, <2>11 DEF ProcessOK
  <2>13. ASSUME n.quiet
         PROVE  ReadsHold(n)' /\ DoneHolds(n)' /\ HereHolds(n)'
    <3>1. ReadsHold(m) /\ DoneHolds(m) /\ HereHolds(m) /\ b.hash = want[h]
      BY <1>3, <1>4, <2>4, <2>10, <2>13
    <3>2. ReadsHold(n) /\ DoneHolds(n)
      BY <1>2, <2>10, <3>1 DEF ReadsHold, DoneHolds
    <3>3. n.at \in Looping /\ n.k \in DOMAIN Stacks /\ n.k \in Nat /\ h \in Stacks[n.k]
      BY <1>2, <1>3, <2>10
    <3>4. ReadsHold(n)' /\ DoneHolds(n)'
      BY <2>3, <2>9, <3>2, <3>3, OnlyHere
    <3>5. ASSUME NEW s \in m.passed
          PROVE  InOrder(n, s)'
      <4>1. InOrder(m, s) /\ s # h
        BY <1>4, <1>7, <2>4, <3>1 DEF HereHolds, InOrder, Drifted, InPlace
      <4>2. s \in Service
        BY <1>1, <1>2, <3>5, LoopOf
      <4>3. box'[s] = box[s]
        BY <2>9, <4>1, <4>2
      <4>4. QED
        BY <2>3, <2>10, <4>1, <4>3 DEF InOrder, Drifted, InPlace, Up
    <3>6. box'[h] # None /\ box'[h].hash = want'[h] /\ box'[h].state = "running"
      BY <2>3, <2>7, <2>8, <2>9, <3>1
    <3>7. InPlace(h)'
      BY <3>6 DEF InPlace, Up
    <3>8. ASSUME n.cmd.kind = "replace", NEW s \in Stacks[n.k]
          PROVE  ~Drifted(s)'
      <4>1. ~Drifted(s) /\ s \in Service
        BY <1>2, <1>3, <2>10, <3>1, <3>8, StackFacts DEF HereHolds, Upping
      <4>2. CASE s = h
        BY <3>6, <4>2 DEF Drifted
      <4>3. CASE s # h
        BY <2>3, <2>9, <4>1, <4>3 DEF Drifted
      <4>4. QED
        BY <4>2, <4>3
    <3>9. HereHolds(n)'
      BY <1>1, <2>10, <3>5, <3>7, <3>8 DEF HereHolds, Dropping
    <3>10. QED
      BY <3>4, <3>9
  <2>14. Knows(n)'
    BY <2>10, <2>13 DEF Knows
  <2>15. QED
    BY <2>2, <2>9, <2>12, <2>14, ActsKeep
<1>8. QED
  BY <1>1, <1>3, <1>5, <1>6, <1>7 DEF StartService

LEMMA ListKeeps ==
  ASSUME ConvergeInv, NEW p \in Process, List(p)
  PROVE  ConvergeInv'
<1>1. PICK m : m = me[p]
  OBVIOUS
<1>2. m.at = "list" /\ m.at # "idle"
  BY <1>1 DEF List, At
<1>3. /\ m \in Mind(m) /\ CommandOK(m.cmd) /\ Located(m) /\ m.k \in Nat \ {0}
      /\ m.quiet => ReadsHold(m) /\ DoneHolds(m) /\ HereHolds(m)
  BY <1>1, <1>2, Of
<1>4. m.k \in DOMAIN Stacks /\ m.cmd.kind \in {"down", "replace"} /\ m.pos = 1 /\ m.passed = {}
  BY <1>2, <1>3 DEF Located, Listing, Looping
<1>5. PICK only : only = IF m.cmd.kind = "replace" THEN Drift(p, m.k) ELSE m.cmd.only
  OBVIOUS
<1>6. PICK t, d : d = "delete" /\ t = Ids(IF only = {} THEN Stacks[m.k] ELSE only)
  OBVIOUS
<1>7. PICK n : n = [m EXCEPT !.at = d, !.todo = t]
  OBVIOUS
<1>8. Goes(p, n)
  BY <1>1, <1>5, <1>6, <1>7 DEF List
<1>9. d \in Ats
  BY <1>6 DEF Ats, Listing
<1>10. /\ n \in Mind(n) /\ n.at = d /\ n.cmd = m.cmd /\ n.k = m.k /\ n.want = m.want /\ n.rows = m.rows
       /\ n.pos = m.pos /\ n.passed = m.passed /\ n.quiet = m.quiet /\ n.had = m.had /\ n.todo = t
  BY <1>3, <1>7, <1>9 DEF Mind
<1>11. ProcessOK(n)
  BY <1>2, <1>3, <1>6, <1>10 DEF ProcessOK, Located, Looping, Upping, Listing, Dropping, Reading
<1>12. ASSUME n.quiet
       PROVE  ReadsHold(n) /\ DoneHolds(n) /\ HereHolds(n)
  <2>1. ReadsHold(m) /\ DoneHolds(m)
    BY <1>3, <1>10, <1>12
  <2>2. ReadsHold(n)
    BY <1>2, <1>6, <1>10, <2>1 DEF ReadsHold
  <2>3. DoneHolds(n)
    BY <1>10, <2>1 DEF DoneHolds
  <2>4. ASSUME m.cmd.kind = "replace", NEW s \in Stacks[m.k], Drifted(s)
        PROVE  box[s].id \in t
    <3>1. m.rows[s] = [hash |-> box[s].hash, state |-> box[s].state] /\ m.want[s] = want[s]
      BY <1>2, <1>3, <1>4, <2>1, <2>4 DEF ReadsHold, Drifted, Row
    <3>2. m.rows[s] # None
      <4>1. PICK a, b : a = box[s].hash /\ b = box[s].state
        OBVIOUS
      <4>2. DOMAIN [hash |-> a, state |-> b] = {"hash", "state"} /\ DOMAIN None = {"id"}
        BY DEF None
      <4>3. QED
        BY <3>1, <4>1, <4>2
    <3>3. m.rows[s].hash # m.want[s]
      BY <2>4, <3>1 DEF Drifted
    <3>4. s \in only
      BY <1>1, <1>5, <2>4, <3>2, <3>3 DEF Drift, Missing
    <3>5. QED
      BY <1>6, <2>4, <3>4 DEF Ids, Drifted
  <2>5. ASSUME m.cmd.kind = "down"
        PROVE  \A s \in IF m.cmd.only = {} THEN Stacks[m.k] ELSE m.cmd.only : box[s] = None \/ box[s].id \in t
    BY <1>5, <1>6, <2>5 DEF Ids
  <2>6. HereHolds(n)
    BY <1>4, <1>6, <1>10, <2>4, <2>5 DEF HereHolds, Upping, Looping, Dropping
  <2>7. QED
    BY <2>2, <2>3, <2>6
<1>13. QED
  BY <1>6, <1>8, <1>10, <1>11, <1>12, GoingKeeps DEF Knows

\* down() has deleted all it listed.
LEMMA DownedOK ==
  ASSUME ConvergeInv, NEW p \in Process, me[p].at = "delete", me[p].todo = {}
  PROVE  ProcessOK(Downed(p)) /\ Knows(Downed(p))
<1>1. PICK m : m = me[p]
  OBVIOUS
<1>2. /\ m \in Mind(m) /\ CommandOK(m.cmd) /\ Located(m) /\ m.k \in Nat \ {0}
      /\ m.quiet => ReadsHold(m) /\ DoneHolds(m) /\ HereHolds(m)
  BY <1>1, Of
<1>3. m.k \in DOMAIN Stacks /\ m.cmd.kind \in {"down", "replace"} /\ m.pos = 1 /\ m.passed = {}
  BY <1>1, <1>2 DEF Located, Listing, Looping
<1>4. m.quiet /\ m.cmd.kind = "replace" => \A s \in Stacks[m.k] : ~Drifted(s)
  BY <1>1, <1>2 DEF HereHolds
<1>5. m.quiet /\ m.cmd.kind = "down" =>
        \A s \in IF m.cmd.only = {} THEN Stacks[m.k] ELSE m.cmd.only : box[s] = None
  BY <1>1, <1>2 DEF HereHolds
<1>6. CASE m.cmd.kind = "down" /\ m.cmd.only # {}
  <2>1. m.quiet => Achieved(m.cmd)
    BY <1>5, <1>6 DEF Achieved
  <2>2. ProcessOK(Ended(p, "ok")) /\ Knows(Ended(p, "ok"))
    BY <1>1, <2>1, EndedOK
  <2>3. Downed(p) = Ended(p, "ok")
    BY <1>1, <1>6 DEF Downed
  <2>4. QED
    BY <2>2, <2>3
<1>7. CASE ~(m.cmd.kind = "down" /\ m.cmd.only # {})
  <2>1. PICK a : a = IF m.cmd.kind = "replace" THEN "load" ELSE "nets"
    OBVIOUS
  <2>2. PICK n : n = [m EXCEPT !.at = a]
    OBVIOUS
  <2>3. n = Downed(p)
    BY <1>1, <1>3, <1>7, <2>1, <2>2 DEF Downed
  <2>4. a \in Ats
    BY <2>1 DEF Ats, Upping, Dropping
  <2>5. /\ n \in Mind(n) /\ n.at = a /\ n.cmd = m.cmd /\ n.k = m.k /\ n.want = m.want /\ n.rows = m.rows
        /\ n.pos = m.pos /\ n.passed = m.passed /\ n.quiet = m.quiet /\ n.had = m.had
    BY <1>2, <2>2, <2>4, ComesTo
  <2>6. ProcessOK(n)
    BY <1>1, <1>2, <1>3, <1>7, <2>1, <2>5 DEF ProcessOK, Located, Looping, Upping, Listing, Dropping, Reading
  <2>7. ASSUME n.quiet
        PROVE  ReadsHold(n) /\ DoneHolds(n) /\ HereHolds(n)
    <3>1. ReadsHold(m) /\ DoneHolds(m)
      BY <1>2, <2>5, <2>7
    <3>2. ReadsHold(n)
      BY <1>1, <2>1, <2>5, <3>1 DEF ReadsHold
    <3>3. DoneHolds(n)
      BY <2>5, <3>1 DEF DoneHolds
    <3>4. HereHolds(n)
      BY <1>3, <1>4, <1>5, <1>7, <2>1, <2>5, <2>7 DEF HereHolds, Upping, Looping, Dropping
    <3>5. QED
      BY <3>2, <3>3, <3>4
  <2>8. QED
    BY <2>1, <2>3, <2>5, <2>6, <2>7 DEF Knows
<1>8. QED
  BY <1>6, <1>7

LEMMA DeleteKeeps ==
  ASSUME ConvergeInv, NEW p \in Process, Delete(p)
  PROVE  ConvergeInv'
<1>1. PICK m : m = me[p]
  OBVIOUS
<1>2. m.at = "delete" /\ m.at # "idle"
  BY <1>1 DEF Delete, At
<1>3. /\ m \in Mind(m) /\ CommandOK(m.cmd) /\ Located(m) /\ m.k \in Nat \ {0}
      /\ m.quiet => ReadsHold(m) /\ DoneHolds(m) /\ HereHolds(m)
  BY <1>1, <1>2, Of
<1>4. m.k \in DOMAIN Stacks /\ m.cmd.kind \in {"down", "replace"} /\ m.pos = 1 /\ m.passed = {}
  BY <1>2, <1>3 DEF Located, Listing, Looping
<1>5. CASE m.todo = {} /\ Goes(p, Downed(p))
  BY <1>1, <1>2, <1>5, DownedOK, GoingKeeps
<1>6. CASE Raise(p)
  BY <1>6, RaiseKeeps
<1>7. ASSUME NEW i \in m.todo, Acts(p, [m EXCEPT !.todo = @ \ {i}]),
             box' = [s \in Service |-> IF box[s].id = i THEN None ELSE box[s]]
      PROVE  ConvergeInv'
  <2>1. PICK t : t = m.todo \ {i}
    OBVIOUS
  <2>2. PICK n : n = [m EXCEPT !.todo = t]
    OBVIOUS
  <2>3. Acts(p, n)
    BY <1>3, <1>7, <2>1, <2>2 DEF Mind
  <2>4. want' = want
    BY <2>3 DEF Acts
  <2>5. /\ box' = [s \in Service |-> box'[s]]
        /\ \A s \in Service : BoxTyped(box'[s])
        /\ \A s \in Service : (box[s].id # i /\ box'[s] = box[s]) \/ (box[s].id = i /\ box'[s] = None)
    BY <1>7 DEF ConvergeInv, Shape, BoxTyped
  <2>6. /\ n \in Mind(n) /\ n.at = m.at /\ n.cmd = m.cmd /\ n.k = m.k /\ n.want = m.want /\ n.rows = m.rows
        /\ n.pos = m.pos /\ n.passed = m.passed /\ n.quiet = m.quiet /\ n.had = m.had /\ n.todo = t
    BY <1>3, <2>2 DEF Mind
  <2>7. ProcessOK(n)
    BY <1>2, <1>3, <2>6 DEF ProcessOK, Located, Looping, Upping, Listing, Dropping, Reading
  <2>8. \A j \in DOMAIN Stacks : Stacks[j] \subseteq Service
    BY StackFacts
  <2>9. \A s \in Service : ~Drifted(s) => ~Drifted(s)'
    BY <2>4, <2>5 DEF Drifted
  <2>10. ASSUME n.quiet
         PROVE  ReadsHold(n)' /\ DoneHolds(n)' /\ HereHolds(n)'
    <3>1. ReadsHold(m) /\ DoneHolds(m) /\ HereHolds(m)
      BY <1>3, <2>6, <2>10
    <3>2. ReadsHold(n)'
      <4>1. \A j \in DOMAIN Stacks : j >= m.k => \A s \in Stacks[j] : m.want[s] = want'[s]
        BY <2>4, <3>1 DEF ReadsHold
      <4>2. ASSUME m.cmd.kind = "replace", NEW j \in DOMAIN Stacks, j > m.k, NEW s \in Stacks[j]
            PROVE  m.rows[s] = Row(s)' \/ box'[s] = None
        <5>1. m.rows[s] = Row(s) \/ box[s] = None
          BY <1>2, <3>1, <4>2 DEF ReadsHold
        <5>2. box'[s] = box[s] \/ box'[s] = None
          BY <2>5, <2>8
        <5>3. QED
          BY <5>1, <5>2 DEF Row
      <4>3. QED
        BY <1>2, <1>4, <2>6, <4>1, <4>2 DEF ReadsHold
    <3>3. DoneHolds(n)'
      BY <1>4, <2>6, <2>8, <2>9, <3>1 DEF DoneHolds
    <3>4. ASSUME m.cmd.kind = "replace", NEW s \in Stacks[m.k], Drifted(s)'
          PROVE  box'[s].id \in t
      <4>1. s \in Service /\ Drifted(s)
        BY <1>4, <2>8, <2>9, <3>4
      <4>2. box'[s] = box[s] /\ box[s].id # i
        BY <2>5, <3>4, <4>1 DEF Drifted
      <4>3. box[s].id \in m.todo
        BY <1>2, <3>1, <3>4, <4>1 DEF HereHolds
      <4>4. QED
        BY <2>1, <4>2, <4>3
    <3>5. ASSUME m.cmd.kind = "down", NEW s \in IF m.cmd.only = {} THEN Stacks[m.k] ELSE m.cmd.only
          PROVE  box'[s] = None \/ box'[s].id \in t
      <4>1. s \in Service
        BY <1>2, <1>3, <1>4, <2>8, <3>5 DEF Located, CommandOK
      <4>2. box[s] = None \/ box[s].id \in m.todo
        BY <1>2, <3>1, <3>5 DEF HereHolds
      <4>3. QED
        BY <2>1, <2>5, <4>1, <4>2
    <3>6. HereHolds(n)'
      BY <1>2, <1>4, <2>6, <3>4, <3>5 DEF HereHolds, Upping, Looping, Dropping
    <3>7. QED
      BY <3>2, <3>3, <3>6
  <2>11. Knows(n)'
    BY <1>2, <2>6, <2>10 DEF Knows
  <2>12. QED
    BY <2>3, <2>5, <2>7, <2>11, ActsKeep
<1>8. QED
  BY <1>1, <1>5, <1>6, <1>7 DEF Delete

\* Of a stack without containers, `down` has done what it is for.
LEMMA DropOK ==
  ASSUME ConvergeInv, NEW p \in Process, me[p].at \in Dropping
  PROVE  /\ ProcessOK(Ended(p, "ok")) /\ Knows(Ended(p, "ok"))
         /\ \A a \in Dropping : ProcessOK([me[p] EXCEPT !.at = a]) /\ Knows([me[p] EXCEPT !.at = a])
<1>1. PICK m : m = me[p]
  OBVIOUS
<1>2. m.at # "idle"
  BY <1>1 DEF Dropping
<1>3. /\ m \in Mind(m) /\ CommandOK(m.cmd) /\ Located(m) /\ m.k \in Nat \ {0}
      /\ m.quiet => ReadsHold(m) /\ DoneHolds(m) /\ HereHolds(m)
  BY <1>1, <1>2, Of
<1>4. /\ m.k \in DOMAIN Stacks /\ m.cmd.kind = "down" /\ m.cmd.only = {} /\ m.k = m.cmd.k
      /\ m.pos = 1 /\ m.passed = {}
  BY <1>1, <1>3 DEF Located, Dropping, Looping
<1>5. m.quiet => \A s \in Stacks[m.k] : box[s] = None
  BY <1>1, <1>3 DEF HereHolds
<1>6. m.quiet => Achieved(m.cmd)
  BY <1>4, <1>5 DEF Achieved
<1>7. ProcessOK(Ended(p, "ok")) /\ Knows(Ended(p, "ok"))
  BY <1>1, <1>6, EndedOK
<1>8. ASSUME NEW a \in Dropping
      PROVE  ProcessOK([m EXCEPT !.at = a]) /\ Knows([m EXCEPT !.at = a])
  <2>1. PICK n : n = [m EXCEPT !.at = a]
    OBVIOUS
  <2>2. a \in Ats /\ a # "idle" /\ a \notin Looping
    BY DEF Ats, Dropping, Looping
  <2>3. /\ n \in Mind(n) /\ n.at = a /\ n.cmd = m.cmd /\ n.k = m.k /\ n.want = m.want /\ n.rows = m.rows
        /\ n.pos = m.pos /\ n.passed = m.passed /\ n.quiet = m.quiet /\ n.had = m.had
    BY <1>3, <2>1, <2>2, ComesTo
  <2>4. ProcessOK(n)
    BY <1>3, <1>4, <2>3 DEF ProcessOK, Located, Looping, Upping, Listing, Dropping, Reading
  <2>5. ASSUME n.quiet
        PROVE  ReadsHold(n) /\ DoneHolds(n) /\ HereHolds(n)
    <3>1. ReadsHold(m) /\ DoneHolds(m)
      BY <1>3, <2>3, <2>5
    <3>2. ReadsHold(n)
      BY <1>4, <2>3, <3>1 DEF ReadsHold
    <3>3. DoneHolds(n)
      BY <2>3, <3>1 DEF DoneHolds
    <3>4. HereHolds(n)
      BY <1>4, <1>5, <2>3, <2>5 DEF HereHolds, Upping, Looping, Dropping
    <3>5. QED
      BY <3>2, <3>3, <3>4
  <2>6. QED
    BY <2>1, <2>2, <2>3, <2>4, <2>5 DEF Knows
<1>9. QED
  BY <1>1, <1>7, <1>8

LEMMA DropKeeps ==
  ASSUME ConvergeInv, NEW p \in Process, FindNets(p) \/ RemoveNet(p) \/ RemoveVols(p)
  PROVE  ConvergeInv'
<1>1. me[p].at \in Dropping /\ "rmnet" \in Dropping /\ "rmvols" \in Dropping
  BY DEF FindNets, RemoveNet, RemoveVols, At, Dropping
<1>2. ProcessOK(DropVols(p)) /\ Knows(DropVols(p))
  BY <1>1, DropOK DEF DropVols
<1>3. CASE FindNets(p)
  <2>1. Goes(p, DropVols(p)) \/ Goes(p, [me[p] EXCEPT !.at = "rmnet"])
    BY <1>3 DEF FindNets
  <2>2. QED
    BY <1>1, <1>2, <2>1, DropOK, GoingKeeps
<1>4. CASE RemoveNet(p)
  <2>1. Raise(p) \/ (Acts(p, DropVols(p)) /\ UNCHANGED box)
    BY <1>4 DEF RemoveNet
  <2>2. QED
    BY <1>2, <2>1, ActingKeeps, RaiseKeeps
<1>5. CASE RemoveVols(p)
  <2>1. Goes(p, Ended(p, "ok")) \/ Raise(p) \/ (Acts(p, Ended(p, "ok")) /\ UNCHANGED box)
    BY <1>5 DEF RemoveVols
  <2>2. QED
    BY <1>1, <2>1, DropOK, GoingKeeps, ActingKeeps, RaiseKeeps
<1>6. QED
  BY <1>3, <1>4, <1>5

----------------------------------------------------------------------------
(* The host and its users.                                                 *)

\* A container that is there, with another field.
LEMMA FieldChanges ==
  ASSUME ConvergeInv, NEW s \in Service, box[s] # None, NEW b, b = box[s],
         NEW st \in {"created", "running", "paused", "exited"}, NEW r \in BOOLEAN
  PROVE  /\ BoxTyped([b EXCEPT !.state = st]) /\ BoxTyped([b EXCEPT !.ready = r])
         /\ BoxTyped([b EXCEPT !.state = st, !.ready = r])
         /\ LET c == [b EXCEPT !.ready = r]
            IN c # None /\ c.id = b.id /\ c.hash = b.hash /\ c.state = b.state /\ c.ready = r
<1>1. b \in [id : {b.id}, hash : {b.hash}, state : {"created", "running", "paused", "exited"}, ready : BOOLEAN]
  BY DEF ConvergeInv, Shape, BoxTyped
<1>2. BoxTyped([b EXCEPT !.state = st])
  BY <1>1 DEF BoxTyped
<1>3. BoxTyped([b EXCEPT !.state = st, !.ready = r])
  BY <1>1 DEF BoxTyped
<1>4. PICK c : c = [b EXCEPT !.ready = r]
  OBVIOUS
<1>5. /\ c.id = b.id /\ c.hash = b.hash /\ c.state = b.state /\ c.ready = r /\ BoxTyped(c)
      /\ DOMAIN c = {"id", "hash", "state", "ready"}
  BY <1>1, <1>4 DEF BoxTyped
<1>6. c # None
  <2>1. DOMAIN None = {"id"}
    BY DEF None
  <2>2. QED
    BY <1>5, <2>1
<1>7. QED
  BY <1>2, <1>3, <1>4, <1>5, <1>6

LEMMA WarmKeeps ==
  ASSUME ConvergeInv, NEW w \in Service, Warm(w)
  PROVE  ConvergeInv'
<1>1. box' = [box EXCEPT ![w].ready = TRUE] /\ want' = want /\ me' = me /\ box[w] # None
  BY DEF Warm, Up
<1>2. PICK b, c : b = box[w] /\ c = [b EXCEPT !.ready = TRUE]
  OBVIOUS
<1>3. c # None /\ BoxTyped(c) /\ c.id = b.id /\ c.hash = b.hash /\ c.state = b.state /\ c.ready = TRUE
  BY <1>1, <1>2, FieldChanges
<1>4. /\ box' = [s \in Service |-> box'[s]] /\ box'[w] = c
      /\ \A s \in Service : BoxTyped(box'[s])
      /\ \A s \in Service : s # w => box'[s] = box[s]
  BY <1>1, <1>2, <1>3 DEF ConvergeInv, Shape
<1>5. ASSUME NEW s \in Service
      PROVE  /\ Drifted(s)' <=> Drifted(s)
             /\ InPlace(s)' <=> InPlace(s)
             /\ box'[s] = None <=> box[s] = None
             /\ box[s] # None => box'[s].id = box[s].id /\ box'[s].hash = box[s].hash /\ box'[s].state = box[s].state
             /\ InPlace(s) /\ box[s].ready => box'[s].ready
             /\ Row(s)' = Row(s)
  <2>1. CASE s = w
    BY <1>1, <1>2, <1>3, <1>4, <2>1 DEF Drifted, InPlace, Up, Row
  <2>2. CASE s # w
    <3>1. box'[s] = box[s]
      BY <1>4, <2>2
    <3>2. QED
      BY <1>1, <3>1 DEF Drifted, InPlace, Up, Row
  <2>3. QED
    BY <2>1, <2>2
<1>6. \A j \in DOMAIN Stacks : Stacks[j] \subseteq Service
  BY StackFacts
<1>7. ASSUME NEW x \in Process
      PROVE  Knows(me[x])'
  <2>1. PICK m : m = me[x]
    OBVIOUS
  <2>2. CommandOK(m.cmd) /\ Located(m) /\ Knows(m)
    BY <2>1, Of
  <2>3. \A s \in m.passed : m.at # "idle" => s \in Service
    BY <2>1, <2>2, LoopOf DEF Located
  <2>4. m.at \in {"start", "gate"} => m.order[m.pos] \in Service
    BY <2>1, LoopOf DEF Looping
  <2>5. ReadsHold(m) => ReadsHold(m)'
    BY <1>1, <1>5, <1>6 DEF ReadsHold
  <2>6. DoneHolds(m) => DoneHolds(m)'
    <3>1. \A s \in Service : InPlace(s) /\ box[s].state = "running" => InPlace(s)' /\ box'[s].state = "running"
      BY <1>5 DEF InPlace, Up
    <3>2. QED
      BY <1>5, <1>6, <3>1 DEF DoneHolds
  <2>7. m.at # "idle" /\ HereHolds(m) => HereHolds(m)'
    <3>1. SUFFICES ASSUME m.at # "idle", HereHolds(m)
                   PROVE  HereHolds(m)'
      OBVIOUS
    <3>2. \A s \in m.passed : InOrder(m, s)'
      BY <1>5, <2>3, <3>1 DEF HereHolds, InOrder
    <3>3. m.at = "start" => box'[m.order[m.pos]] # None /\ box'[m.order[m.pos]].hash = want'[m.order[m.pos]]
      BY <1>1, <1>5, <2>4, <3>1 DEF HereHolds
    <3>4. m.at = "gate" => InPlace(m.order[m.pos])'
      BY <1>5, <2>4, <3>1 DEF HereHolds
    <3>5. /\ m.cmd.kind = "replace" /\ m.at \in Upping => \A s \in Stacks[m.k] : ~Drifted(s)'
          /\ m.cmd.kind = "replace" /\ m.at = "delete" =>
               \A s \in Stacks[m.k] : Drifted(s)' => box'[s].id \in m.todo
          /\ m.at \in Dropping => \A s \in Stacks[m.k] : box'[s] = None
      <4>1. m.at \in Upping \cup Listing \cup Dropping => Stacks[m.k] \subseteq Service
        BY <1>6, <2>2 DEF Located
      <4>2. m.at = "delete" => m.at \in Listing
        BY DEF Listing
      <4>3. QED
        BY <1>5, <3>1, <4>1, <4>2 DEF HereHolds, Drifted
    <3>6. m.cmd.kind = "down" /\ m.at = "delete" =>
            \A s \in IF m.cmd.only = {} THEN Stacks[m.k] ELSE m.cmd.only : box'[s] = None \/ box'[s].id \in m.todo
      <4>1. m.cmd.kind = "down" /\ m.at = "delete" =>
              Stacks[m.k] \subseteq Service /\ m.cmd.only \subseteq Service
        BY <1>6, <2>2 DEF Located, CommandOK, Listing
      <4>2. QED
        BY <1>5, <3>1, <4>1 DEF HereHolds
    <3>7. QED
      BY <3>2, <3>3, <3>4, <3>5, <3>6 DEF HereHolds
  <2>8. Achieved(m.cmd) => Achieved(m.cmd)'
    <3>1. PICK c1 : c1 = m.cmd
      OBVIOUS
    <3>2. /\ c1.kind \in Kinds
          /\ c1.kind \in {"up", "down", "ps"} => Stacks[c1.k] \subseteq Service /\ c1.only \subseteq Service
      BY <1>6, <2>2, <3>1 DEF CommandOK
    <3>3. \A s \in Service : InPlace(s) /\ box[s].state = "running" => InPlace(s)' /\ box'[s].state = "running"
      BY <1>5 DEF InPlace, Up
    <3>4. Achieved(c1) => Achieved(c1)'
      <4>1. CASE c1.kind = "up"
        BY <1>5, <3>2, <4>1 DEF Achieved
      <4>2. CASE c1.kind = "down"
        BY <1>5, <3>2, <4>2 DEF Achieved
      <4>3. CASE c1.kind = "ps"
        BY <3>2, <3>3, <4>3 DEF Achieved
      <4>4. CASE c1.kind = "diff"
        BY <3>3, <4>4 DEF Achieved
      <4>5. CASE c1.kind \in {"converge", "replace"}
        BY <1>5, <4>5 DEF Achieved
      <4>6. QED
        BY <3>2, <4>1, <4>2, <4>3, <4>4, <4>5 DEF Kinds
    <3>5. QED
      BY <3>1, <3>4
  <2>9. Knows(m)'
    BY <2>2, <2>5, <2>6, <2>7, <2>8 DEF Knows
  <2>10. QED
    BY <1>1, <2>1, <2>9, KnowsIs
<1>8. Shape'
  BY <1>1, <1>4 DEF ConvergeInv, Shape, BoxTyped
<1>9. QED
  BY <1>7, <1>8 DEF ConvergeInv

LEMMA HostKeeps ==
  ASSUME ConvergeInv, NEW s \in Service, Exits(s) \/ Pause(s) \/ EditStack(s)
  PROVE  ConvergeInv'
<1>1. Disturbs
  BY DEF Exits, Pause, EditStack
<1>2. want = [x \in Service |-> want[x]] /\ box = [x \in Service |-> box[x]] /\ \A x \in Service : BoxTyped(box[x])
  BY DEF ConvergeInv, Shape
<1>3. PICK b : b = box[s]
  OBVIOUS
<1>4. CASE Exits(s)
  <2>1. box[s] # None /\ want' = want /\ box' = [box EXCEPT ![s] = [b EXCEPT !.state = "exited", !.ready = FALSE]]
    BY <1>2, <1>3, <1>4 DEF Exits, Up
  <2>2. BoxTyped([b EXCEPT !.state = "exited", !.ready = FALSE])
    BY <1>3, <2>1, FieldChanges
  <2>3. box' = [x \in Service |-> box'[x]] /\ \A x \in Service : BoxTyped(box'[x])
    BY <1>2, <2>1, <2>2
  <2>4. QED
    BY <1>1, <1>2, <2>1, <2>3, FaultKeeps
<1>5. CASE Pause(s)
  <2>1. PICK st : st = IF b.state = "running" THEN "paused" ELSE "running"
    OBVIOUS
  <2>2. box[s] # None /\ want' = want /\ box' = [box EXCEPT ![s] = [b EXCEPT !.state = st]]
    BY <1>2, <1>3, <1>5, <2>1 DEF Pause, Up, BoxTyped
  <2>3. st \in {"created", "running", "paused", "exited"}
    BY <2>1
  <2>4. BoxTyped([b EXCEPT !.state = st])
    BY <1>3, <2>2, <2>3, FieldChanges
  <2>5. box' = [x \in Service |-> box'[x]] /\ \A x \in Service : BoxTyped(box'[x])
    BY <1>2, <2>2, <2>4
  <2>6. QED
    BY <1>1, <1>2, <2>2, <2>5, FaultKeeps
<1>6. CASE EditStack(s)
  <2>1. want' = [x \in Service |-> want'[x]] /\ box' = box
    BY <1>2, <1>6 DEF EditStack
  <2>2. QED
    BY <1>1, <1>2, <2>1, FaultKeeps
<1>7. QED
  BY <1>4, <1>5, <1>6

LEMMA KillKeeps ==
  ASSUME ConvergeInv, NEW p \in Process, Kill(p)
  PROVE  ConvergeInv'
<1>1. ProcessOK(Ended(p, "error")) /\ Knows(Ended(p, "error"))
  BY EndedOK
<1>2. me' = [me EXCEPT ![p] = Ended(p, "error")] /\ UNCHANGED <<want, box>>
  BY DEF Kill, World
<1>3. QED
  BY <1>1, <1>2, GoesKeeps

----------------------------------------------------------------------------
(* The invariant and what follows from it.                                 *)

LEMMA InitConverge == ConvergeInit => ConvergeInv
<1>1. SUFFICES ASSUME ConvergeInit
               PROVE  ConvergeInv
  OBVIOUS
<1>2. \A p \in Process : ProcessOK(me[p]) /\ Knows(me[p])
  BY <1>1, RestOK DEF ConvergeInit
<1>3. Shape
  BY <1>1, <1>2 DEF ConvergeInit, Shape, BoxTyped
<1>4. QED
  BY <1>2, <1>3 DEF ConvergeInv

LEMMA NextConverge == ConvergeInv /\ [ConvergeNext]_stackVars => ConvergeInv'
<1>1. SUFFICES ASSUME ConvergeInv, [ConvergeNext]_stackVars
               PROVE  ConvergeInv'
  OBVIOUS
<1>2. ASSUME NEW p \in Process, Begin(p) \/ Step(p) \/ Kill(p)
      PROVE  ConvergeInv'
  BY <1>1, <1>2, BeginKeeps, RowsKeep, PlanKeeps, LoadKeeps, NetKeeps, LookKeeps, CreateKeeps, StartKeeps,
     GateKeeps, ListKeeps, DeleteKeeps, DropKeeps, KillKeeps DEF Step
<1>3. ASSUME NEW s \in Service, Warm(s) \/ Exits(s) \/ Pause(s) \/ EditStack(s)
      PROVE  ConvergeInv'
  BY <1>1, <1>3, WarmKeeps, HostKeeps
<1>4. CASE UNCHANGED stackVars
  <2>1. UNCHANGED <<want, box, me>>
    BY <1>4 DEF stackVars
  <2>2. ASSUME NEW p \in Process
        PROVE  Knows(me[p])'
    <3>1. PICK m : m = me[p]
      OBVIOUS
    <3>2. Knows(m)
      BY <1>1, <3>1 DEF ConvergeInv
    <3>3. Knows(m)'
      BY <2>1, <3>2, WorldStays
    <3>4. QED
      BY <2>1, <3>1, <3>3, KnowsIs
  <2>3. Shape'
    BY <1>1, <2>1 DEF ConvergeInv, Shape, BoxTyped
  <2>4. QED
    BY <2>2, <2>3 DEF ConvergeInv
<1>5. QED
  BY <1>1, <1>2, <1>3, <1>4 DEF ConvergeNext

LEMMA ConvergeInvariant == ConvergeSpec => []ConvergeInv
BY InitConverge, NextConverge, PTL DEF ConvergeSpec

\* A command of stack or fleet that reports success has achieved what it is
\* for, unless another process or a fault has interfered since it began: for any
\* stacks, processes and edits, and in whatever half done state the daemon was
\* left by those before it.
THEOREM OkIsDone == ConvergeSpec => []OkMeansDone
<1>1. ConvergeInv => OkMeansDone
  BY DEF ConvergeInv, Knows, OkMeansDone
<1>2. QED
  BY <1>1, ConvergeInvariant, PTL

\* up(): a service is started only when each of those it depends on was found
\* ready, or drifted and passed by, for any stacks and any topological order.
THEOREM StartsAreInOrder == ConvergeSpec => StartsInOrder
<1>1. ASSUME ConvergeInv, NEW p \in Process, NEW s \in Service, At(p, "start"), Here(p) = s
      PROVE  deps[s] \subseteq me[p].passed
  <2>1. PICK m : m = me[p]
    OBVIOUS
  <2>2. m.at \in Looping
    BY <1>1, <2>1 DEF At, Looping
  <2>3. /\ Located(m) /\ m.k \in DOMAIN Stacks /\ m.order \in Orders(m.k) /\ m.order[m.pos] \in Stacks[m.k]
        /\ m.order[m.pos] = s
    BY <1>1, <2>1, <2>2, LoopOf
  <2>4. m.pos \in Nat \ {0} /\ m.pos <= Len(m.order) /\ m.passed = {m.order[i] : i \in 1..(m.pos - 1)}
    BY <1>1, <2>1, <2>2, <2>3, Of DEF Located
  <2>5. Len(m.order) \in Nat
    BY <2>3, OrderFacts
  <2>6. ASSUME NEW d \in deps[s]
        PROVE  d \in m.passed
    <3>1. d \in Stacks[m.k]
      BY <2>3, <2>6, ConvergeAssumption
    <3>2. PICK i \in 1..Len(m.order) : m.order[i] = d
      BY <2>3, <3>1, OrderFacts
    <3>3. m.pos \in 1..Len(m.order)
      BY <2>4, <2>5
    <3>4. i < m.pos
      BY <2>3, <2>6, <3>2, <3>3, OrderFacts
    <3>5. QED
      BY <2>4, <2>5, <3>2, <3>4
  <2>7. QED
    BY <2>1, <2>6
<1>2. ConvergeInv /\ [ConvergeNext]_stackVars =>
        [\A p \in Process : \A s \in Service :
           At(p, "start") /\ Here(p) = s /\ me[p].cmd.wait /\ ~Up(s) /\ Up(s)'
             => deps[s] \subseteq me[p].passed]_stackVars
  BY <1>1
<1>3. QED
  BY <1>2, ConvergeInvariant, PTL DEF ConvergeSpec, StartsInOrder
=============================================================================
