----------------------------- MODULE TasksProofs ----------------------------
(***************************************************************************)
(* Proofs about Tasks for any set of task ids, any number of restarts and  *)
(* any combination of faults.                                              *)
(***************************************************************************)
EXTENDS Tasks, TLAPS

\* The done events of a log still agree with the verdict o after one more.
LEMMA AppendDone ==
  ASSUME NEW s \in Seq(Terminal), NEW x \in Terminal, NEW o,
         \A i \in 1..Len(s) : s[i] \in Real => o = s[i],
         x \in Real => o = x
  PROVE  /\ Append(s, x) \in Seq(Terminal)
         /\ \A i \in 1..Len(Append(s, x)) :
              Append(s, x)[i] \in Real => o = Append(s, x)[i]
  <1>1. Len(Append(s, x)) = Len(s) + 1 /\ Len(s) \in Nat
    OBVIOUS
  <1>2. ASSUME NEW i \in 1..Len(s) + 1
        PROVE  Append(s, x)[i] = IF i = Len(s) + 1 THEN x ELSE s[i]
    OBVIOUS
  <1>3. ASSUME NEW i \in 1..Len(s) + 1, i # Len(s) + 1
        PROVE  i \in 1..Len(s)
    BY <1>1, <1>3
  <1> QED
    BY <1>1, <1>2, <1>3

\* The first done event of a log that has one.
LEMMA HeadDone ==
  ASSUME NEW s \in Seq(Terminal), s # <<>>
  PROVE  Head(s) \in Terminal /\ Head(s) = s[1] /\ 1 \in 1..Len(s)
  OBVIOUS

\* A log with one more event is not empty.
LEMMA AppendNotEmpty ==
  ASSUME NEW s \in Seq(Terminal), NEW x \in Terminal
  PROVE  Append(s, x) # <<>>
  <1>1. Len(Append(s, x)) = Len(s) + 1 /\ Len(s) \in Nat
    OBVIOUS
  <1>2. Len(<<>>) = 0
    OBVIOUS
  <1> QED
    BY <1>1, <1>2

\* The invariant holds initially.
LEMMA InitInv == Init => TasksInv
  <1> USE TasksAssumption
  <1> SUFFICES ASSUME Init PROVE TasksInv
    OBVIOUS
  <1>1. TypeOK
    BY DEF Init, TypeOK, Terminal, RunSteps
  <1>2. ActiveIsCurrent /\ DecidedOnce /\ OneWriter
    BY DEF Init, ActiveIsCurrent, DecidedOnce, OneWriter, Active
  <1>3. VerdictsReal
    BY DEF Init, VerdictsReal, Real
  <1> QED
    BY <1>1, <1>2, <1>3 DEF TasksInv

\* The lemmas on single steps argue from the invariant and the status sets.
USE TasksAssumption
USE DEF TasksInv, TypeOK, ActiveIsCurrent, DecidedOnce, VerdictsReal, OneWriter,
        Terminal, RunSteps, Early, Active, Real, durable, watchers, files,
        memory, history, Sandboxd, Runtimed, Fault, Runs, RunStep

\* The goroutine of a task: the verdict is decided once and only copied later.
LEMMA RunTaskInv ==
  ASSUME TasksInv, NEW t \in Tasks, RunTask(t) \/ Deadline(t)
  PROVE  TasksInv'
  <1>1. CASE RunBegin(t)
    BY <1>1 DEF RunBegin
  <1>2. CASE Deadline(t)
    BY <1>2 DEF Deadline
  <1>3. CASE AgentEnds(t)
    BY <1>3 DEF AgentEnds, Verdicts
  <1>4. CASE ChecksEnd(t)
    BY <1>4 DEF ChecksEnd
  <1>5. CASE EmitDone(t)
    <2>1. TypeOK'
      <3>1. dones' \in [Tasks -> Seq(Terminal)]
        <4>1. Append(dones[t], outcome[t]) \in Seq(Terminal)
          BY <1>5, AppendDone DEF EmitDone
        <4> QED
          BY <1>5, <4>1 DEF EmitDone
      <3>2. run' \in [Tasks -> RunSteps]
        BY <1>5, AppendDone DEF EmitDone
      <3> QED
        BY <1>5, <3>1, <3>2 DEF EmitDone
    <2>2. ActiveIsCurrent'
      BY <1>5 DEF EmitDone
    <2>3. DecidedOnce'
      BY <1>5 DEF EmitDone
    <2>4. VerdictsReal'
      BY <1>5, AppendDone DEF EmitDone
    <2>5. OneWriter'
      BY <1>5 DEF EmitDone
    <2> QED
      BY <2>1, <2>2, <2>3, <2>4, <2>5
  <1>6. CASE SetDone(t)
    BY <1>6 DEF SetDone
  <1>7. CASE WriteResult(t)
    BY <1>7 DEF WriteResult
  <1> QED
    BY <1>1, <1>2, <1>3, <1>4, <1>5, <1>6, <1>7 DEF RunTask

\* Submit and cancel: a task is started only when no other one is active.
LEMMA RequestInv ==
  ASSUME TasksInv, NEW t \in Tasks,
         SubmitRefused(t) \/ SubmitStart(t) \/ SubmitCreate(t) \/ Cancel(t)
  PROVE  TasksInv'
  <1>1. CASE SubmitRefused(t)
    BY <1>1 DEF SubmitRefused
  <1>2. CASE SubmitStart(t)
    <2>1. TypeOK'
      <3>1. submit' \in [Tasks -> {"new", "refused", "accepted", "told"}]
        <4>1. CASE submit' = [submit EXCEPT ![t] = "accepted"]
          BY <4>1
        <4>2. CASE submit' = [submit EXCEPT ![t] = "refused"]
          BY <4>2
        <4> QED
          BY <1>2, <4>1, <4>2 DEF SubmitStart
      <3>2. run' \in [Tasks -> RunSteps]
        BY <1>2 DEF SubmitStart, Busy
      <3> QED
        BY <1>2, <3>1, <3>2 DEF SubmitStart
    <2>2. ActiveIsCurrent'
      BY <1>2 DEF SubmitStart, Busy
    <2>3. DecidedOnce'
      BY <1>2 DEF SubmitStart, Busy
    <2>4. VerdictsReal'
      BY <1>2 DEF SubmitStart, Busy
    <2>5. OneWriter'
      BY <1>2 DEF SubmitStart, Busy
    <2> QED
      BY <2>1, <2>2, <2>3, <2>4, <2>5
  <1>3. CASE SubmitCreate(t)
    <2>1. TypeOK'
      <3>1. submit' \in [Tasks -> {"new", "refused", "accepted", "told"}]
        BY <1>3 DEF SubmitCreate
      <3>2. row' \in [Tasks -> Terminal \cup {"none", "running"}]
        BY <1>3 DEF SubmitCreate
      <3>3. watch' \in [Tasks -> {"none", "connect", "live", "replay", "save"}]
        BY <1>3 DEF SubmitCreate
      <3> QED
        BY <1>3, <3>1, <3>2, <3>3 DEF SubmitCreate
    <2>2. ActiveIsCurrent'
      BY <1>3 DEF SubmitCreate
    <2>3. DecidedOnce'
      BY <1>3 DEF SubmitCreate
    <2>4. VerdictsReal'
      <3>1. \A u \in Tasks : row'[u] \in {row[u], "running"}
        BY <1>3 DEF SubmitCreate
      <3>2. found' = found /\ result' = result /\ dones' = dones /\ outcome' = outcome
        BY <1>3 DEF SubmitCreate
      <3>3. ASSUME NEW u \in Tasks
            PROVE  row'[u] \in Real => outcome[u] = row'[u]
        <4>1. row[u] \in Real => outcome[u] = row[u]
          OBVIOUS
        <4>2. row'[u] = row[u] \/ row'[u] = "running"
          BY <3>1
        <4> QED
          BY <4>1, <4>2
      <3>4. ASSUME NEW u \in Tasks
            PROVE  /\ found[u] \in Real => outcome[u] = found[u]
                   /\ result[u] \in Real => outcome[u] = result[u]
                   /\ \A i \in 1..Len(dones[u]) : dones[u][i] \in Real => outcome[u] = dones[u][i]
        OBVIOUS
      <3> QED
        BY <3>2, <3>3, <3>4
    <2>5. OneWriter'
      BY <1>3 DEF SubmitCreate
    <2> QED
      BY <2>1, <2>2, <2>3, <2>4, <2>5
  <1>4. CASE Cancel(t)
    BY <1>4 DEF Cancel
  <1> QED
    BY <1>1, <1>2, <1>3, <1>4

\* FinishTask stores a verdict in the row, or fails.
LEMMA FinishTyped ==
  ASSUME TasksInv, NEW t \in Tasks, NEW s \in Terminal \cup {"none"},
         FinishTask(t, s)
  PROVE  /\ row' \in [Tasks -> Terminal \cup {"none", "running"}]
         /\ adrift' \in SUBSET Tasks
  <1>1. CASE row' = [row EXCEPT ![t] = IF row[t] = "none" THEN "none" ELSE s] /\ UNCHANGED adrift
    BY <1>1
  <1>2. CASE UNCHANGED row /\ adrift' = adrift \cup {t}
    BY <1>2
  <1> QED
    BY <1>1, <1>2 DEF FinishTask

\* The watcher: what it stores is a done event of the log, or a failure.
LEMMA WatchInv ==
  ASSUME TasksInv, NEW t \in Tasks, Watch(t) \/ WatchTimeout(t)
  PROVE  TasksInv'
  <1>1. CASE WatchConnect(t)
    <2>1. TypeOK'
      <3>1. watch' \in [Tasks -> {"none", "connect", "live", "replay", "save"}]
        <4>1. CASE UNCHANGED watch
          BY <4>1
        <4>2. CASE watch' = [watch EXCEPT ![t] = IF current = t THEN "live" ELSE "replay"]
          BY <4>2
        <4>3. CASE watch' = [watch EXCEPT ![t] = "save"]
          BY <4>3
        <4> QED
          BY <1>1, <4>1, <4>2, <4>3 DEF WatchConnect, Save
      <3>2. found' \in [Tasks -> Terminal \cup {"none"}]
        <4>1. CASE UNCHANGED found
          BY <4>1
        <4>2. CASE found' = [found EXCEPT ![t] = "failed"]
          BY <4>2
        <4> QED
          BY <1>1, <4>1, <4>2 DEF WatchConnect, Save
      <3>3. tries' \in [Tasks -> 0..MaxAttempts]
        <4>1. tries[t] + 1 \in 0..MaxAttempts
          BY <1>1 DEF WatchConnect
        <4>2. CASE UNCHANGED tries
          BY <4>2
        <4>3. CASE tries' = [tries EXCEPT ![t] = tries[t] + 1]
          BY <4>1, <4>3
        <4> QED
          BY <1>1, <4>2, <4>3 DEF WatchConnect
      <3> QED
        BY <1>1, <3>1, <3>2, <3>3 DEF WatchConnect
    <2>2. ActiveIsCurrent'
      BY <1>1 DEF WatchConnect, Save
    <2>3. DecidedOnce'
      BY <1>1 DEF WatchConnect, Save
    <2>4. VerdictsReal'
      BY <1>1 DEF WatchConnect, Save
    <2>5. OneWriter'
      BY <1>1 DEF WatchConnect, Save
    <2> QED
      BY <2>1, <2>2, <2>3, <2>4, <2>5
  <1>2. CASE WatchLive(t)
    <2>1. TypeOK'
      BY <1>2, HeadDone DEF WatchLive, Save
    <2>2. ActiveIsCurrent'
      BY <1>2 DEF WatchLive, Save
    <2>3. DecidedOnce'
      BY <1>2 DEF WatchLive, Save
    <2>4. VerdictsReal'
      BY <1>2, HeadDone DEF WatchLive, Save
    <2>5. OneWriter'
      BY <1>2 DEF WatchLive, Save
    <2> QED
      BY <2>1, <2>2, <2>3, <2>4, <2>5
  <1>3. CASE WatchReplay(t)
    <2>1. TypeOK'
      BY <1>3, HeadDone DEF WatchReplay, Save, ReplayedStatus
    <2>2. ActiveIsCurrent'
      BY <1>3 DEF WatchReplay, Save, ReplayedStatus
    <2>3. DecidedOnce'
      BY <1>3 DEF WatchReplay, Save, ReplayedStatus
    <2>4. VerdictsReal'
      BY <1>3, HeadDone DEF WatchReplay, Save, ReplayedStatus
    <2>5. OneWriter'
      BY <1>3 DEF WatchReplay, Save, ReplayedStatus
    <2> QED
      BY <2>1, <2>2, <2>3, <2>4, <2>5
  <1>4. CASE WatchSave(t)
    <2>1. TypeOK'
      <3>1. /\ row' \in [Tasks -> Terminal \cup {"none", "running"}]
            /\ adrift' \in SUBSET Tasks
        BY <1>4, FinishTyped DEF WatchSave
      <3>2. watch' \in [Tasks -> {"none", "connect", "live", "replay", "save"}]
        BY <1>4 DEF WatchSave, FinishTask
      <3>3. found' \in [Tasks -> Terminal \cup {"none"}]
        BY <1>4 DEF WatchSave, FinishTask
      <3>4. tries' \in [Tasks -> 0..MaxAttempts]
        BY <1>4 DEF WatchSave, FinishTask
      <3> QED
        BY <1>4, <3>1, <3>2, <3>3, <3>4 DEF WatchSave
    <2>2. ActiveIsCurrent'
      BY <1>4 DEF WatchSave, FinishTask
    <2>3. DecidedOnce'
      BY <1>4 DEF WatchSave, FinishTask
    <2>4. VerdictsReal'
      BY <1>4 DEF WatchSave, FinishTask
    <2>5. OneWriter'
      BY <1>4 DEF WatchSave, FinishTask
    <2> QED
      BY <2>1, <2>2, <2>3, <2>4, <2>5
  <1>5. CASE WatchTimeout(t)
    <2>0. UNCHANGED <<daemon, pending, submit, durable, Runtimed, restarts>>
      BY <1>5 DEF WatchTimeout
    <2>1. CASE Save(t, "failed") /\ watch[t] # "none" /\ upset' = upset \cup {t}
               /\ UNCHANGED <<tries, adrift>>
      <3>1. TypeOK'
        BY <2>0, <2>1 DEF Save
      <3>2. ActiveIsCurrent' /\ DecidedOnce' /\ OneWriter'
        BY <2>0, <2>1 DEF Save
      <3>3. VerdictsReal'
        BY <2>0, <2>1 DEF Save
      <3> QED
        BY <3>1, <3>2, <3>3
    <2>2. CASE /\ watch' = [watch EXCEPT ![t] = "none"] /\ tries' = [tries EXCEPT ![t] = 0]
               /\ adrift' = adrift \cup {t} /\ UNCHANGED <<found, upset>>
      <3>1. TypeOK'
        BY <2>0, <2>2
      <3>2. ActiveIsCurrent' /\ DecidedOnce' /\ OneWriter'
        BY <2>0, <2>2
      <3>3. VerdictsReal'
        BY <2>0, <2>2
      <3> QED
        BY <3>1, <3>2, <3>3
    <2> QED
      BY <1>5, <2>1, <2>2 DEF WatchTimeout
  <1> QED
    BY <1>1, <1>2, <1>3, <1>4, <1>5 DEF Watch

\* What a cut leaves alone: a watcher only moves to save, with a verdict that
\* is real or a failure.
CutKept ==
  /\ watch' \in [Tasks -> {"none", "connect", "live", "replay", "save"}]
  /\ found' \in [Tasks -> Terminal \cup {"none"}]
  /\ \A t \in Tasks : watch'[t] \in {watch[t], "save"}
  /\ \A t \in Tasks : watch[t] = "none" => watch'[t] = "none"
  /\ \A t \in Tasks : found'[t] \in Real => outcome[t] = found'[t]

\* A cut stream leaves its watcher with a done event of the log or a failure.
LEMMA CutKeeps ==
  ASSUME TasksInv, CutStreams
  PROVE  CutKept
  <1> DEFINE cut == {t \in Tasks : watch[t] \in {"live", "replay"}}
  <1>1. PICK read \in SUBSET {t \in cut : dones[t] # <<>>} :
          /\ watch' = [t \in Tasks |-> IF t \in cut THEN "save" ELSE watch[t]]
          /\ found' = [t \in Tasks |-> CASE t \in read -> Head(dones[t])
                                         [] t \in cut \ read -> "failed"
                                         [] OTHER -> found[t]]
    BY DEF CutStreams
  <1>2. ASSUME NEW t \in Tasks
        PROVE  /\ watch'[t] \in {"none", "connect", "live", "replay", "save"}
               /\ watch'[t] \in {watch[t], "save"}
               /\ watch[t] = "none" => watch'[t] = "none"
    <2>1. CASE t \in cut
      BY <1>1, <2>1
    <2>2. CASE t \notin cut
      BY <1>1, <2>2
    <2> QED
      BY <2>1, <2>2
  <1>3. ASSUME NEW t \in Tasks
        PROVE  /\ found'[t] \in Terminal \cup {"none"}
               /\ found'[t] \in Real => outcome[t] = found'[t]
    <2>1. CASE t \in read
      <3>1. found'[t] = Head(dones[t]) /\ dones[t] # <<>>
        BY <1>1, <2>1
      <3> QED
        BY <3>1, HeadDone
    <2>2. CASE t \in cut \ read
      BY <1>1, <2>2
    <2>3. CASE t \notin cut /\ t \notin read
      <3>1. found'[t] = found[t]
        BY <1>1, <2>3
      <3> QED
        BY <3>1
    <2> QED
      BY <2>1, <2>2, <2>3
  <1>4. /\ watch' = [t \in Tasks |-> watch'[t]]
        /\ found' = [t \in Tasks |-> found'[t]]
    BY <1>1
  <1> QED
    BY <1>2, <1>3, <1>4 DEF CutKept

\* runtimed stops, starts and recovers.
LEMMA RuntimedInv ==
  ASSUME TasksInv,
         \/ RuntimedTerm \/ RuntimedDies \/ RuntimedListens
         \/ \E t \in Tasks : Recover(t)
  PROVE  TasksInv'
  <1>1. CASE RuntimedTerm
    <2>1. CutKept
      BY <1>1, CutKeeps DEF RuntimedTerm
    <2>2. TypeOK'
      BY <1>1, <2>1 DEF RuntimedTerm, CutKept
    <2>3. ActiveIsCurrent' /\ DecidedOnce'
      BY <1>1 DEF RuntimedTerm
    <2>4. VerdictsReal'
      BY <1>1, <2>1 DEF RuntimedTerm, CutKept
    <2>5. OneWriter'
      BY <1>1, <2>1 DEF RuntimedTerm, CutKept
    <2> QED
      BY <2>2, <2>3, <2>4, <2>5
  <1>2. CASE RuntimedDies
    <2>1. /\ UNCHANGED <<daemon, pending, submit, row, sandbox, tries, ctx,
                        outcome, dones, logged, adrift>>
          /\ runtimed' = "down" /\ current' = NoTask /\ fixing' = NoTask
          /\ upset' = Tasks
          /\ run' = [t \in Tasks |-> IF run[t] \in {"none", "ended"}
                                     THEN run[t] ELSE "lost"]
      BY <1>2 DEF RuntimedDies
    <2>2. restarts' \in 0..MaxRestarts
      BY <1>2 DEF RuntimedDies
    <2>3. PICK torn \in Writing \cup {{}} :
            result' = [t \in Tasks |-> IF t \in torn THEN "torn" ELSE result[t]]
      BY <1>2, Zenon DEF RuntimedDies
    <2>4. CASE UNCHANGED <<watch, found>>
      <3>1. TypeOK'
        BY <2>1, <2>2, <2>3, <2>4
      <3>2. ActiveIsCurrent' /\ DecidedOnce'
        BY <2>1
      <3>3. VerdictsReal'
        BY <2>1, <2>3, <2>4
      <3>4. OneWriter'
        BY <2>1, <2>4
      <3> QED
        BY <3>1, <3>2, <3>3, <3>4
    <2>5. CASE CutStreams
      <3>0. CutKept
        BY <2>5, CutKeeps
      <3>1. TypeOK'
        BY <2>1, <2>2, <2>3, <3>0 DEF CutKept
      <3>2. ActiveIsCurrent' /\ DecidedOnce'
        BY <2>1
      <3>3. VerdictsReal'
        BY <2>1, <2>3, <3>0 DEF CutKept
      <3>4. OneWriter'
        BY <2>1, <3>0 DEF CutKept
      <3> QED
        BY <3>1, <3>2, <3>3, <3>4
    <2> QED
      BY <1>2, <2>4, <2>5 DEF RuntimedDies
  <1>3. CASE RuntimedListens
    BY <1>3 DEF RuntimedListens
  <1>4. ASSUME NEW t \in Tasks, RecoverResult(t)
        PROVE  TasksInv'
    BY <1>4 DEF RecoverResult, InterruptedStatus, Unfinished
  <1>5. ASSUME NEW t \in Tasks, RecoverDone(t)
        PROVE  TasksInv'
    <2>1. TypeOK'
      BY <1>5, AppendDone DEF RecoverDone, InterruptedStatus
    <2>2. ActiveIsCurrent'
      BY <1>5 DEF RecoverDone, InterruptedStatus
    <2>3. DecidedOnce'
      BY <1>5 DEF RecoverDone, InterruptedStatus
    <2>4. VerdictsReal'
      BY <1>5, AppendDone DEF RecoverDone, InterruptedStatus
    <2>5. OneWriter'
      BY <1>5 DEF RecoverDone, InterruptedStatus
    <2> QED
      BY <2>1, <2>2, <2>3, <2>4, <2>5
  <1> QED
    BY <1>1, <1>2, <1>3, <1>4, <1>5 DEF Recover

\* sandboxd restarts, reconciles and listens; the sandbox row changes.
LEMMA SandboxdInv ==
  ASSUME TasksInv,
         \/ SandboxdRestarts \/ Listen \/ MarkStopped \/ Wake
         \/ \E t \in Tasks : ReconcileTask(t)
  PROVE  TasksInv'
  <1>1. CASE SandboxdRestarts
    BY <1>1 DEF SandboxdRestarts, RunningTasks
  <1>2. CASE Listen
    BY <1>2 DEF Listen
  <1>3. CASE MarkStopped
    BY <1>3 DEF MarkStopped
  <1>4. CASE Wake
    BY <1>4 DEF Wake
  <1>5. ASSUME NEW t \in Tasks, ReconcileTask(t)
        PROVE  TasksInv'
    <2>1. TypeOK'
      <3>1. /\ row' \in [Tasks -> Terminal \cup {"none", "running"}]
            /\ adrift' \in SUBSET Tasks
        <4>1. CASE FinishTask(t, result[t]) /\ result[t] \in Terminal
          BY <4>1, FinishTyped
        <4>2. CASE FinishTask(t, "failed")
          BY <4>2, FinishTyped
        <4>3. CASE UNCHANGED <<row, adrift>>
          BY <4>3
        <4> QED
          BY <1>5, <4>1, <4>2, <4>3 DEF ReconcileTask
      <3>2. watch' \in [Tasks -> {"none", "connect", "live", "replay", "save"}]
        <4>1. CASE UNCHANGED watch
          BY <4>1
        <4>2. CASE watch' = [watch EXCEPT ![t] = "connect"]
          BY <4>2
        <4> QED
          BY <1>5, <4>1, <4>2 DEF ReconcileTask
      <3>3. upset' \in SUBSET Tasks
        BY <1>5 DEF ReconcileTask
      <3> QED
        BY <1>5, <3>1, <3>2, <3>3 DEF ReconcileTask
    <2>2. ActiveIsCurrent'
      BY <1>5 DEF ReconcileTask, FinishTask
    <2>3. DecidedOnce'
      BY <1>5 DEF ReconcileTask, FinishTask
    <2>4. VerdictsReal'
      BY <1>5 DEF ReconcileTask, FinishTask
    <2>5. OneWriter'
      BY <1>5 DEF ReconcileTask, FinishTask
    <2> QED
      BY <2>1, <2>2, <2>3, <2>4, <2>5
  <1> QED
    BY <1>1, <1>2, <1>3, <1>4, <1>5

\* Every step preserves the invariant.
LEMMA NextInv == TasksInv /\ [Next]_vars => TasksInv'
  <1> SUFFICES ASSUME TasksInv, [Next]_vars PROVE TasksInv'
    OBVIOUS
  <1>1. CASE UNCHANGED vars
    BY <1>1 DEF vars
  <1>2. CASE Next
    BY <1>2, RunTaskInv, RequestInv, WatchInv, RuntimedInv, SandboxdInv DEF Next
  <1> QED
    BY <1>1, <1>2

\* The invariant of the whole system: a verdict is decided once, by the one
\* active task, and carried into the row by one writer at a time.
THEOREM TasksInvariant == Spec => []TasksInv
  <1> QED
    BY InitInv, NextInv, PTL DEF Spec

\* startTask's check of a.task alone keeps two agents out of one checkout.
THEOREM OneAgentAtATime == Spec => []AgentsNeverOverlap
  <1>1. TasksInv => AgentsNeverOverlap
    BY DEF AgentsNeverOverlap
  <1> QED
    BY <1>1, TasksInvariant, PTL

\* What FinishTask stores as succeeded or cancelled is runTask's own verdict.
THEOREM StoredSuccess == Spec => []StoredSuccessIsReal
  <1>1. TasksInv => StoredSuccessIsReal
    BY DEF StoredSuccessIsReal
  <1> QED
    BY <1>1, TasksInvariant, PTL

\* FinishTask has no guard of its own, yet no step overwrites a verdict.
THEOREM VerdictIsFinal == Spec => TerminalRowIsFinal
  <1> DEFINE Kept == \A t \in Tasks : row[t] \in Terminal => row'[t] = row[t]
  <1>1. TasksInv /\ [Next]_vars => [Kept]_vars
    <2> SUFFICES ASSUME TasksInv, Next, NEW t \in Tasks, row[t] \in Terminal
                 PROVE  row'[t] = row[t]
      OBVIOUS
    <2>1. CASE \E u \in Tasks : SubmitCreate(u)
      BY <2>1 DEF SubmitCreate
    <2>2. CASE \E u \in Tasks : WatchSave(u)
      <3>1. PICK u \in Tasks : watch[u] = "save" /\ FinishTask(u, found[u])
        BY <2>2 DEF WatchSave
      <3>2. t # u
        BY <3>1
      <3> QED
        BY <3>1, <3>2 DEF FinishTask
    <2>3. CASE \E u \in Tasks : ReconcileTask(u)
      BY <2>3 DEF ReconcileTask, FinishTask
    <2>4. CASE UNCHANGED row
      BY <2>4
    <2> QED
      BY <2>1, <2>2, <2>3, <2>4
      DEF Next, RunTask, Recover, Watch, RunBegin, AgentEnds, ChecksEnd, EmitDone,
          SetDone, WriteResult, Deadline, RecoverResult, RecoverDone,
          SubmitRefused, SubmitStart, Cancel, WatchConnect, WatchLive,
          WatchReplay, WatchTimeout, RuntimedTerm, RuntimedDies, MarkStopped,
          Wake, RuntimedListens, SandboxdRestarts, Listen
  <1> QED
    BY <1>1, TasksInvariant, PTL DEF Spec, TerminalRowIsFinal

HIDE TasksAssumption
HIDE DEF TasksInv, TypeOK, ActiveIsCurrent, DecidedOnce, VerdictsReal, OneWriter,
         Terminal, RunSteps, Early, Active, Real, durable, watchers, files,
         memory, history, Sandboxd, Runtimed, Fault, Runs, RunStep

-----------------------------------------------------------------------------
(***************************************************************************)
(* The verdict of a task that nothing upsets                               *)
(***************************************************************************)

\* A task that was not upset: runtimed has stayed up, so that its log is there
\* from the moment it is accepted.
StaysUp ==
  \A t \in Tasks \ upset :
    /\ runtimed = "up" /\ sandbox = "running" /\ fixing = NoTask
    /\ submit[t] \in {"accepted", "told"} => t \in logged
    /\ row[t] # "none" => t \in logged
    /\ t \in logged => run[t] \notin {"none", "lost"}
    /\ t \in logged /\ current # t => run[t] \in {"finished", "ended"}
    /\ run[t] \in {"emitted", "finished", "ended"} => dones[t] # <<>>
    /\ watch[t] = "replay" => dones[t] # <<>>

\* Every place its verdict passes through holds runTask's decision.
CarriedAsDecided ==
  \A t \in Tasks \ upset :
    /\ \A s \in {row[t], found[t], result[t]} : s \in Terminal => s = outcome[t]
    /\ \A i \in 1..Len(dones[t]) : dones[t][i] = outcome[t]

VerdictInv == TasksInv /\ StaysUp /\ CarriedAsDecided

\* Initially no task has a verdict.
LEMMA VerdictInit == Init => VerdictInv
  <1>1. Init => StaysUp /\ CarriedAsDecided
    BY DEF Init, StaysUp, CarriedAsDecided, Terminal
  <1> QED
    BY <1>1, InitInv DEF VerdictInv

USE TasksAssumption
USE DEF VerdictInv, StaysUp, CarriedAsDecided, TasksInv, TypeOK, DecidedOnce,
        OneWriter, Terminal, RunSteps, Early, durable, watchers, files, memory,
        history, Sandboxd, Runtimed, Runs, RunStep

\* The goroutine of a task logs and stores the verdict it decided on.
LEMMA RunTaskCarries ==
  ASSUME VerdictInv, NEW t \in Tasks, RunTask(t) \/ Deadline(t)
  PROVE  StaysUp' /\ CarriedAsDecided'
  <1>1. CASE RunBegin(t)
    <2>1. StaysUp'
      BY <1>1 DEF RunBegin
    <2>2. CarriedAsDecided'
      BY <1>1 DEF RunBegin
    <2> QED
      BY <2>1, <2>2
  <1>2. CASE Deadline(t)
    <2>1. StaysUp'
      BY <1>2 DEF Deadline
    <2>2. CarriedAsDecided'
      BY <1>2 DEF Deadline
    <2> QED
      BY <2>1, <2>2
  <1>3. CASE AgentEnds(t)
    <2>1. StaysUp'
      BY <1>3 DEF AgentEnds, Verdicts
    <2>2. CarriedAsDecided'
      <3>1. /\ UNCHANGED <<row, found, result, dones, upset>>
            /\ \A u \in Tasks : u # t => outcome'[u] = outcome[u]
            /\ outcome[t] = "none"
        BY <1>3 DEF AgentEnds
      <3>2. t \notin upset => /\ row[t] \notin Terminal /\ found[t] \notin Terminal
                             /\ result[t] \notin Terminal
        BY <3>1
      <3>3. t \notin upset => \A i \in 1..Len(dones[t]) : FALSE
        <4>1. ASSUME NEW i \in 1..Len(dones[t]), t \notin upset
              PROVE  FALSE
          <5>1. dones[t][i] \in Terminal
            BY <4>1
          <5>2. dones[t][i] = outcome[t]
            BY <4>1
          <5> QED
            BY <3>1, <5>1, <5>2
        <4> QED
          BY <4>1
      <3>4. ASSUME NEW u \in Tasks \ upset, u # t
            PROVE  /\ \A s \in {row[u], found[u], result[u]} : s \in Terminal => s = outcome[u]
                   /\ \A i \in 1..Len(dones[u]) : dones[u][i] = outcome[u]
        OBVIOUS
      <3> QED
        BY <3>1, <3>2, <3>3, <3>4
    <2> QED
      BY <2>1, <2>2
  <1>4. CASE ChecksEnd(t)
    <2>1. StaysUp'
      BY <1>4 DEF ChecksEnd
    <2>2. CarriedAsDecided'
      BY <1>4 DEF ChecksEnd
    <2> QED
      BY <2>1, <2>2
  <1>5. CASE EmitDone(t)
    <2>1. StaysUp'
      <3>1. dones'[t] # <<>>
        <4>1. dones'[t] = Append(dones[t], outcome[t])
          BY <1>5 DEF EmitDone
        <4>2. dones[t] \in Seq(Terminal) /\ outcome[t] \in Terminal
          BY <1>5 DEF EmitDone
        <4>3. Append(dones[t], outcome[t]) # <<>>
          BY ONLY <4>2, AppendNotEmpty
        <4> QED
          BY ONLY <4>1, <4>3
      <3>2. \A u \in Tasks : u # t => dones'[u] = dones[u] /\ run'[u] = run[u]
        BY <1>5 DEF EmitDone
      <3>3. /\ run[t] = "emit" /\ run'[t] = "emitted"
            /\ UNCHANGED <<runtimed, sandbox, fixing, submit, row, logged, watch,
                          current, upset>>
        BY <1>5 DEF EmitDone
      <3>4. ASSUME NEW u \in Tasks \ upset, u # t
            PROVE  /\ u \in logged => run'[u] \notin {"none", "lost"}
                   /\ u \in logged /\ current # u => run'[u] \in {"finished", "ended"}
                   /\ run'[u] \in {"emitted", "finished", "ended"} => dones'[u] # <<>>
                   /\ watch[u] = "replay" => dones'[u] # <<>>
        <4>1. run'[u] = run[u] /\ dones'[u] = dones[u]
          BY <3>2, <3>4
        <4> QED
          BY <4>1
      <3>5. t \in logged /\ t \notin upset => current = t
        BY <3>3
      <3>6. \A u \in Tasks \ upset :
              /\ runtimed = "up" /\ sandbox = "running" /\ fixing = NoTask
              /\ submit[u] \in {"accepted", "told"} => u \in logged
              /\ row[u] # "none" => u \in logged
        OBVIOUS
      <3> HIDE DEF VerdictInv
      <3> QED
        BY <3>1, <3>3, <3>4, <3>5, <3>6
    <2>2. CarriedAsDecided'
      BY <1>5 DEF EmitDone
    <2> QED
      BY <2>1, <2>2
  <1>6. CASE SetDone(t)
    <2>1. StaysUp'
      BY <1>6 DEF SetDone
    <2>2. CarriedAsDecided'
      BY <1>6 DEF SetDone
    <2> QED
      BY <2>1, <2>2
  <1>7. CASE WriteResult(t)
    <2>1. StaysUp'
      BY <1>7 DEF WriteResult
    <2>2. CarriedAsDecided'
      BY <1>7 DEF WriteResult
    <2> QED
      BY <2>1, <2>2
  <1> QED
    BY <1>1, <1>2, <1>3, <1>4, <1>5, <1>6, <1>7 DEF RunTask

\* Submit and cancel: a task that was accepted has a log.
LEMMA RequestCarries ==
  ASSUME VerdictInv, NEW t \in Tasks, SubmitRefused(t) \/ SubmitStart(t) \/ SubmitCreate(t) \/ Cancel(t)
  PROVE  StaysUp' /\ CarriedAsDecided'
  <1>1. CASE SubmitRefused(t)
    <2>1. StaysUp'
      BY <1>1 DEF SubmitRefused
    <2>2. CarriedAsDecided'
      BY <1>1 DEF SubmitRefused
    <2> QED
      BY <2>1, <2>2
  <1>2. CASE SubmitStart(t)
    <2>1. StaysUp'
      BY <1>2 DEF SubmitStart, Busy
    <2>2. CarriedAsDecided'
      BY <1>2 DEF SubmitStart, Busy
    <2> QED
      BY <2>1, <2>2
  <1>3. CASE SubmitCreate(t)
    <2>1. StaysUp'
      BY <1>3 DEF SubmitCreate
    <2>2. CarriedAsDecided'
      <3>1. \A u \in Tasks : row'[u] = row[u] \/ row'[u] = "running"
        BY <1>3 DEF SubmitCreate
      <3>2. UNCHANGED <<found, result, dones, outcome, upset>>
        BY <1>3 DEF SubmitCreate
      <3>3. ASSUME NEW u \in Tasks \ upset
            PROVE  row'[u] \in Terminal => row'[u] = outcome[u]
        <4>1. row[u] \in Terminal => row[u] = outcome[u]
          OBVIOUS
        <4> QED
          BY <3>1, <4>1
      <3>4. ASSUME NEW u \in Tasks \ upset
            PROVE  /\ found[u] \in Terminal => found[u] = outcome[u]
                   /\ result[u] \in Terminal => result[u] = outcome[u]
                   /\ \A i \in 1..Len(dones[u]) : dones[u][i] = outcome[u]
        OBVIOUS
      <3> QED
        BY <3>2, <3>3, <3>4
    <2> QED
      BY <2>1, <2>2
  <1>4. CASE Cancel(t)
    <2>1. StaysUp'
      BY <1>4 DEF Cancel
    <2>2. CarriedAsDecided'
      BY <1>4 DEF Cancel
    <2> QED
      BY <2>1, <2>2
  <1> QED
    BY <1>1, <1>2, <1>3, <1>4

\* The watcher of a task that is not upset always finds its log.
LEMMA WatchCarries ==
  ASSUME VerdictInv, NEW t \in Tasks, Watch(t) \/ WatchTimeout(t)
  PROVE  StaysUp' /\ CarriedAsDecided'
  <1>1. CASE WatchConnect(t)
    <2>1. StaysUp'
      BY <1>1 DEF WatchConnect, Save
    <2>2. CarriedAsDecided'
      <3>1. t \notin upset => runtimed = "up" /\ t \in logged
        BY <1>1 DEF WatchConnect
      <3>2. t \notin upset => UNCHANGED found
        BY <1>1, <3>1 DEF WatchConnect
      <3>3. \A u \in Tasks : u # t => found'[u] = found[u]
        BY <1>1 DEF WatchConnect, Save
      <3>4. UNCHANGED <<row, result, dones, outcome, upset>>
        BY <1>1 DEF WatchConnect
      <3>5. \A u \in Tasks \ upset : found'[u] = found[u]
        BY <3>2, <3>3
      <3> QED
        BY <3>4, <3>5
    <2> QED
      BY <2>1, <2>2
  <1>2. CASE WatchLive(t)
    <2>1. StaysUp'
      BY <1>2 DEF WatchLive, Save
    <2>2. CarriedAsDecided'
      BY <1>2, HeadDone DEF WatchLive, Save
    <2> QED
      BY <2>1, <2>2
  <1>3. CASE WatchReplay(t)
    <2>1. StaysUp'
      BY <1>3 DEF WatchReplay, Save, ReplayedStatus
    <2>2. CarriedAsDecided'
      BY <1>3, HeadDone DEF WatchReplay, Save, ReplayedStatus
    <2> QED
      BY <2>1, <2>2
  <1>4. CASE WatchSave(t)
    <2>1. StaysUp'
      BY <1>4 DEF WatchSave, FinishTask
    <2>2. CarriedAsDecided'
      BY <1>4 DEF WatchSave, FinishTask
    <2> QED
      BY <2>1, <2>2
  <1>5. CASE WatchTimeout(t)
    <2>1. StaysUp'
      BY <1>5 DEF WatchTimeout, Save
    <2>2. CarriedAsDecided'
      BY <1>5 DEF WatchTimeout, Save
    <2> QED
      BY <2>1, <2>2
  <1> QED
    BY <1>1, <1>2, <1>3, <1>4, <1>5 DEF Watch

\* Recovery needs a stopped runtimed; the boot reconciler reads result.json.
LEMMA OtherCarries ==
  ASSUME VerdictInv, NEW t \in Tasks, Recover(t) \/ ReconcileTask(t)
  PROVE  StaysUp' /\ CarriedAsDecided'
  <1>1. CASE RecoverResult(t)
    <2>1. StaysUp'
      BY <1>1 DEF RecoverResult
    <2>2. CarriedAsDecided'
      BY <1>1 DEF RecoverResult
    <2> QED
      BY <2>1, <2>2
  <1>2. CASE RecoverDone(t)
    <2>1. StaysUp'
      BY <1>2 DEF RecoverDone
    <2>2. CarriedAsDecided'
      BY <1>2 DEF RecoverDone
    <2> QED
      BY <2>1, <2>2
  <1>3. CASE ReconcileTask(t)
    <2>1. StaysUp'
      BY <1>3 DEF ReconcileTask, FinishTask
    <2>2. CarriedAsDecided'
      BY <1>3 DEF ReconcileTask, FinishTask
    <2> QED
      BY <2>1, <2>2
  <1> QED
    BY <1>1, <1>2, <1>3 DEF Recover

\* Restarts: one of runtimed upsets every task, one of sandboxd none.
LEMMA ProcessCarries ==
  ASSUME VerdictInv,
         \/ RuntimedTerm \/ RuntimedDies \/ MarkStopped \/ Wake
         \/ RuntimedListens \/ SandboxdRestarts \/ Listen
  PROVE  StaysUp' /\ CarriedAsDecided'
  <1>1. CASE RuntimedTerm \/ RuntimedDies
    <2>1. Tasks \ upset' = {}
      BY <1>1 DEF RuntimedTerm, RuntimedDies
    <2> QED
      BY <2>1
  <1>2. CASE MarkStopped \/ Wake \/ RuntimedListens
    <2>1. Tasks \ upset' = {}
      BY <1>2 DEF MarkStopped, Wake, RuntimedListens
    <2> QED
      BY <2>1
  <1>3. CASE SandboxdRestarts
    <2>1. StaysUp'
      BY <1>3 DEF SandboxdRestarts
    <2>2. CarriedAsDecided'
      BY <1>3 DEF SandboxdRestarts
    <2> QED
      BY <2>1, <2>2
  <1>4. CASE Listen
    BY <1>4 DEF Listen
  <1> QED
    BY <1>1, <1>2, <1>3, <1>4

HIDE TasksAssumption
HIDE DEF VerdictInv, StaysUp, CarriedAsDecided, TasksInv, TypeOK, DecidedOnce,
         OneWriter, Terminal, RunSteps, Early, durable, watchers, files, memory,
         history, Sandboxd, Runtimed, Runs, RunStep

\* The verdict is carried as decided, at every step.
THEOREM VerdictInvariant == Spec => []VerdictInv
  <1>1. VerdictInv /\ [Next]_vars => VerdictInv'
    <2> SUFFICES ASSUME VerdictInv, [Next]_vars PROVE VerdictInv'
      OBVIOUS
    <2>1. TasksInv'
      BY NextInv DEF VerdictInv
    <2>2. CASE UNCHANGED vars
      BY <2>1, <2>2 DEF VerdictInv, StaysUp, CarriedAsDecided, vars
    <2>3. CASE Next
      BY <2>1, <2>3, RunTaskCarries, RequestCarries, WatchCarries, OtherCarries,
         ProcessCarries DEF VerdictInv, Next
    <2> QED
      BY <2>2, <2>3
  <1> QED
    BY <1>1, VerdictInit, PTL DEF Spec

\* As long as runtimed stays up and the watcher does not time out, what ends up
\* in the row is runTask's verdict, wherever sandboxd restarts.
THEOREM VerdictSurvives == Spec => []VerdictSurvivesRestart
  <1>1. VerdictInv => VerdictSurvivesRestart
    BY DEF VerdictInv, CarriedAsDecided, VerdictSurvivesRestart
  <1> QED
    BY <1>1, VerdictInvariant, PTL

-----------------------------------------------------------------------------
(***************************************************************************)
(* Somebody finishes a running row                                         *)
(***************************************************************************)

\* A row left to the next boot stays in running until then.
AdriftRuns == \A t \in adrift : row[t] = "running"

WatchedInv == TasksInv /\ RunningRowIsWatched /\ AdriftRuns

USE TasksAssumption
USE DEF WatchedInv, RunningRowIsWatched, AdriftRuns, TasksInv, TypeOK, OneWriter,
        durable, watchers, files, memory, history, Sandboxd, Runtimed, Terminal

\* The watcher keeps the row until it has stored a verdict, or is listed adrift.
LEMMA WatcherHolds ==
  ASSUME WatchedInv, NEW t \in Tasks, Watch(t) \/ WatchTimeout(t)
  PROVE  RunningRowIsWatched' /\ AdriftRuns'
  <1>0. watch[t] # "none" /\ row[t] = "running" /\ t \notin pending /\ t \notin adrift
    BY DEF Watch, WatchConnect, WatchLive, WatchReplay, WatchSave, WatchTimeout
  <1>1. CASE WatchSave(t)
    <2>1. /\ watch' = [watch EXCEPT ![t] = "none"] /\ UNCHANGED pending
          /\ FinishTask(t, found[t])
      BY <1>1 DEF WatchSave
    <2>2. CASE row' = [row EXCEPT ![t] = found[t]] /\ UNCHANGED adrift /\ found[t] # "none"
      BY <1>0, <2>1, <2>2
    <2>3. CASE row' = [row EXCEPT ![t] = found[t]] /\ UNCHANGED adrift /\ found[t] = "none"
      BY <1>0, <2>1, <2>3
    <2>4. CASE adrift' = adrift \cup {t} /\ UNCHANGED row
      BY <1>0, <2>1, <2>4
    <2> QED
      BY <1>0, <2>1, <2>2, <2>3, <2>4 DEF FinishTask
  <1>2. CASE WatchConnect(t)
    <2>1. UNCHANGED <<row, pending, adrift>> /\ \A u \in Tasks : u # t => watch'[u] = watch[u]
      BY <1>2 DEF WatchConnect, Save
    <2>2. watch'[t] # "none"
      BY <1>2, <1>0 DEF WatchConnect, Save
    <2> QED
      BY <1>0, <2>1, <2>2
  <1>3. CASE WatchLive(t) \/ WatchReplay(t)
    BY <1>0, <1>3 DEF WatchLive, WatchReplay, Save
  <1>4. CASE WatchTimeout(t)
    <2>1. UNCHANGED <<row, pending>>
      BY <1>4 DEF WatchTimeout
    <2>2. CASE Save(t, "failed") /\ UNCHANGED adrift
      BY <1>0, <2>1, <2>2 DEF Save
    <2>3. CASE watch' = [watch EXCEPT ![t] = "none"] /\ adrift' = adrift \cup {t}
      BY <1>0, <2>1, <2>3
    <2> QED
      BY <1>4, <2>2, <2>3 DEF WatchTimeout
  <1> QED
    BY <1>1, <1>2, <1>3, <1>4 DEF Watch

\* A running row gets a watcher with it, or is listed adrift.
LEMMA CreateHolds ==
  ASSUME WatchedInv, NEW t \in Tasks, SubmitCreate(t)
  PROVE  RunningRowIsWatched' /\ AdriftRuns'
  <1>1. /\ row[t] = "none" /\ watch[t] = "none" /\ t \notin pending /\ t \notin adrift
        /\ UNCHANGED pending
    BY DEF SubmitCreate
  <1>2. CASE /\ row' = [row EXCEPT ![t] = "running"]
             /\ watch' = [watch EXCEPT ![t] = "connect"] /\ UNCHANGED adrift
    BY <1>1, <1>2
  <1>3. CASE /\ row' = [row EXCEPT ![t] = "running"]
             /\ adrift' = adrift \cup {t} /\ UNCHANGED watch
    BY <1>1, <1>3
  <1>4. CASE UNCHANGED <<row, adrift, watch>>
    BY <1>1, <1>4
  <1> QED
    BY <1>2, <1>3, <1>4 DEF SubmitCreate

\* The boot reconciler finishes a row, hands it to a watcher or leaves it.
LEMMA BootHolds ==
  ASSUME WatchedInv, NEW t \in Tasks, ReconcileTask(t)
  PROVE  RunningRowIsWatched' /\ AdriftRuns'
  <1>1. /\ row[t] = "running" /\ watch[t] = "none" /\ t \in pending /\ t \notin adrift
        /\ pending' = pending \ {t}
    BY DEF ReconcileTask
  <1>2. ASSUME NEW s \in Terminal, FinishTask(t, s), UNCHANGED watch
        PROVE  RunningRowIsWatched' /\ AdriftRuns'
    <2>1. CASE row' = [row EXCEPT ![t] = s] /\ UNCHANGED adrift
      BY <1>1, <1>2, <2>1
    <2>2. CASE adrift' = adrift \cup {t} /\ UNCHANGED row
      BY <1>1, <1>2, <2>2
    <2> QED
      BY <1>1, <1>2, <2>1, <2>2 DEF FinishTask
  <1>3. CASE watch' = [watch EXCEPT ![t] = "connect"] /\ UNCHANGED <<row, adrift>>
    BY <1>1, <1>3
  <1> QED
    BY <1>2, <1>3 DEF ReconcileTask

\* The other steps leave the row and its writer where they are.
LEMMA OthersHold ==
  ASSUME WatchedInv,
         UNCHANGED <<row, watch, pending, adrift>> \/ SandboxdRestarts
           \/ RuntimedTerm \/ RuntimedDies
  PROVE  RunningRowIsWatched' /\ AdriftRuns'
  <1>1. CASE UNCHANGED <<row, watch, pending, adrift>>
    BY <1>1
  <1>2. CASE SandboxdRestarts
    BY <1>2 DEF SandboxdRestarts, RunningTasks
  <1>3. CASE RuntimedTerm \/ RuntimedDies
    <2>1. UNCHANGED <<row, pending, adrift>>
      BY <1>3 DEF RuntimedTerm, RuntimedDies
    <2>2. CASE UNCHANGED watch
      BY <2>1, <2>2
    <2>3. CASE CutStreams
      BY <2>1, <2>3, CutKeeps DEF CutKept
    <2> QED
      BY <1>3, <2>2, <2>3 DEF RuntimedTerm, RuntimedDies
  <1> QED
    BY <1>1, <1>2, <1>3

HIDE TasksAssumption
HIDE DEF WatchedInv, RunningRowIsWatched, AdriftRuns, TasksInv, TypeOK, OneWriter,
         Terminal

\* A row in running has one watcher, or is on the boot reconciler's list, or was
\* left to the next boot by a watcher whose context ended while it connected or
\* by a store call that failed; whatever faults the constants allow.
THEOREM RunningIsWatched == Spec => []RunningRowIsWatched
  <1>1. Init => WatchedInv
    BY InitInv DEF Init, WatchedInv, RunningRowIsWatched, AdriftRuns
  <1>2. WatchedInv /\ [Next]_vars => WatchedInv'
    <2> SUFFICES ASSUME WatchedInv, [Next]_vars PROVE WatchedInv'
      OBVIOUS
    <2>0. TasksInv'
      BY NextInv DEF WatchedInv
    <2>1. ASSUME NEW t \in Tasks,
                 RunTask(t) \/ Deadline(t) \/ Recover(t) \/ SubmitRefused(t)
                   \/ SubmitStart(t) \/ Cancel(t)
          PROVE  UNCHANGED <<row, watch, pending, adrift>>
      BY <2>1 DEF RunTask, RunBegin, AgentEnds, ChecksEnd, EmitDone, SetDone,
                  WriteResult, Deadline, Recover, RecoverResult, RecoverDone,
                  SubmitRefused, SubmitStart, Cancel
    <2>2. MarkStopped \/ Wake \/ RuntimedListens \/ Listen
            => UNCHANGED <<row, watch, pending, adrift>>
      BY DEF MarkStopped, Wake, RuntimedListens, Listen
    <2>3. UNCHANGED vars => UNCHANGED <<row, watch, pending, adrift>>
      BY DEF vars
    <2> QED
      BY <2>0, <2>1, <2>2, <2>3, WatcherHolds, CreateHolds, BootHolds, OthersHold
      DEF WatchedInv, Next
  <1>3. WatchedInv => RunningRowIsWatched
    BY DEF WatchedInv
  <1> QED
    BY <1>1, <1>2, <1>3, PTL DEF Spec

=============================================================================
