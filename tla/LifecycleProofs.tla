--------------------------- MODULE LifecycleProofs --------------------------
(***************************************************************************)
(* Proofs about Lifecycle for any sets of sandboxes and workers, any       *)
(* choice of operations and any combination of faults.                     *)
(***************************************************************************)
EXTENDS Lifecycle, FiniteSetTheorems, TLAPS

\* Storing a Boolean keeps a Boolean-valued function one.
LEMMA BooleanUpdate ==
  ASSUME NEW f \in [Workers -> BOOLEAN], NEW w \in Workers, NEW b \in BOOLEAN
  PROVE  [f EXCEPT ![w] = b] \in [Workers -> BOOLEAN]
  OBVIOUS

\* The leader's answer is well typed, sends it to w_unlock and touches nothing
\* else of the worker.
LEMMA AnswerTyped ==
  ASSUME TypeOK, NEW w \in Workers, NEW v \in Verdicts, WakeAnswer(w, v)
  PROVE  /\ wferr' \in [Workers -> BOOLEAN]
         /\ verdict' \in [Workers -> Verdicts]
         /\ pc' = [pc EXCEPT ![w] = "w_unlock"]
  <1>1. (v = "failed") \in BOOLEAN
    OBVIOUS
  <1>2. wferr' \in [Workers -> BOOLEAN]
    BY <1>1, BooleanUpdate, Zenon DEF TypeOK, WakeAnswer
  <1>3. verdict' \in [Workers -> Verdicts]
    BY DEF TypeOK, WakeAnswer
  <1>4. pc' = [pc EXCEPT ![w] = "w_unlock"]
    BY DEF WakeAnswer, Goto
  <1> QED
    BY <1>2, <1>3, <1>4

\* The invariant holds in the initial states.
LEMMA InitInv == Init => LifecycleInv
  <1> SUFFICES ASSUME Init PROVE LifecycleInv
    OBVIOUS
  <1> USE ConstantsAssumption
  <1>1. TypeOK
    BY DEF Init, TypeOK, QuietStates, Statuses, CtrStates, Steps, Verdicts
  <1>2. StepsFit
    BY DEF Init, StepsFit, CreateSteps, WakeSteps, LockedSteps, LockWaits,
           AdmitSteps, StopSteps
  <1>3. LockIsHeldInside /\ MapNamesLeader /\ NoAbandonedRider
    BY DEF Init, LockIsHeldInside, MapNamesLeader, NoAbandonedRider,
           InLockedSection, IsLeader, LockedSteps, WakeSteps, AdmitSteps,
           StopSteps
  <1> QED
    BY <1>1, <1>2, <1>3 DEF LifecycleInv

\* The lemmas on single steps all argue from the invariant, about which step
\* belongs to which operation and which section.
USE ConstantsAssumption
USE DEF LifecycleInv, TypeOK, StepsFit, LockIsHeldInside, MapNamesLeader,
        NoAbandonedRider, InLockedSection, IsLeader, CreateSteps, StopSteps,
        AdmitSteps, WakeSteps, LockedSteps, LockWaits, Steps, Statuses,
        CtrStates, Verdicts, OpNames, Goto, SetStatus, locals, boot, dedup

\* A leader that answers inside its locked section keeps the invariant.
LEMMA AnswerInv ==
  ASSUME LifecycleInv, NEW w \in Workers, NEW v \in Verdicts, WakeAnswer(w, v),
         InLockedSection(w), op[w] = "wake",
         row' \in [Ids -> Statuses], ctr' \in [Ids -> CtrStates],
         UNCHANGED <<lock, dedup, op, arg, victim, queue, boot>>
  PROVE  LifecycleInv'
  <1>1. /\ wferr' \in [Workers -> BOOLEAN]
        /\ verdict' \in [Workers -> Verdicts]
        /\ pc' = [pc EXCEPT ![w] = "w_unlock"]
    BY AnswerTyped DEF LifecycleInv
  <1> QED
    BY <1>1

\* The steps of a wake.
LEMMA WakeStepInv ==
  ASSUME LifecycleInv, NEW w \in Workers, WakeStep(w)
  PROVE  LifecycleInv'
  <1> DEFINE Answers == \E v \in Verdicts : WakeAnswer(w, v)
             Typed == row' \in [Ids -> Statuses] /\ ctr' \in [Ids -> CtrStates]
  <1>0. ASSUME Answers, Typed, pc[w] \in WakeSteps, InLockedSection(w),
               UNCHANGED <<lock, dedup, op, arg, victim, queue, boot>>
        PROVE  LifecycleInv'
    BY <1>0, AnswerInv
  <1>1. CASE WakeLock(w)
    BY <1>1 DEF WakeLock, LockId
  <1>2. CASE WakeGet(w)
    <2>1. Typed
      BY <1>2 DEF WakeGet
    <2>2. CASE Answers
      BY <1>0, <1>2, <2>1, <2>2 DEF WakeGet
    <2>3. CASE Goto(w, "a_first") /\ UNCHANGED <<verdict, wferr>>
      BY <1>2, <2>1, <2>3 DEF WakeGet
    <2> QED
      BY <1>2, <2>2, <2>3 DEF WakeGet
  <1>3. CASE WakeStart(w)
    <2>1. Typed
      BY <1>3 DEF WakeStart
    <2>2. CASE Answers
      BY <1>0, <1>3, <2>1, <2>2 DEF WakeStart
    <2>3. CASE Goto(w, "w_inspect") /\ UNCHANGED <<verdict, wferr>>
      BY <1>3, <2>1, <2>3 DEF WakeStart
    <2> QED
      BY <1>3, <2>2, <2>3 DEF WakeStart
  <1>4. CASE WakeInspect(w)
    <2>1. Typed
      BY <1>4 DEF WakeInspect
    <2>2. CASE Answers
      BY <1>0, <1>4, <2>1, <2>2 DEF WakeInspect
    <2>3. CASE Goto(w, "w_mark") /\ UNCHANGED <<verdict, wferr>>
      BY <1>4, <2>1, <2>3 DEF WakeInspect
    <2> QED
      BY <1>4, <2>2, <2>3 DEF WakeInspect
  <1>5. CASE MarkRunningWoke(w)
    <2>1. Typed
      BY <1>5 DEF MarkRunningWoke
    <2>2. Answers
      BY <1>5 DEF MarkRunningWoke
    <2> QED
      BY <1>0, <1>5, <2>1, <2>2 DEF MarkRunningWoke
  <1>6. CASE WakeUnlock(w)
    BY <1>6 DEF WakeUnlock
  <1>7. CASE WakeLeave(w)
    BY <1>7 DEF WakeLeave
  <1>8. CASE WakeClose(w)
    BY <1>8 DEF WakeClose, Riders, RiderVerdict
  <1> QED
    BY <1>1, <1>2, <1>3, <1>4, <1>5, <1>6, <1>7, <1>8 DEF WakeStep

\* An operation that holds nothing returns.
LEMMA ReturnInv ==
  ASSUME LifecycleInv, NEW w \in Workers, Return(w),
         op[w] \notin {"none", "wake"}, ~InLockedSection(w),
         row' \in [Ids -> Statuses], ctr' \in [Ids -> CtrStates],
         UNCHANGED <<lock, dedup, verdict, boot>>
  PROVE  LifecycleInv'
  <1> QED
    BY DEF Return

\* An operation returns and its deferred Unlock runs.
LEMMA ReturnUnlockingInv ==
  ASSUME LifecycleInv, NEW w \in Workers, ReturnUnlocking(w),
         op[w] \in {"delete", "purge", "snapshot"}, InLockedSection(w),
         row' \in [Ids -> Statuses], ctr' \in [Ids -> CtrStates],
         UNCHANGED <<dedup, verdict, boot>>
  PROVE  LifecycleInv'
  <1> USE DEF ReturnUnlocking, Return
  <1>1. TypeOK'
    OBVIOUS
  <1>2. StepsFit'
    OBVIOUS
  <1>3. LockIsHeldInside'
    <2> SUFFICES ASSUME NEW o \in Workers, NEW i \in Ids
                 PROVE  (lock[i] = o <=> InLockedSection(o) /\ arg[o] = i)'
      OBVIOUS
    <2>1. CASE o = w
      BY <2>1
    <2>2. CASE o # w
      BY <2>2
    <2> QED
      BY <2>1, <2>2
  <1>4. MapNamesLeader' /\ NoAbandonedRider'
    OBVIOUS
  <1> QED
    BY <1>1, <1>2, <1>3, <1>4

\* A worker moves on to another step of the same operation, on the same side
\* of the lock.
LEMMA MoveInv ==
  ASSUME LifecycleInv, NEW w \in Workers, NEW t \in Steps, Goto(w, t),
         pc[w] \notin {"idle", "w_ride"},
         \/ op[w] = "create" /\ t \in CreateSteps \cup AdmitSteps \cup {"t_list"}
         \/ /\ op[w] = "wake" /\ InLockedSection(w)
            /\ t \in AdmitSteps \cup {"t_list", "w_start", "w_unlock"}
         \/ /\ op[w] \in {"delete", "purge", "snapshot"} /\ InLockedSection(w)
            /\ t \in LockedSteps
         \/ /\ op[w] # "none" /\ pc[w] \in StopSteps /\ t \in {"s_stop", "s_mark"}
            /\ victim'[w] \in Ids
         \/ op[w] = "idle" /\ pc[w] \in StopSteps /\ t = "i_next"
         \/ /\ op[w] \in {"create", "wake"} /\ pc[w] \in StopSteps
            /\ t = "a_second",
         row' \in [Ids -> Statuses], ctr' \in [Ids -> CtrStates],
         victim' \in [Workers -> Ids \cup {NoId}],
         \A o \in Workers : o # w => victim'[o] = victim[o],
         queue' \in [Workers -> SUBSET Ids],
         wferr' \in [Workers -> BOOLEAN],
         verdict' \in [Workers -> Verdicts],
         UNCHANGED <<lock, dedup, op, arg, boot>>
  PROVE  LifecycleInv'
  <1>1. TypeOK'
    OBVIOUS
  <1>2. StepsFit'
    OBVIOUS
  <1>3. LockIsHeldInside'
    OBVIOUS
  <1>4. MapNamesLeader' /\ NoAbandonedRider'
    OBVIOUS
  <1> QED
    BY <1>1, <1>2, <1>3, <1>4

\* A stopper is done with its victim, whatever started it.
LEMMA StopperDoneInv ==
  ASSUME LifecycleInv, NEW w \in Workers, StopperDone(w),
         pc[w] \in StopSteps \ {"i_next"},
         row' \in [Ids -> Statuses], ctr' \in [Ids -> CtrStates],
         UNCHANGED <<lock, dedup, verdict, boot>>
  PROVE  LifecycleInv'
  <1>1. CASE op[w] \in {"stop", "pressure"}
    <2>1. Return(w)
      BY <1>1 DEF StopperDone
    <2> QED
      BY <1>1, <2>1, ReturnInv
  <1>2. CASE op[w] = "idle"
    <2>1. /\ victim' = [victim EXCEPT ![w] = NoId]
          /\ Goto(w, "i_next")
          /\ UNCHANGED <<op, arg, queue, wferr>>
      BY <1>2 DEF StopperDone
    <2>2. /\ victim' \in [Workers -> Ids \cup {NoId}]
          /\ \A o \in Workers : o # w => victim'[o] = victim[o]
          /\ queue' \in [Workers -> SUBSET Ids]
          /\ wferr' \in [Workers -> BOOLEAN]
          /\ verdict' \in [Workers -> Verdicts]
      BY <2>1
    <2>3. "i_next" \in Steps
      OBVIOUS
    <2> HIDE DEF LifecycleInv, TypeOK, Goto, StepsFit, LockIsHeldInside,
             MapNamesLeader, NoAbandonedRider, Steps, Verdicts, Statuses,
             CtrStates
    <2> QED
      BY <1>2, <2>1, <2>2, <2>3, MoveInv
  <1>3. CASE op[w] \in {"create", "wake"}
    <2>1. /\ victim' = [victim EXCEPT ![w] = NoId]
          /\ Goto(w, "a_second")
          /\ UNCHANGED <<op, arg, queue, wferr>>
      BY <1>3 DEF StopperDone
    <2>2. /\ victim' \in [Workers -> Ids \cup {NoId}]
          /\ \A o \in Workers : o # w => victim'[o] = victim[o]
          /\ queue' \in [Workers -> SUBSET Ids]
          /\ wferr' \in [Workers -> BOOLEAN]
          /\ verdict' \in [Workers -> Verdicts]
      BY <2>1
    <2>3. "a_second" \in Steps
      OBVIOUS
    <2> HIDE DEF LifecycleInv, TypeOK, Goto, StepsFit, LockIsHeldInside,
             MapNamesLeader, NoAbandonedRider, Steps, Verdicts, Statuses,
             CtrStates
    <2> QED
      BY <1>3, <2>1, <2>2, <2>3, MoveInv
  <1> QED
    BY <1>1, <1>2, <1>3

\* Admission, in a create or in a wake.
LEMMA AdmitStepInv ==
  ASSUME LifecycleInv, NEW w \in Workers, AdmitStep(w)
  PROVE  LifecycleInv'
  <1>1. CASE AdmitOk(w)
    BY <1>1 DEF AdmitOk, Skip
  <1>2. CASE AdmitDenied(w)
    <2>1. CASE op[w] = "create"
      BY <1>2, <2>1, ReturnInv DEF AdmitDenied
    <2>2. CASE op[w] = "wake"
      BY <1>2, <2>2 DEF AdmitDenied
    <2> QED
      BY <1>2, <2>1, <2>2 DEF AdmitDenied
  <1>3. CASE AdmitError(w)
    <2>1. CASE op[w] = "create"
      BY <1>3, <2>1 DEF AdmitError
    <2>2. CASE op[w] = "wake"
      <3>1. /\ verdict' = [verdict EXCEPT ![w] = "failed"]
            /\ wferr' = [wferr EXCEPT ![w] = TRUE]
            /\ Goto(w, "w_unlock")
            /\ UNCHANGED <<row, ctr, lock, dedup, op, arg, victim, queue, boot>>
        BY <1>3, <2>2 DEF AdmitError
      <3>2. WakeAnswer(w, "failed")
        BY <3>1 DEF WakeAnswer
      <3>3. InLockedSection(w) /\ "failed" \in Verdicts
        BY <1>3, <2>2 DEF AdmitError
      <3>4. row' \in [Ids -> Statuses] /\ ctr' \in [Ids -> CtrStates]
        BY <3>1
      <3> HIDE DEF LifecycleInv, TypeOK, Goto, StepsFit, LockIsHeldInside,
               MapNamesLeader, NoAbandonedRider, Steps, Verdicts, Statuses,
               CtrStates
      <3> QED
        BY <2>2, <3>1, <3>2, <3>3, <3>4, AnswerInv
    <2> QED
      BY <1>3, <2>1, <2>2 DEF AdmitError
  <1>4. CASE AdmitTick(w)
    BY <1>4 DEF AdmitTick, Skip
  <1> QED
    BY <1>1, <1>2, <1>3, <1>4 DEF AdmitStep

\* Stop, idle tick and pressure tick, the latter also inside admission.
LEMMA StopStepInv ==
  ASSUME LifecycleInv, NEW w \in Workers, StopStep(w)
  PROVE  LifecycleInv'
  <1>1. CASE IdleNext(w)
    <2>1. CASE Return(w)
      BY <1>1, <2>1, ReturnInv DEF IdleNext
    <2>2. ASSUME NEW i \in queue[w],
                 queue' = [queue EXCEPT ![w] = @ \ {i}],
                 \/ victim' = [victim EXCEPT ![w] = i] /\ Goto(w, "s_stop")
                 \/ UNCHANGED <<victim, pc>>,
                 UNCHANGED <<op, arg, wferr>>
          PROVE  LifecycleInv'
      <3>1. i \in Ids /\ queue' \in [Workers -> SUBSET Ids]
        BY <2>2
      <3>2. CASE UNCHANGED <<victim, pc>>
        BY <1>1, <2>2, <3>1, <3>2 DEF IdleNext
      <3>3. CASE victim' = [victim EXCEPT ![w] = i] /\ Goto(w, "s_stop")
        <4>1. /\ victim' \in [Workers -> Ids \cup {NoId}]
              /\ victim'[w] \in Ids
              /\ \A o \in Workers : o # w => victim'[o] = victim[o]
          BY <3>1, <3>3
        <4>2. /\ pc[w] \in StopSteps /\ pc[w] \notin {"idle", "w_ride"}
              /\ op[w] # "none" /\ "s_stop" \in Steps
          BY <1>1 DEF IdleNext
        <4>3. /\ row' \in [Ids -> Statuses] /\ ctr' \in [Ids -> CtrStates]
              /\ wferr' \in [Workers -> BOOLEAN]
              /\ verdict' \in [Workers -> Verdicts]
              /\ UNCHANGED <<lock, dedup, op, arg, boot>>
          BY <1>1, <2>2 DEF IdleNext
        <4> HIDE DEF LifecycleInv, TypeOK, Goto, StepsFit, LockIsHeldInside,
                 MapNamesLeader, NoAbandonedRider, Steps, Verdicts, Statuses,
                 CtrStates
        <4> QED
          BY <3>1, <3>3, <4>1, <4>2, <4>3, MoveInv
      <3> QED
        BY <2>2, <3>2, <3>3
    <2> QED
      BY <1>1, <2>1, <2>2 DEF IdleNext
  <1>2. CASE TickList(w)
    <2>1. CASE StopperDone(w)
      BY <1>2, <2>1, StopperDoneInv DEF TickList
    <2>2. ASSUME NEW i \in Ids, victim' = [victim EXCEPT ![w] = i],
                 Goto(w, "s_stop"), UNCHANGED <<op, arg, queue, wferr>>
          PROVE  LifecycleInv'
      <3>1. /\ victim' \in [Workers -> Ids \cup {NoId}]
            /\ victim'[w] \in Ids
            /\ \A o \in Workers : o # w => victim'[o] = victim[o]
        BY <2>2
      <3>2. /\ pc[w] \in StopSteps /\ pc[w] \notin {"idle", "w_ride"}
            /\ op[w] # "none" /\ "s_stop" \in Steps
        BY <1>2 DEF TickList
      <3>3. /\ row' \in [Ids -> Statuses] /\ ctr' \in [Ids -> CtrStates]
            /\ queue' \in [Workers -> SUBSET Ids]
            /\ wferr' \in [Workers -> BOOLEAN]
            /\ verdict' \in [Workers -> Verdicts]
            /\ UNCHANGED <<lock, dedup, op, arg, boot>>
        BY <1>2, <2>2 DEF TickList
      <3> HIDE DEF LifecycleInv, TypeOK, Goto, StepsFit, LockIsHeldInside,
               MapNamesLeader, NoAbandonedRider, Steps, Verdicts, Statuses,
               CtrStates
      <3> QED
        BY <2>2, <3>1, <3>2, <3>3, MoveInv
    <2> QED
      BY <1>2, <2>1, <2>2 DEF TickList
  <1>3. CASE DockerStop(w)
    <2>1. ctr' \in [Ids -> CtrStates]
      BY <1>3 DEF DockerStop
    <2>2. CASE StopperDone(w)
      BY <1>3, <2>1, <2>2, StopperDoneInv DEF DockerStop
    <2>3. CASE Goto(w, "s_mark") /\ UNCHANGED locals
      <3>1. /\ victim' \in [Workers -> Ids \cup {NoId}]
            /\ victim'[w] \in Ids
            /\ \A o \in Workers : o # w => victim'[o] = victim[o]
        BY <1>3, <2>3 DEF DockerStop
      <3>2. /\ pc[w] \in StopSteps /\ pc[w] \notin {"idle", "w_ride"}
            /\ op[w] # "none" /\ "s_mark" \in Steps
        BY <1>3 DEF DockerStop
      <3>3. /\ row' \in [Ids -> Statuses]
            /\ queue' \in [Workers -> SUBSET Ids]
            /\ wferr' \in [Workers -> BOOLEAN]
            /\ verdict' \in [Workers -> Verdicts]
            /\ UNCHANGED <<lock, dedup, op, arg, boot>>
        BY <1>3, <2>3 DEF DockerStop
      <3> HIDE DEF LifecycleInv, TypeOK, Goto, StepsFit, LockIsHeldInside,
               MapNamesLeader, NoAbandonedRider, Steps, Verdicts, Statuses,
               CtrStates
      <3> QED
        BY <2>1, <2>3, <3>1, <3>2, <3>3, MoveInv
    <2> QED
      BY <1>3, <2>2, <2>3 DEF DockerStop
  <1>4. CASE MarkStoppedAt(w)
    <2>1. row' \in [Ids -> Statuses]
      BY <1>4 DEF MarkStoppedAt
    <2> QED
      BY <1>4, <2>1, StopperDoneInv DEF MarkStoppedAt
  <1> QED
    BY <1>1, <1>2, <1>3, <1>4 DEF StopStep

\* A step from one place of a create to another.
LEMMA CreateMoveInv ==
  ASSUME LifecycleInv, NEW w \in Workers, NEW t \in CreateSteps, Goto(w, t),
         pc[w] \in CreateSteps,
         row' \in [Ids -> Statuses], ctr' \in [Ids -> CtrStates],
         UNCHANGED <<lock, dedup, locals, verdict, boot>>
  PROVE  LifecycleInv'
  <1>1. op[w] = "create" /\ pc[w] \notin {"idle", "w_ride"} /\ t \in Steps
    OBVIOUS
  <1>2. /\ victim' \in [Workers -> Ids \cup {NoId}]
        /\ \A o \in Workers : o # w => victim'[o] = victim[o]
        /\ queue' \in [Workers -> SUBSET Ids]
        /\ wferr' \in [Workers -> BOOLEAN]
        /\ verdict' \in [Workers -> Verdicts]
        /\ UNCHANGED <<lock, dedup, op, arg, boot>>
    OBVIOUS
  <1> HIDE DEF LifecycleInv, TypeOK, Goto, StepsFit, LockIsHeldInside,
           MapNamesLeader, NoAbandonedRider, InLockedSection, CreateSteps,
           Steps, Verdicts, Statuses, CtrStates
  <1> QED
    BY <1>1, <1>2, MoveInv

\* A step from one place to another of an operation that holds the id lock.
LEMMA LockedMoveInv ==
  ASSUME LifecycleInv, NEW w \in Workers, NEW t \in LockedSteps, Goto(w, t),
         pc[w] \in LockedSteps,
         row' \in [Ids -> Statuses], ctr' \in [Ids -> CtrStates],
         UNCHANGED <<lock, dedup, locals, verdict, boot>>
  PROVE  LifecycleInv'
  <1>1. /\ op[w] \in {"delete", "purge", "snapshot"} /\ InLockedSection(w)
        /\ pc[w] \notin {"idle", "w_ride"} /\ t \in Steps
    OBVIOUS
  <1>2. /\ victim' \in [Workers -> Ids \cup {NoId}]
        /\ \A o \in Workers : o # w => victim'[o] = victim[o]
        /\ queue' \in [Workers -> SUBSET Ids]
        /\ wferr' \in [Workers -> BOOLEAN]
        /\ verdict' \in [Workers -> Verdicts]
        /\ UNCHANGED <<lock, dedup, op, arg, boot>>
    OBVIOUS
  <1> HIDE DEF LifecycleInv, TypeOK, Goto, StepsFit, LockIsHeldInside,
           MapNamesLeader, NoAbandonedRider, InLockedSection, LockedSteps,
           Steps, Verdicts, Statuses, CtrStates
  <1> QED
    BY <1>1, <1>2, MoveInv

\* The steps of a create.
LEMMA CreateStepInv ==
  ASSUME LifecycleInv, NEW w \in Workers, CreateStep(w)
  PROVE  LifecycleInv'
  <1>0. /\ pc[w] \in CreateSteps /\ op[w] = "create" /\ arg[w] \in Ids
        /\ row \in [Ids -> Statuses] /\ ctr \in [Ids -> CtrStates]
        /\ ~InLockedSection(w)
    BY DEF CreateStep, CreateGet, CreateInsert, CreateProvision, CreateEnv,
           CreateRun, CreateInspect, CreateMark, AbortRemove, AbortMarkError
  <1> HIDE DEF LifecycleInv, TypeOK, StepsFit, LockIsHeldInside,
           MapNamesLeader, NoAbandonedRider, InLockedSection, IsLeader, Steps
  <1>1. CASE CreateGet(w)
    <2>1. CASE Return(w)
      BY <1>0, <1>1, <2>1, ReturnInv DEF CreateGet
    <2>2. CASE Goto(w, "c_insert") /\ UNCHANGED locals
      BY <1>0, <1>1, <2>2, CreateMoveInv DEF CreateGet
    <2> QED
      BY <1>0, <1>1, <2>1, <2>2 DEF CreateGet
  <1>2. CASE CreateInsert(w)
    <2>1. row' \in [Ids -> Statuses]
      BY <1>0, <1>2 DEF CreateInsert
    <2>2. CASE Return(w)
      BY <1>0, <1>2, <2>1, <2>2, ReturnInv DEF CreateInsert
    <2>3. CASE Goto(w, "c_provision") /\ UNCHANGED locals
      BY <1>0, <1>2, <2>1, <2>3, CreateMoveInv DEF CreateInsert
    <2> QED
      BY <1>0, <1>2, <2>2, <2>3 DEF CreateInsert
  <1>3. CASE CreateProvision(w)
    <2>1. CASE Skip(w, "c_env")
      BY <1>0, <1>3, <2>1, CreateMoveInv DEF CreateProvision, Skip
    <2>2. CASE Skip(w, "c_remove")
      BY <1>0, <1>3, <2>2, CreateMoveInv DEF CreateProvision, Skip
    <2> QED
      BY <1>0, <1>3, <2>1, <2>2 DEF CreateProvision
  <1>4. CASE CreateEnv(w)
    <2>1. CASE Skip(w, "c_run")
      BY <1>0, <1>4, <2>1, CreateMoveInv DEF CreateEnv, Skip
    <2>2. CASE Return(w) /\ UNCHANGED <<row, ctr, lock, dedup, verdict, boot>>
      BY <1>0, <1>4, <2>2, ReturnInv DEF CreateEnv
    <2> QED
      BY <1>0, <1>4, <2>1, <2>2 DEF CreateEnv
  <1>5. CASE CreateRun(w)
    <2>1. ctr' \in [Ids -> CtrStates]
      BY <1>0, <1>5 DEF CreateRun
    <2>2. CASE Goto(w, "c_inspect")
      BY <1>0, <1>5, <2>1, <2>2, CreateMoveInv DEF CreateRun
    <2>3. CASE Goto(w, "c_remove")
      BY <1>0, <1>5, <2>1, <2>3, CreateMoveInv DEF CreateRun
    <2> QED
      BY <1>0, <1>5, <2>2, <2>3 DEF CreateRun
  <1>6. CASE CreateInspect(w)
    <2>1. CASE Skip(w, "c_mark")
      BY <1>0, <1>6, <2>1, CreateMoveInv DEF CreateInspect, Skip
    <2>2. CASE Skip(w, "c_remove")
      BY <1>0, <1>6, <2>2, CreateMoveInv DEF CreateInspect, Skip
    <2> QED
      BY <1>0, <1>6, <2>1, <2>2 DEF CreateInspect
  <1>7. CASE CreateMark(w)
    <2>1. row' \in [Ids -> Statuses]
      BY <1>0, <1>7 DEF CreateMark
    <2>2. CASE Return(w)
      BY <1>0, <1>7, <2>1, <2>2, ReturnInv DEF CreateMark
    <2>3. CASE Goto(w, "c_remove") /\ UNCHANGED locals
      BY <1>0, <1>7, <2>1, <2>3, CreateMoveInv DEF CreateMark
    <2> QED
      BY <1>0, <1>7, <2>2, <2>3 DEF CreateMark
  <1>8. CASE AbortRemove(w)
    <2>1. ctr' \in [Ids -> CtrStates]
      BY <1>0, <1>8 DEF AbortRemove
    <2> QED
      BY <1>0, <1>8, <2>1, CreateMoveInv DEF AbortRemove
  <1>9. CASE AbortMarkError(w)
    <2>1. row' \in [Ids -> Statuses]
      BY <1>0, <1>9 DEF AbortMarkError
    <2> QED
      BY <1>0, <1>9, <2>1, ReturnInv DEF AbortMarkError
  <1> QED
    BY <1>1, <1>2, <1>3, <1>4, <1>5, <1>6, <1>7, <1>8, <1>9 DEF CreateStep

\* docker rm, in a delete or in a purge.
LEMMA RemoveContainerInv ==
  ASSUME LifecycleInv, NEW w \in Workers, NEW t \in {"d_row", "p_row"},
         pc[w] \in LockedSteps, RemoveContainer(w, t)
  PROVE  LifecycleInv'
  <1>1. ctr' \in [Ids -> CtrStates]
    BY DEF RemoveContainer
  <1>2. CASE ReturnUnlocking(w)
    BY <1>1, <1>2, ReturnUnlockingInv DEF RemoveContainer
  <1>3. CASE Goto(w, t) /\ UNCHANGED <<lock, locals>>
    BY <1>1, <1>3, LockedMoveInv DEF RemoveContainer
  <1> QED
    BY <1>2, <1>3 DEF RemoveContainer

\* The steps of delete, purge and snapshot.
LEMMA LockedStepInv ==
  ASSUME LifecycleInv, NEW w \in Workers, LockedStep(w)
  PROVE  LifecycleInv'
  <1>1. CASE DeleteLock(w)
    BY <1>1 DEF DeleteLock, LockId
  <1>2. CASE DeleteGet(w)
    <2>1. CASE Skip(w, "d_remove")
      BY <1>2, <2>1, LockedMoveInv DEF DeleteGet, Skip
    <2>2. CASE GiveUp(w)
      BY <1>2, <2>2, ReturnUnlockingInv DEF DeleteGet, GiveUp
    <2> QED
      BY <1>2, <2>1, <2>2 DEF DeleteGet
  <1>3. CASE DeleteRemove(w)
    BY <1>3, RemoveContainerInv DEF DeleteRemove
  <1>4. CASE PurgeLock(w)
    BY <1>4 DEF PurgeLock, LockId
  <1>5. CASE PurgeInspect(w)
    <2>1. CASE Skip(w, "p_stop")
      BY <1>5, <2>1, LockedMoveInv DEF PurgeInspect, Skip
    <2>2. CASE Skip(w, "p_row")
      BY <1>5, <2>2, LockedMoveInv DEF PurgeInspect, Skip
    <2>3. CASE GiveUp(w)
      BY <1>5, <2>3, ReturnUnlockingInv DEF PurgeInspect, GiveUp
    <2> QED
      BY <1>5, <2>1, <2>2, <2>3 DEF PurgeInspect
  <1>6. CASE PurgeStop(w)
    <2>1. ctr' \in [Ids -> CtrStates]
      BY <1>6 DEF PurgeStop
    <2> QED
      BY <1>6, <2>1, LockedMoveInv DEF PurgeStop
  <1>7. CASE PurgeRemove(w)
    BY <1>7, RemoveContainerInv DEF PurgeRemove
  <1>8. CASE RemoveRow(w)
    <2>1. row' \in [Ids -> Statuses]
      BY <1>8 DEF RemoveRow
    <2> QED
      BY <1>8, <2>1, ReturnUnlockingInv DEF RemoveRow
  <1>9. CASE SnapshotLock(w)
    BY <1>9 DEF SnapshotLock, LockId
  <1>10. CASE SnapshotGet(w)
    <2>1. CASE Skip(w, "n_copy")
      BY <1>10, <2>1, LockedMoveInv DEF SnapshotGet, Skip
    <2>2. CASE GiveUp(w)
      BY <1>10, <2>2, ReturnUnlockingInv DEF SnapshotGet, GiveUp
    <2> QED
      BY <1>10, <2>1, <2>2 DEF SnapshotGet
  <1>11. CASE SnapshotDone(w)
    BY <1>11, ReturnUnlockingInv DEF SnapshotDone, GiveUp
  <1> QED
    BY <1>1, <1>2, <1>3, <1>4, <1>5, <1>6, <1>7, <1>8, <1>9, <1>10, <1>11 DEF LockedStep

\* The beginning of an operation.
LEMMA RequestInv ==
  ASSUME LifecycleInv, NEW w \in Workers, NEW i \in Ids, Request(w, i)
  PROVE  LifecycleInv'
  <1>1. CASE BeginCreate(w, i)
    BY <1>1 DEF BeginCreate, Begin
  <1>2. CASE BeginWake(w, i)
    <2>0. pc[w] = "idle" /\ op[w] = "none" /\ phase = "up"
      BY <1>2 DEF BeginWake, Begin
    <2>1. CASE inflight[i] = NoWorker
      <3>1. /\ inflight' = [inflight EXCEPT ![i] = w]
            /\ pc' = [pc EXCEPT ![w] = "w_lock"]
            /\ op' = [op EXCEPT ![w] = "wake"]
            /\ arg' = [arg EXCEPT ![w] = i]
            /\ verdict' = [verdict EXCEPT ![w] = "none"]
            /\ UNCHANGED <<row, ctr, lock, wf, victim, queue, wferr, boot>>
        BY <1>2, <2>1 DEF BeginWake, Begin
      <3>2. TypeOK'
        BY <2>0, <2>1, <3>1
      <3>3. StepsFit'
        BY <2>0, <2>1, <3>1
      <3>4. LockIsHeldInside'
        BY <2>0, <2>1, <3>1
      <3>5. MapNamesLeader'
        BY <2>0, <2>1, <3>1
      <3>6. NoAbandonedRider'
        BY <2>0, <2>1, <3>1
      <3> QED
        BY <3>2, <3>3, <3>4, <3>5, <3>6
    <2>2. CASE inflight[i] # NoWorker
      <3>1. /\ wf' = [wf EXCEPT ![w] = inflight[i]]
            /\ pc' = [pc EXCEPT ![w] = "w_ride"]
            /\ op' = [op EXCEPT ![w] = "wake"]
            /\ arg' = [arg EXCEPT ![w] = i]
            /\ verdict' = [verdict EXCEPT ![w] = "none"]
            /\ UNCHANGED <<row, ctr, lock, inflight, victim, queue, wferr, boot>>
        BY <1>2, <2>2 DEF BeginWake, Begin
      <3>2. TypeOK'
        BY <2>0, <2>2, <3>1
      <3>3. StepsFit'
        BY <2>0, <2>2, <3>1
      <3>4. LockIsHeldInside'
        BY <2>0, <2>2, <3>1
      <3>5. MapNamesLeader'
        BY <2>0, <2>2, <3>1
      <3>6. NoAbandonedRider'
        BY <2>0, <2>2, <3>1
      <3> QED
        BY <3>2, <3>3, <3>4, <3>5, <3>6
    <2> QED
      BY <2>1, <2>2
  <1>3. CASE BeginDelete(w, i)
    BY <1>3 DEF BeginDelete, BeginLocked, Begin
  <1>4. CASE BeginPurge(w, i)
    BY <1>4 DEF BeginPurge, BeginLocked, Begin
  <1>5. CASE BeginSnapshot(w, i)
    BY <1>5 DEF BeginSnapshot, BeginLocked, Begin
  <1>6. CASE BeginStop(w, i)
    BY <1>6 DEF BeginStop, Begin
  <1> QED
    BY <1>1, <1>2, <1>3, <1>4, <1>5, <1>6 DEF Request

\* The beginning of an idle or of a pressure tick.
LEMMA TickInv ==
  ASSUME LifecycleInv, NEW w \in Workers, BeginIdle(w) \/ BeginPressure(w)
  PROVE  LifecycleInv'
  <1>1. CASE BeginIdle(w)
    BY <1>1 DEF BeginIdle, Begin
  <1>2. CASE BeginPressure(w)
    BY <1>2 DEF BeginPressure, Begin
  <1> QED
    BY <1>1, <1>2

\* Exits, restarts and the boot reconciler.
LEMMA EnvironmentInv ==
  ASSUME LifecycleInv,
         \/ \E i \in Ids : ContainerExits(i) \/ ReconcileRow(i)
         \/ Restart
         \/ Listen
  PROVE  LifecycleInv'
  <1>1. ASSUME NEW i \in Ids, ContainerExits(i)
        PROVE  LifecycleInv'
    BY <1>1 DEF ContainerExits
  <1>2. ASSUME NEW i \in Ids, ReconcileRow(i)
        PROVE  LifecycleInv'
    BY <1>2 DEF ReconcileRow, InspectedStatus
  <1>3. CASE Restart
    BY <1>3 DEF Restart
  <1>4. CASE Listen
    BY <1>4 DEF Listen
  <1> QED
    BY <1>1, <1>2, <1>3, <1>4

HIDE ConstantsAssumption
HIDE DEF LifecycleInv, TypeOK, StepsFit, LockIsHeldInside, MapNamesLeader,
         NoAbandonedRider, InLockedSection, IsLeader, CreateSteps, StopSteps,
         AdmitSteps, WakeSteps, LockedSteps, LockWaits, Steps, Statuses,
         CtrStates, Verdicts, OpNames, Goto, SetStatus, locals, boot, dedup

\* Every step preserves the invariant.
LEMMA NextInv == LifecycleInv /\ [Next]_vars => LifecycleInv'
  <1> SUFFICES ASSUME LifecycleInv, [Next]_vars PROVE LifecycleInv'
    OBVIOUS
  <1>1. ASSUME NEW w \in Workers, Progress(w) PROVE LifecycleInv'
    BY <1>1, AdmitStepInv, StopStepInv, WakeStepInv, CreateStepInv,
       LockedStepInv DEF Progress
  <1>2. ASSUME NEW w \in Workers, BeginIdle(w) \/ BeginPressure(w)
        PROVE  LifecycleInv'
    BY <1>2, TickInv
  <1>3. ASSUME NEW w \in Workers, NEW i \in Ids, Request(w, i)
        PROVE  LifecycleInv'
    BY <1>3, RequestInv
  <1>4. CASE UNCHANGED vars
    BY <1>4 DEF LifecycleInv, TypeOK, StepsFit, LockIsHeldInside,
                MapNamesLeader, NoAbandonedRider, InLockedSection, IsLeader,
                vars
  <1> QED
    BY <1>1, <1>2, <1>3, <1>4, EnvironmentInv DEF Next

\* The inductive invariant holds in every reachable state, for any sandboxes,
\* any workers, any mix of operations and faults.
THEOREM LifecycleInvariant == Spec => []LifecycleInv
  BY InitInv, NextInv, PTL DEF Spec

\* The workers' program counters, locks and the dedup map keep their types.
THEOREM TypeCorrect == Spec => []TypeOK
  <1>1. LifecycleInv => TypeOK
    BY DEF LifecycleInv
  <1> QED
    BY <1>1, LifecycleInvariant, PTL

\* Two workers inside the section of one sandbox would both hold its lock.
LEMMA Exclusion == LifecycleInv => LockedSectionsExclusive
  <1> SUFFICES ASSUME LifecycleInv, NEW w1 \in Workers, NEW w2 \in Workers,
                      InLockedSection(w1), InLockedSection(w2),
                      arg[w1] = arg[w2]
               PROVE  w1 = w2
    BY DEF LockedSectionsExclusive
  <1>1. arg[w1] \in Ids
    BY DEF LifecycleInv, StepsFit, InLockedSection, LockedSteps, WakeSteps,
           AdmitSteps, StopSteps
  <1>2. lock[arg[w1]] = w1 /\ lock[arg[w1]] = w2
    BY <1>1 DEF LifecycleInv, LockIsHeldInside
  <1> QED
    BY <1>2

\* Wake, delete, purge and snapshot of one sandbox exclude one another: the
\* lock of the sandbox names the one worker inside its section.
THEOREM LockExclusion == Spec => []LockedSectionsExclusive
  BY Exclusion, LifecycleInvariant, PTL

\* Concurrent wakes of one sandbox have one leader, the worker that the dedup
\* map names.
THEOREM WakeLeaderUnique == Spec => []OneWakeLeader
  <1>1. LifecycleInv => OneWakeLeader
    <2> SUFFICES ASSUME LifecycleInv, NEW w1 \in Workers, NEW w2 \in Workers,
                        IsLeader(w1), IsLeader(w2), arg[w1] = arg[w2]
                 PROVE  w1 = w2
      BY DEF OneWakeLeader
    <2>1. arg[w1] \in Ids
      BY DEF LifecycleInv, StepsFit, IsLeader
    <2>2. inflight[arg[w1]] = w1 /\ inflight[arg[w1]] = w2
      BY <2>1 DEF LifecycleInv, MapNamesLeader
    <2> QED
      BY <2>2
  <1> QED
    BY <1>1, LifecycleInvariant, PTL

\* A rider always waits on a worker that still runs the wake it joined.
THEOREM RidersHaveLeaders == Spec => []NoAbandonedRider
  <1>1. LifecycleInv => NoAbandonedRider
    BY DEF LifecycleInv
  <1> QED
    BY <1>1, LifecycleInvariant, PTL

-----------------------------------------------------------------------------
(***************************************************************************)
(* Boot and create                                                         *)
(***************************************************************************)

\* While the reconciler runs, before the listener opens, no operation does; it
\* runs after a restart only, for a behaviour begins with sandboxd up.
BootIsQuiet ==
  phase = "boot" => Fault("crash") /\ \A w \in Workers : pc[w] = "idle"

\* The steps of a create between its INSERT and the end of the row's creating.
InsertedSteps == CreateSteps \ {"c_get", "c_insert"}

\* The premise of CreatingRowHasCreator.
CreatesAbort ==
  /\ Faults \cap {"store", "env"} = {}
  /\ ~(Fault("docker") /\ Fault("crash"))

\* What keeps CreatingRowHasCreator: a creating row has a create that is past
\* its INSERT, not one that may yet be refused.
CreatorAtWork ==
  CreatesAbort =>
    \A i \in Ids :
      row[i] = "creating" =>
        \/ i \in unreconciled
        \/ \E w \in Workers : pc[w] \in InsertedSteps /\ arg[w] = i

BootInv ==
  LifecycleInv /\ BootIsQuiet /\ CreatorAtWork /\ ReconciledRowsAgree


\* Initially sandboxd is up and no row is creating.
LEMMA BootInit == Init => BootInv
  <1> SUFFICES ASSUME Init PROVE BootInv
    OBVIOUS
  <1>1. LifecycleInv
    BY InitInv
  <1>2. BootIsQuiet /\ ReconciledRowsAgree
    BY DEF Init, BootIsQuiet, ReconciledRowsAgree
  <1>3. CreatorAtWork
    <2>1. ASSUME NEW i \in Ids PROVE row[i] # "creating"
      BY DEF Init, QuietStates
    <2> QED
      BY <2>1 DEF CreatorAtWork
  <1> QED
    BY <1>1, <1>2, <1>3 DEF BootInv

\* A step that makes no row creating and moves no create past its INSERT.
CreatesKept ==
  /\ \A i \in Ids : row'[i] = "creating" => row[i] = "creating"
  /\ \A w \in Workers :
       pc[w] \in InsertedSteps => pc'[w] = pc[w] /\ arg'[w] = arg[w]

\* A step of an operation under way: it changes neither the phase nor the
\* reconciler's list.
WorkerMoves(w) == pc[w] # "idle" /\ UNCHANGED boot

USE DEF CreatesKept, WorkerMoves, InsertedSteps, CreateSteps, StopSteps,
        AdmitSteps, WakeSteps, LockedSteps, LockWaits, locals, boot, dedup

\* Admission makes no row creating and moves no create past its INSERT.
LEMMA AdmitMoves ==
  ASSUME LifecycleInv, NEW w \in Workers, AdmitStep(w)
  PROVE  CreatesKept /\ WorkerMoves(w)
  <1> USE DEF LifecycleInv, TypeOK, Goto, Skip, Return
  <1>1. CASE AdmitOk(w)
    BY <1>1 DEF AdmitOk
  <1>2. CASE AdmitDenied(w)
    BY <1>2 DEF AdmitDenied
  <1>3. CASE AdmitError(w)
    BY <1>3 DEF AdmitError
  <1>4. CASE AdmitTick(w)
    BY <1>4 DEF AdmitTick
  <1> QED
    BY <1>1, <1>2, <1>3, <1>4 DEF AdmitStep

\* Nor does a stopper ...
LEMMA StopMoves ==
  ASSUME LifecycleInv, NEW w \in Workers, StopStep(w)
  PROVE  CreatesKept /\ WorkerMoves(w)
  <1> USE DEF LifecycleInv, TypeOK, Goto, Return, StopperDone
  <1>1. CASE IdleNext(w)
    BY <1>1 DEF IdleNext
  <1>2. CASE TickList(w)
    BY <1>2 DEF TickList
  <1>3. CASE DockerStop(w)
    BY <1>3 DEF DockerStop
  <1>4. CASE MarkStoppedAt(w)
    BY <1>4 DEF MarkStoppedAt, SetStatus
  <1> QED
    BY <1>1, <1>2, <1>3, <1>4 DEF StopStep

\* ... nor a wake ...
LEMMA WakeMoves ==
  ASSUME LifecycleInv, NEW w \in Workers, WakeStep(w)
  PROVE  CreatesKept /\ WorkerMoves(w)
  <1> USE DEF LifecycleInv, TypeOK, Goto, WakeAnswer
  <1>1. CASE WakeLock(w)
    BY <1>1 DEF WakeLock, LockId
  <1>2. CASE WakeGet(w)
    BY <1>2 DEF WakeGet
  <1>3. CASE WakeStart(w)
    BY <1>3 DEF WakeStart
  <1>4. CASE WakeInspect(w)
    BY <1>4 DEF WakeInspect
  <1>5. CASE MarkRunningWoke(w)
    BY <1>5 DEF MarkRunningWoke, SetStatus
  <1>6. CASE WakeUnlock(w)
    BY <1>6 DEF WakeUnlock
  <1>7. CASE WakeLeave(w)
    BY <1>7 DEF WakeLeave
  <1>8. CASE WakeClose(w)
    BY <1>8 DEF WakeClose, Riders
  <1> QED
    BY <1>1, <1>2, <1>3, <1>4, <1>5, <1>6, <1>7, <1>8 DEF WakeStep

\* ... nor a delete, a purge or a snapshot ...
LEMMA LockedMoves ==
  ASSUME LifecycleInv, NEW w \in Workers, LockedStep(w)
  PROVE  CreatesKept /\ WorkerMoves(w)
  <1> USE DEF LifecycleInv, TypeOK, Goto, Skip, GiveUp, ReturnUnlocking, Return
  <1>1. CASE DeleteLock(w) \/ PurgeLock(w) \/ SnapshotLock(w)
    BY <1>1 DEF DeleteLock, PurgeLock, SnapshotLock, LockId
  <1>2. CASE DeleteGet(w)
    BY <1>2 DEF DeleteGet
  <1>3. CASE DeleteRemove(w)
    BY <1>3 DEF DeleteRemove, RemoveContainer
  <1>4. CASE PurgeInspect(w)
    BY <1>4 DEF PurgeInspect
  <1>5. CASE PurgeStop(w)
    BY <1>5 DEF PurgeStop
  <1>6. CASE PurgeRemove(w)
    BY <1>6 DEF PurgeRemove, RemoveContainer
  <1>7. CASE RemoveRow(w)
    BY <1>7 DEF RemoveRow
  <1>8. CASE SnapshotGet(w)
    BY <1>8 DEF SnapshotGet
  <1>9. CASE SnapshotDone(w)
    BY <1>9 DEF SnapshotDone
  <1> QED
    BY <1>1, <1>2, <1>3, <1>4, <1>5, <1>6, <1>7, <1>8, <1>9 DEF LockedStep

\* A create keeps its row creating only while it is itself at work.
LEMMA CreateMoves ==
  ASSUME LifecycleInv, CreatorAtWork, NEW w \in Workers, CreateStep(w),
         UNCHANGED scenario
  PROVE  CreatorAtWork' /\ WorkerMoves(w)
  <1> USE DEF LifecycleInv, TypeOK, Goto, Skip, Return, CreatorAtWork,
              CreatesAbort, SetStatus, Fault, Faults
  <1>1. CASE CreateGet(w)
    BY <1>1 DEF CreateGet
  <1>2. CASE CreateInsert(w)
    BY <1>2 DEF CreateInsert
  <1>3. CASE CreateProvision(w)
    BY <1>3 DEF CreateProvision
  <1>4. CASE CreateEnv(w)
    BY <1>4 DEF CreateEnv
  <1>5. CASE CreateRun(w)
    BY <1>5 DEF CreateRun
  <1>6. CASE CreateInspect(w)
    BY <1>6 DEF CreateInspect
  <1>7. CASE CreateMark(w)
    BY <1>7 DEF CreateMark
  <1>8. CASE AbortRemove(w)
    BY <1>8 DEF AbortRemove
  <1>9. CASE AbortMarkError(w)
    BY <1>9 DEF AbortMarkError
  <1> QED
    BY <1>1, <1>2, <1>3, <1>4, <1>5, <1>6, <1>7, <1>8, <1>9 DEF CreateStep

\* ... nor the beginning of any operation.
LEMMA BeginMoves ==
  ASSUME LifecycleInv, NEW w \in Workers,
         (\E i \in Ids : Request(w, i)) \/ BeginIdle(w) \/ BeginPressure(w)
  PROVE  CreatesKept /\ phase = "up" /\ UNCHANGED boot
  <1> USE DEF LifecycleInv, TypeOK, Begin
  <1>1. ASSUME NEW i \in Ids, BeginCreate(w, i)
        PROVE  CreatesKept /\ phase = "up" /\ UNCHANGED boot
    BY <1>1 DEF BeginCreate
  <1>2. ASSUME NEW i \in Ids, BeginWake(w, i)
        PROVE  CreatesKept /\ phase = "up" /\ UNCHANGED boot
    BY <1>2 DEF BeginWake
  <1>3. ASSUME NEW i \in Ids,
               BeginDelete(w, i) \/ BeginPurge(w, i) \/ BeginSnapshot(w, i)
        PROVE  CreatesKept /\ phase = "up" /\ UNCHANGED boot
    BY <1>3 DEF BeginDelete, BeginPurge, BeginSnapshot, BeginLocked
  <1>4. ASSUME NEW i \in Ids, BeginStop(w, i)
        PROVE  CreatesKept /\ phase = "up" /\ UNCHANGED boot
    BY <1>4 DEF BeginStop
  <1>5. CASE BeginIdle(w)
    BY <1>5 DEF BeginIdle
  <1>6. CASE BeginPressure(w)
    BY <1>6 DEF BeginPressure
  <1> QED
    BY <1>1, <1>2, <1>3, <1>4, <1>5, <1>6 DEF Request

HIDE DEF CreatesKept, WorkerMoves, InsertedSteps, CreateSteps, StopSteps,
         AdmitSteps, WakeSteps, LockedSteps, LockWaits, locals, boot, dedup

\* A creating row keeps the create that is at work on it.
LEMMA CreatesKeptInv ==
  ASSUME CreatorAtWork, CreatesKept, UNCHANGED <<scenario, unreconciled>>
  PROVE  CreatorAtWork'
  <1> QED
    BY DEF CreatorAtWork, CreatesKept, CreatesAbort, Fault, Faults

\* Where no worker acts the three parts hold, whatever the row.
LEMMA BootNext ==
  ASSUME BootInv, Next
  PROVE  BootInv'
  <1> USE DEF BootInv
  <1>0. LifecycleInv'
    BY NextInv
  <1>1. UNCHANGED scenario
    BY DEF Next
  <1>2. ASSUME NEW w \in Workers, Progress(w)
        PROVE  BootInv'
    <2>1. WorkerMoves(w) /\ CreatorAtWork'
      BY <1>1, <1>2, AdmitMoves, StopMoves, WakeMoves, LockedMoves, CreateMoves,
         CreatesKeptInv DEF Progress, WorkerMoves, boot
    <2>2. phase = "up" /\ phase' = "up"
      BY <2>1 DEF WorkerMoves, BootIsQuiet, LifecycleInv, TypeOK, boot
    <2> QED
      BY <1>0, <2>1, <2>2 DEF BootIsQuiet, ReconciledRowsAgree
  <1>3. ASSUME NEW w \in Workers,
               (\E i \in Ids : Request(w, i)) \/ BeginIdle(w) \/ BeginPressure(w)
        PROVE  BootInv'
    <2>1. CreatesKept /\ phase = "up" /\ UNCHANGED boot
      BY <1>3, BeginMoves
    <2>2. CreatorAtWork'
      BY <1>1, <2>1, CreatesKeptInv DEF boot
    <2> QED
      BY <1>0, <2>1, <2>2 DEF BootIsQuiet, ReconciledRowsAgree, boot
  <1>4. ASSUME NEW i \in Ids, ContainerExits(i)
        PROVE  BootInv'
    <2>1. BootIsQuiet' /\ CreatorAtWork'
      BY <1>1, <1>4 DEF ContainerExits, boot, BootIsQuiet, CreatorAtWork,
                        CreatesAbort, Fault, Faults, locals
    <2>2. ReconciledRowsAgree'
      BY <1>1, <1>4 DEF ContainerExits, ReconciledRowsAgree, Fault, Faults
    <2> QED
      BY <1>0, <2>1, <2>2
  <1>5. ASSUME NEW i \in Ids, ReconcileRow(i)
        PROVE  BootInv'
    <2>1. BootIsQuiet'
      BY <1>1, <1>5 DEF ReconcileRow, BootIsQuiet, Fault, Faults
    <2>2. CreatorAtWork'
      <3>1. SUFFICES ASSUME CreatesAbort, NEW j \in Ids, row'[j] = "creating",
                            j \notin unreconciled'
                     PROVE  \E w \in Workers :
                              pc'[w] \in InsertedSteps /\ arg'[w] = j
        BY <1>1 DEF CreatorAtWork, CreatesAbort, Fault, Faults
      <3>2. UNCHANGED <<pc, arg>> /\ phase = "boot"
        BY <1>5 DEF ReconcileRow, locals
      <3>3. row[j] = "creating"
        BY <1>5, <3>1 DEF ReconcileRow, SetStatus, InspectedStatus, LifecycleInv,
                          TypeOK
      <3>4. CASE j \in unreconciled
        <4>1. j = i /\ UNCHANGED row /\ (Fault("docker") \/ Fault("store"))
          BY <1>5, <3>1, <3>3, <3>4 DEF ReconcileRow, SetStatus, InspectedStatus,
             LifecycleInv, TypeOK
        <4>2. Fault("crash")
          BY <3>2 DEF BootIsQuiet
        <4> QED
          BY <3>1, <4>1, <4>2 DEF CreatesAbort, Fault
      <3>5. CASE j \notin unreconciled
        BY <3>1, <3>2, <3>3, <3>5 DEF CreatorAtWork
      <3> QED
        BY <3>4, <3>5
    <2>3. ReconciledRowsAgree'
      BY <1>1, <1>5 DEF ReconcileRow, ReconciledRowsAgree, SetStatus,
                        InspectedStatus, Fault, Faults, LifecycleInv, TypeOK
    <2> QED
      BY <1>0, <2>1, <2>2, <2>3
  <1>6. CASE Restart
    <2>1. BootIsQuiet' /\ ReconciledRowsAgree'
      BY <1>1, <1>6 DEF Restart, BootIsQuiet, ReconciledRowsAgree, Fault, Faults
    <2>2. CreatorAtWork'
      BY <1>6 DEF Restart, CreatorAtWork
    <2> QED
      BY <1>0, <2>1, <2>2
  <1>7. CASE Listen
    <2>1. BootIsQuiet' /\ ReconciledRowsAgree'
      BY <1>7 DEF Listen, BootIsQuiet, ReconciledRowsAgree
    <2>2. CreatorAtWork'
      BY <1>1, <1>7 DEF Listen, CreatorAtWork, CreatesAbort, Fault, Faults, locals
    <2> QED
      BY <1>0, <2>1, <2>2
  <1> QED
    BY <1>2, <1>3, <1>4, <1>5, <1>6, <1>7 DEF Next


\* The invariant of the boot reconciler and of create.
THEOREM BootInvariant == Spec => []BootInv
  <1>1. BootInv /\ UNCHANGED vars => BootInv'
    <2> SUFFICES ASSUME BootInv, UNCHANGED vars PROVE BootInv'
      OBVIOUS
    <2>1. LifecycleInv'
      BY NextInv DEF BootInv
    <2>2. BootIsQuiet' /\ CreatorAtWork' /\ ReconciledRowsAgree'
      BY DEF BootInv, vars, BootIsQuiet, CreatorAtWork,
             CreatesAbort, ReconciledRowsAgree, Fault, Faults
    <2> QED
      BY <2>1, <2>2 DEF BootInv
  <1> QED
    BY <1>1, BootInit, BootNext, PTL DEF Spec

\* No row is left in creating without a create at work on it, whichever of its
\* steps fails and wherever sandboxd restarts.
THEOREM CreatingHasCreator == Spec => []CreatingRowHasCreator
  <1>1. BootInv => CreatingRowHasCreator
    <2> SUFFICES ASSUME BootInv, CreatesAbort, NEW i \in Ids, row[i] = "creating"
                 PROVE  \/ i \in unreconciled
                        \/ \E w \in Workers : op[w] = "create" /\ arg[w] = i
      BY DEF CreatingRowHasCreator, CreatesAbort
    <2>1. CASE i \in unreconciled
      BY <2>1
    <2>2. CASE i \notin unreconciled
      <3>1. PICK w \in Workers : pc[w] \in InsertedSteps /\ arg[w] = i
        BY <2>2 DEF BootInv, CreatorAtWork
      <3>2. op[w] = "create"
        BY <3>1 DEF BootInv, LifecycleInv, StepsFit, InsertedSteps
      <3> QED
        BY <3>1, <3>2
    <2> QED
      BY <2>1, <2>2
  <1> QED
    BY <1>1, BootInvariant, PTL

\* What the boot reconciler has visited agrees with Docker before the listener
\* opens, whatever the crash interrupted.
THEOREM ReconciledAgree == Spec => []ReconciledRowsAgree
  <1>1. BootInv => ReconciledRowsAgree
    BY DEF BootInv
  <1> QED
    BY <1>1, BootInvariant, PTL

-----------------------------------------------------------------------------
(***************************************************************************)
(* What a wake tells its riders                                            *)
(***************************************************************************)

\* The steps of a leader that has not answered its own client.
Unanswered ==
  (WakeSteps \ {"w_ride", "w_unlock", "w_leave", "w_close"})
    \cup AdmitSteps \cup StopSteps

\* inflightWake.err is set exactly when the leader told its client "failed".
ErrorsFit ==
  \A w \in Workers :
    /\ wferr[w] <=> op[w] = "wake" /\ pc[w] # "w_ride" /\ verdict[w] = "failed"
    /\ op[w] = "wake" /\ pc[w] \in Unanswered => verdict[w] = "none"

VerdictInv == LifecycleInv /\ ErrorsFit


\* Initially no error is set.
LEMMA VerdictInit == Init => VerdictInv
  <1>1. Init => ErrorsFit
    BY DEF Init, ErrorsFit
  <1> QED
    BY <1>1, InitInv DEF VerdictInv

\* A step that ends no rider's wait.
RidersStay ==
  \A r \in Workers : pc[r] = "w_ride" => pc'[r] = "w_ride"

USE DEF VerdictInv, LifecycleInv, TypeOK, StepsFit, ErrorsFit, RidersStay,
        Unanswered, CreateSteps, StopSteps, AdmitSteps, WakeSteps, LockedSteps,
        LockWaits, locals, boot, dedup, Goto

\* The leader's answer to its own client and inflightWake.err agree.
LEMMA AnswerFits ==
  ASSUME VerdictInv, NEW w \in Workers, NEW v \in Verdicts, WakeAnswer(w, v),
         op[w] = "wake", pc[w] # "w_ride", UNCHANGED op
  PROVE  ErrorsFit' /\ RidersStay
  <1>1. /\ pc' = [pc EXCEPT ![w] = "w_unlock"]
        /\ verdict' = [verdict EXCEPT ![w] = v]
        /\ wferr'[w] <=> v = "failed"
    BY DEF WakeAnswer
  <1>2. \A o \in Workers : o # w => (wferr'[o] <=> wferr[o])
    BY DEF WakeAnswer
  <1>3. ASSUME NEW o \in Workers, o # w
        PROVE  /\ pc'[o] = pc[o] /\ op'[o] = op[o]
               /\ verdict'[o] = verdict[o] /\ (wferr'[o] <=> wferr[o])
    BY <1>1, <1>2, <1>3
  <1>4. pc'[w] = "w_unlock" /\ verdict'[w] = v /\ op'[w] = "wake"
    BY <1>1
  <1>5. RidersStay
    BY <1>3
  <1>6. ErrorsFit'
    BY <1>1, <1>3, <1>4
  <1> QED
    BY <1>5, <1>6

\* Admission: a wake that is refused or fails answers its own client.
LEMMA AdmitFits ==
  ASSUME VerdictInv, NEW w \in Workers, AdmitStep(w)
  PROVE  ErrorsFit' /\ RidersStay
  <1>1. CASE AdmitOk(w)
    BY <1>1 DEF AdmitOk, Skip
  <1>2. CASE AdmitDenied(w)
    BY <1>2 DEF AdmitDenied, Return
  <1>3. CASE AdmitError(w)
    <2>1. CASE op[w] = "create"
      BY <1>3, <2>1 DEF AdmitError
    <2>2. CASE op[w] = "wake"
      <3>1. WakeAnswer(w, "failed") /\ UNCHANGED op
        <4>1. /\ verdict' = [verdict EXCEPT ![w] = "failed"]
              /\ wferr' = [wferr EXCEPT ![w] = TRUE]
              /\ Goto(w, "w_unlock") /\ UNCHANGED op
          BY <1>3, <2>2 DEF AdmitError
        <4> QED
          BY <4>1 DEF WakeAnswer
      <3>2. pc[w] # "w_ride" /\ "failed" \in Verdicts
        BY <1>3 DEF AdmitError, Verdicts
      <3> QED
        BY <2>2, <3>1, <3>2, AnswerFits
    <2> QED
      BY <1>3, <2>1, <2>2 DEF AdmitError
  <1>4. CASE AdmitTick(w)
    BY <1>4 DEF AdmitTick, Skip
  <1> QED
    BY <1>1, <1>2, <1>3, <1>4 DEF AdmitStep

\* A stopper answers nobody; inside a wake it leaves the answer open.
LEMMA StopFitsVerdict ==
  ASSUME VerdictInv, NEW w \in Workers, StopStep(w)
  PROVE  ErrorsFit' /\ RidersStay
  <1> USE DEF StopperDone, Return
  <1>1. CASE IdleNext(w)
    BY <1>1 DEF IdleNext
  <1>2. CASE TickList(w)
    BY <1>2 DEF TickList
  <1>3. CASE DockerStop(w)
    BY <1>3 DEF DockerStop
  <1>4. CASE MarkStoppedAt(w)
    BY <1>4 DEF MarkStoppedAt
  <1> QED
    BY <1>1, <1>2, <1>3, <1>4 DEF StopStep

\* Every step of a wake but the last.
LEMMA WakeFitsVerdict ==
  ASSUME VerdictInv, NEW w \in Workers, WakeStep(w), ~WakeClose(w)
  PROVE  ErrorsFit' /\ RidersStay
  <1> DEFINE Answers == \E v \in Verdicts : WakeAnswer(w, v)
  <1>0. ASSUME Answers, pc[w] \in WakeSteps \ {"w_ride"}, UNCHANGED op
        PROVE  ErrorsFit' /\ RidersStay
    <2>1. op[w] = "wake" /\ pc[w] # "w_ride"
      BY <1>0
    <2> QED
      BY <1>0, <2>1, AnswerFits
  <1>1. CASE WakeLock(w)
    BY <1>1 DEF WakeLock, LockId
  <1>2. CASE WakeGet(w)
    <2>1. CASE Answers
      BY <1>0, <1>2, <2>1 DEF WakeGet
    <2>2. CASE Goto(w, "a_first") /\ UNCHANGED <<verdict, wferr, op>>
      BY <1>2, <2>2 DEF WakeGet
    <2> QED
      BY <1>2, <2>1, <2>2 DEF WakeGet, Verdicts
  <1>3. CASE WakeStart(w)
    <2>1. CASE Answers
      BY <1>0, <1>3, <2>1 DEF WakeStart
    <2>2. CASE Goto(w, "w_inspect") /\ UNCHANGED <<verdict, wferr, op>>
      BY <1>3, <2>2 DEF WakeStart
    <2> QED
      BY <1>3, <2>1, <2>2 DEF WakeStart, Verdicts
  <1>4. CASE WakeInspect(w)
    <2>1. CASE Answers
      BY <1>0, <1>4, <2>1 DEF WakeInspect
    <2>2. CASE Goto(w, "w_mark") /\ UNCHANGED <<verdict, wferr, op>>
      BY <1>4, <2>2 DEF WakeInspect
    <2> QED
      BY <1>4, <2>1, <2>2 DEF WakeInspect, Verdicts
  <1>5. CASE MarkRunningWoke(w)
    <2>1. Answers
      BY <1>5 DEF MarkRunningWoke, Verdicts
    <2> QED
      BY <1>0, <1>5, <2>1 DEF MarkRunningWoke
  <1>6. CASE WakeUnlock(w)
    BY <1>6 DEF WakeUnlock
  <1>7. CASE WakeLeave(w)
    BY <1>7 DEF WakeLeave
  <1> QED
    BY <1>1, <1>2, <1>3, <1>4, <1>5, <1>6, <1>7 DEF WakeStep

\* close(wf.done): every rider reads the leader's error.
LEMMA CloseFits ==
  ASSUME VerdictInv, NEW w \in Workers, WakeClose(w)
  PROVE  /\ ErrorsFit'
         /\ \A r \in Workers :
              pc[r] = "w_ride" /\ pc'[r] = "idle" =>
                (verdict'[r] = "failed" <=> verdict[wf[r]] = "failed")
  <1>1. pc[w] = "w_close" /\ op[w] = "wake" /\ w \notin Riders(w)
    BY DEF WakeClose, Riders
  <1>2. ~wferr'[w] /\ \A o \in Workers : o # w => (wferr'[o] <=> wferr[o])
    BY DEF WakeClose
  <1>3. ASSUME NEW r \in Riders(w)
        PROVE  /\ r \in Workers /\ pc[r] = "w_ride" /\ wf[r] = w
               /\ op'[r] = "none" /\ ~wferr'[r]
               /\ verdict'[r] = "failed" <=> verdict[w] = "failed"
    <2>1. r \in Workers /\ pc[r] = "w_ride" /\ wf[r] = w /\ ~wferr[r]
      BY DEF Riders
    <2>2. op'[r] = "none" /\ verdict'[r] = RiderVerdict(w)
      BY <2>1 DEF WakeClose
    <2>3. wferr[w] <=> verdict[w] = "failed"
      BY <1>1
    <2> QED
      BY <1>1, <1>2, <2>1, <2>2, <2>3 DEF RiderVerdict
  <1>4. ASSUME NEW o \in Workers, o \notin Riders(w), o # w
        PROVE  /\ pc'[o] = pc[o] /\ op'[o] = op[o] /\ verdict'[o] = verdict[o]
               /\ wferr'[o] <=> wferr[o]
    BY <1>2, <1>4 DEF WakeClose
  <1>5. op'[w] = "none"
    BY DEF WakeClose
  <1>6. ErrorsFit'
    <2> SUFFICES ASSUME NEW o \in Workers
                 PROVE  /\ wferr'[o] <=> op'[o] = "wake" /\ pc'[o] # "w_ride"
                                           /\ verdict'[o] = "failed"
                        /\ op'[o] = "wake" /\ pc'[o] \in Unanswered
                             => verdict'[o] = "none"
      OBVIOUS
    <2>1. CASE o \in Riders(w)
      BY <1>3, <2>1
    <2>2. CASE o = w
      BY <1>2, <1>5, <2>2
    <2>3. CASE o \notin Riders(w) /\ o # w
      BY <1>4, <2>3
    <2> QED
      BY <2>1, <2>2, <2>3
  <1>7. ASSUME NEW r \in Workers, pc[r] = "w_ride", pc'[r] = "idle"
        PROVE  r \in Riders(w)
    BY <1>1, <1>4, <1>7
  <1> QED
    BY <1>3, <1>6, <1>7

\* Delete, purge and snapshot.
LEMMA LockedFits ==
  ASSUME VerdictInv, NEW w \in Workers, LockedStep(w)
  PROVE  ErrorsFit' /\ RidersStay
  <1> USE DEF Skip, GiveUp, ReturnUnlocking, Return
  <1>1. CASE DeleteLock(w) \/ PurgeLock(w) \/ SnapshotLock(w)
    BY <1>1 DEF DeleteLock, PurgeLock, SnapshotLock, LockId
  <1>2. CASE DeleteGet(w)
    BY <1>2 DEF DeleteGet
  <1>3. CASE DeleteRemove(w)
    BY <1>3 DEF DeleteRemove, RemoveContainer
  <1>4. CASE PurgeInspect(w)
    BY <1>4 DEF PurgeInspect
  <1>5. CASE PurgeStop(w)
    BY <1>5 DEF PurgeStop
  <1>6. CASE PurgeRemove(w)
    BY <1>6 DEF PurgeRemove, RemoveContainer
  <1>7. CASE RemoveRow(w)
    BY <1>7 DEF RemoveRow
  <1>8. CASE SnapshotGet(w)
    BY <1>8 DEF SnapshotGet
  <1>9. CASE SnapshotDone(w)
    BY <1>9 DEF SnapshotDone
  <1> QED
    BY <1>1, <1>2, <1>3, <1>4, <1>5, <1>6, <1>7, <1>8, <1>9 DEF LockedStep

\* Create.
LEMMA CreateFits ==
  ASSUME VerdictInv, NEW w \in Workers, CreateStep(w)
  PROVE  ErrorsFit' /\ RidersStay
  <1> USE DEF Skip, Return
  <1>1. CASE CreateGet(w)
    BY <1>1 DEF CreateGet
  <1>2. CASE CreateInsert(w)
    BY <1>2 DEF CreateInsert
  <1>3. CASE CreateProvision(w)
    BY <1>3 DEF CreateProvision
  <1>4. CASE CreateEnv(w)
    BY <1>4 DEF CreateEnv
  <1>5. CASE CreateRun(w)
    BY <1>5 DEF CreateRun
  <1>6. CASE CreateInspect(w)
    BY <1>6 DEF CreateInspect
  <1>7. CASE CreateMark(w)
    BY <1>7 DEF CreateMark
  <1>8. CASE AbortRemove(w)
    BY <1>8 DEF AbortRemove
  <1>9. CASE AbortMarkError(w)
    BY <1>9 DEF AbortMarkError
  <1> QED
    BY <1>1, <1>2, <1>3, <1>4, <1>5, <1>6, <1>7, <1>8, <1>9 DEF CreateStep

\* An operation begins with no error and no answer.
LEMMA BeginFits ==
  ASSUME VerdictInv, NEW w \in Workers,
         (\E i \in Ids : Request(w, i)) \/ BeginIdle(w) \/ BeginPressure(w)
  PROVE  ErrorsFit' /\ RidersStay
  <1> USE DEF Begin
  <1>1. ASSUME NEW i \in Ids, BeginCreate(w, i)
        PROVE  ErrorsFit' /\ RidersStay
    BY <1>1 DEF BeginCreate
  <1>2. ASSUME NEW i \in Ids, BeginWake(w, i)
        PROVE  ErrorsFit' /\ RidersStay
    BY <1>2 DEF BeginWake
  <1>3. ASSUME NEW i \in Ids,
               BeginDelete(w, i) \/ BeginPurge(w, i) \/ BeginSnapshot(w, i)
        PROVE  ErrorsFit' /\ RidersStay
    BY <1>3 DEF BeginDelete, BeginPurge, BeginSnapshot, BeginLocked
  <1>4. ASSUME NEW i \in Ids, BeginStop(w, i)
        PROVE  ErrorsFit' /\ RidersStay
    BY <1>4 DEF BeginStop
  <1>5. CASE BeginIdle(w)
    BY <1>5 DEF BeginIdle
  <1>6. CASE BeginPressure(w)
    BY <1>6 DEF BeginPressure
  <1> QED
    BY <1>1, <1>2, <1>3, <1>4, <1>5, <1>6 DEF Request

\* Exits, restarts and the boot reconciler.
LEMMA EnvironmentFits ==
  ASSUME VerdictInv,
         (\E i \in Ids : ContainerExits(i) \/ ReconcileRow(i)) \/ Restart \/ Listen
  PROVE  ErrorsFit' /\ (RidersStay \/ phase' = "boot")
  <1>1. ASSUME NEW i \in Ids, ContainerExits(i) \/ ReconcileRow(i)
        PROVE  ErrorsFit' /\ RidersStay
    BY <1>1 DEF ContainerExits, ReconcileRow
  <1>2. CASE Restart
    BY <1>2 DEF Restart
  <1>3. CASE Listen
    BY <1>3 DEF Listen
  <1> QED
    BY <1>1, <1>2, <1>3

HIDE DEF VerdictInv, LifecycleInv, TypeOK, StepsFit, ErrorsFit, RidersStay,
         Unanswered, CreateSteps, StopSteps, AdmitSteps, WakeSteps, LockedSteps,
         LockWaits, locals, boot, dedup, Goto

\* Each step keeps the invariant, and ends riders' waits only as a leader's
\* close or as a restart.
LEMMA VerdictNext ==
  ASSUME VerdictInv, Next
  PROVE  /\ ErrorsFit'
         /\ RidersStay \/ phase' = "boot" \/ \E w \in Workers : WakeClose(w)
  <1>1. ASSUME NEW w \in Workers, Progress(w), ~WakeClose(w)
        PROVE  ErrorsFit' /\ RidersStay
    BY <1>1, AdmitFits, StopFitsVerdict, WakeFitsVerdict, LockedFits, CreateFits
       DEF Progress
  <1>2. ASSUME NEW w \in Workers, WakeClose(w)
        PROVE  ErrorsFit'
    BY <1>2, CloseFits
  <1>3. ASSUME NEW w \in Workers,
               (\E i \in Ids : Request(w, i)) \/ BeginIdle(w) \/ BeginPressure(w)
        PROVE  ErrorsFit' /\ RidersStay
    BY <1>3, BeginFits
  <1> QED
    BY <1>1, <1>2, <1>3, EnvironmentFits DEF Next

\* inflightWake.err is what the leader told its own client, at every step.
THEOREM VerdictInvariant == Spec => []VerdictInv
  <1>1. VerdictInv /\ [Next]_vars => VerdictInv'
    <2> SUFFICES ASSUME VerdictInv, [Next]_vars PROVE VerdictInv'
      OBVIOUS
    <2>1. LifecycleInv'
      BY NextInv DEF VerdictInv
    <2>2. CASE UNCHANGED vars
      BY <2>1, <2>2 DEF VerdictInv, ErrorsFit, vars
    <2> QED
      BY <2>1, <2>2, VerdictNext DEF VerdictInv
  <1> QED
    BY <1>1, VerdictInit, PTL DEF Spec

\* A rider answers "failed" exactly when its leader told its own client so, also
\* when another wake of the sandbox has begun in between.
THEOREM HardFailures == Spec => HardFailureReachesRiders
  <1>1. VerdictInv /\ [Next]_vars =>
          [\A r \in Workers : RiderAnswered(r) =>
             (verdict'[r] = "failed" <=> verdict[wf[r]] = "failed")]_vars
    <2> SUFFICES ASSUME VerdictInv, Next, NEW r \in Workers, RiderAnswered(r)
                 PROVE  verdict'[r] = "failed" <=> verdict[wf[r]] = "failed"
      OBVIOUS
    <2>1. pc[r] = "w_ride" /\ pc'[r] = "idle" /\ phase' = "up"
      BY DEF RiderAnswered
    <2>2. PICK w \in Workers : WakeClose(w)
      BY <2>1, VerdictNext DEF RidersStay
    <2> QED
      BY <2>1, <2>2, CloseFits
  <1> QED
    BY <1>1, VerdictInvariant, PTL DEF Spec, HardFailureReachesRiders

=============================================================================
