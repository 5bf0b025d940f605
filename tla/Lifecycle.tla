----------------------------- MODULE Lifecycle -----------------------------
(***************************************************************************)
(* The lifecycle of a sandbox: its row in the SQLite store, its Docker     *)
(* container, and the concurrent activities of sandboxd that move both.    *)
(*                                                                         *)
(* Every HTTP request and every reaper tick is run by a worker (a          *)
(* goroutine).  One action is one call on the store or on the Docker       *)
(* daemon, so the workers interleave at every point where the Go code may  *)
(* be preempted between two of them.                                       *)
(*                                                                         *)
(*   create    internal/api/handlers.go       handleCreate  (no id lock)   *)
(*   wake      internal/wake/handler.go       serve                        *)
(*   delete    internal/api/handlers.go       handleDelete                 *)
(*   purge     internal/api/external_purge.go purgeOne                     *)
(*   snapshot  internal/snapshot/take.go      Take                         *)
(*   stop      internal/api/v1.go             v1StopSandbox (no id lock)   *)
(*   idle      internal/reaper/idle.go        tick          (no id lock)   *)
(*   pressure  internal/reaper/pressure.go    tick          (no id lock)   *)
(*                                                                         *)
(* Simplifications.  Time, memory readings and the skip rules of the       *)
(* reapers are nondeterministic choices here.  Workspace data and owners   *)
(* are left out: nothing below depends on them.  The egress branches are   *)
(* dead in this build (main.go leaves the egress manager nil).             *)
(***************************************************************************)
EXTENDS Naturals, FiniteSets

CONSTANTS
  Ids,          \* sandbox ids
  Workers,      \* goroutines
  NoId,         \* "no sandbox"
  NoWorker,     \* "nobody"
  Scenarios     \* the mixes of operations and faults to consider

OpNames    == {"create", "wake", "delete", "purge", "snapshot",
               "stop", "idle", "pressure"}
FaultNames == {"docker",   \* a docker command fails, applied or not
               "store",    \* a store call fails, committed or not
               "meminfo",  \* /proc/meminfo cannot be read
               "exit",     \* a container's main process ends by itself
               "crash",    \* sandboxd, or the whole host, restarts
               "env"}      \* a create request carries a malformed env var

ASSUME ConstantsAssumption ==
  /\ NoWorker \notin Workers
  /\ NoId \notin Ids
  /\ Scenarios \subseteq [ops : SUBSET OpNames,
                          faults : SUBSET FaultNames,
                          maxStoppers : Nat]

VARIABLES
  scenario,     \* the mix of this behaviour; never changes
  row,          \* row[i]: the status column of sandbox i, "none" if no row
  ctr,          \* ctr[i]: the container s-<i> as the Docker daemon knows it
  lock,         \* lock[i]: holder of the keyed mutex of i
  inflight,     \* inflight[i]: leader of the wake of i in the dedup map
  wf,           \* wf[w]: the leader whose inflightWake w waits on
  pc,           \* pc[w]: the next step of worker w
  op,           \* op[w]: the operation w is running
  arg,          \* arg[w]: the sandbox it was asked for
  victim,       \* victim[w]: the sandbox a stopper is stopping
  queue,        \* queue[w]: candidates an idle tick still has to visit
  wferr,        \* wferr[w]: the leader's inflightWake.err is not nil
  verdict,      \* verdict[w]: what the last wake request of w was told
  phase,        \* "up" once the listener accepts requests, else "boot"
  unreconciled  \* rows the boot reconciler has not visited yet

dedup  == <<inflight, wf>>
locals == <<op, arg, victim, queue, wferr>>
boot   == <<phase, unreconciled>>
vars   == <<scenario, row, ctr, lock, inflight, wf, pc, op, arg, victim, queue,
            wferr, verdict, phase, unreconciled>>

Ops         == scenario.ops          \* what clients and loops may begin
Faults      == scenario.faults       \* what may go wrong
MaxStoppers == scenario.maxStoppers  \* stop, idle and pressure operations
                                     \* in progress at once

Statuses   == {"none", "creating", "running", "stopped", "error"}
CtrStates  == {"absent", "running", "exited"}
Verdicts   == {"none", "ok", "refused", "failed"}
Stoppers   == {"stop", "idle", "pressure"}

CreateSteps == {"c_get", "c_insert", "c_provision", "c_env", "c_run",
                "c_inspect", "c_mark", "c_remove", "c_error"}
StopSteps   == {"t_list", "i_next", "s_stop", "s_mark"}
AdmitSteps  == {"a_first", "a_second"}
WakeSteps   == {"w_ride", "w_lock", "w_get", "w_start", "w_inspect",
                "w_mark", "w_unlock", "w_leave", "w_close"}
LockedSteps == {"d_get", "d_remove", "d_row",
                "p_inspect", "p_stop", "p_remove", "p_row",
                "n_get", "n_copy"}
LockWaits   == {"d_lock", "p_lock", "n_lock"}
Steps == {"idle"} \cup CreateSteps \cup StopSteps \cup AdmitSteps
           \cup WakeSteps \cup LockedSteps \cup LockWaits

Fault(f) == f \in Faults

-----------------------------------------------------------------------------
(***************************************************************************)
(* Helpers                                                                 *)
(***************************************************************************)

\* An UPDATE ... WHERE id=? of the status column: a missing row is not an
\* error and stays missing (store/writer.go, the Mark functions).
SetStatus(i, s) ==
  row' = [row EXCEPT ![i] = IF @ = "none" THEN "none" ELSE s]

Goto(w, step) == pc' = [pc EXCEPT ![w] = step]

\* The operation of w returns; its frame is gone.
Return(w) ==
  /\ pc'     = [pc EXCEPT ![w] = "idle"]
  /\ op'     = [op EXCEPT ![w] = "none"]
  /\ arg'    = [arg EXCEPT ![w] = NoId]
  /\ victim' = [victim EXCEPT ![w] = NoId]
  /\ queue'  = [queue EXCEPT ![w] = {}]
  /\ wferr'  = [wferr EXCEPT ![w] = FALSE]

\* Return with the deferred Unlock of the keyed mutex.
ReturnUnlocking(w) ==
  /\ lock' = [lock EXCEPT ![arg[w]] = NoWorker]
  /\ Return(w)

Begin(w, o, i, step) ==
  /\ phase = "up"
  /\ pc[w] = "idle"
  /\ o \in Ops
  /\ pc'      = [pc EXCEPT ![w] = step]
  /\ op'      = [op EXCEPT ![w] = o]
  /\ arg'     = [arg EXCEPT ![w] = i]
  /\ verdict' = [verdict EXCEPT ![w] = "none"]

\* Mutant of LockId: the lock is taken without waiting for its holder.
LockIdBarging(w, from, to) ==
  /\ pc[w] = from
  /\ lock' = [lock EXCEPT ![arg[w]] = w]
  /\ Goto(w, to)
  /\ UNCHANGED <<row, ctr, dedup, locals, verdict, boot>>

\* Lock(id) of the keyed mutex: blocks until it is free (idlock.go).
LockId(w, from, to) ==
  /\ pc[w] = from
  /\ lock[arg[w]] = NoWorker
  /\ lock' = [lock EXCEPT ![arg[w]] = w]
  /\ Goto(w, to)
  /\ UNCHANGED <<row, ctr, dedup, locals, verdict, boot>>

\* A step that only moves w to its next step.
Skip(w, step) ==
  /\ Goto(w, step)
  /\ UNCHANGED <<row, ctr, lock, dedup, locals, verdict, boot>>

-----------------------------------------------------------------------------
(***************************************************************************)
(* Admission (wake/admit.go), shared by create and wake.  The readings of  *)
(* /proc/meminfo decide; here they are choices.  A low reading runs one    *)
(* pressure tick in the caller's own goroutine, under whatever lock the    *)
(* caller holds, and reads again.                                          *)
(***************************************************************************)
AdmitOk(w) ==
  /\ pc[w] \in AdmitSteps
  /\ Skip(w, IF op[w] = "create" THEN "c_get" ELSE "w_start")

\* "wakes_refused" or "low_memory".  A wake tells its client 503 and leaves
\* inflightWake.err nil; a create answers 503.
AdmitDenied(w) ==
  /\ pc[w] \in AdmitSteps
  /\ \/ /\ op[w] = "create"
        /\ Return(w)
        /\ UNCHANGED verdict
     \/ /\ op[w] = "wake"
        /\ verdict' = [verdict EXCEPT ![w] = "refused"]
        /\ Goto(w, "w_unlock")
        /\ UNCHANGED locals
  /\ UNCHANGED <<row, ctr, lock, dedup, boot>>

\* /proc/meminfo cannot be read: a create goes on, a wake fails.
AdmitError(w) ==
  /\ pc[w] \in AdmitSteps
  /\ Fault("meminfo")
  /\ \/ /\ op[w] = "create"
        /\ Goto(w, "c_get")
        /\ UNCHANGED <<verdict, wferr>>
     \/ /\ op[w] = "wake"
        /\ verdict' = [verdict EXCEPT ![w] = "failed"]
        /\ wferr'   = [wferr EXCEPT ![w] = TRUE]
        /\ Goto(w, "w_unlock")
  /\ UNCHANGED <<row, ctr, lock, dedup, op, arg, victim, queue, boot>>

-----------------------------------------------------------------------------
(***************************************************************************)
(* Stopping: v1StopSandbox, the idle reaper, the pressure reaper.  All     *)
(* three read the row first and stop the container and write the row       *)
(* later, without the id lock and without looking at the row again.        *)
(***************************************************************************)
StoppersInProgress ==
  {w \in Workers : op[w] \in Stoppers \/ pc[w] \in StopSteps}

MayStop == Cardinality(StoppersInProgress) < MaxStoppers

\* Admit's synchronous pressure tick.
AdmitTick(w) == pc[w] = "a_first" /\ MayStop /\ Skip(w, "t_list")

\* v1StopSandbox: the row is running and runtimed reports no active task.
\* Every other answer changes nothing.
BeginStop(w, i) ==
  /\ Begin(w, "stop", i, "s_stop")
  /\ MayStop
  /\ row[i] = "running"
  /\ victim' = [victim EXCEPT ![w] = i]
  /\ UNCHANGED <<row, ctr, lock, dedup, queue, wferr, boot>>

\* Idle tick: the candidate list is read once, at the start.
BeginIdle(w) ==
  /\ Begin(w, "idle", NoId, "i_next")
  /\ MayStop
  /\ \E S \in SUBSET {i \in Ids : row[i] = "running"} :
       queue' = [queue EXCEPT ![w] = S]
  /\ UNCHANGED <<row, ctr, lock, dedup, victim, wferr, boot>>

\* The next candidate is stopped, or skipped by a skip rule; the tick ends
\* when the list is done.
IdleNext(w) ==
  /\ pc[w] = "i_next"
  /\ \/ /\ queue[w] = {}
        /\ Return(w)
     \/ \E i \in queue[w] :
          /\ queue' = [queue EXCEPT ![w] = @ \ {i}]
          /\ \/ /\ victim' = [victim EXCEPT ![w] = i]
                /\ Goto(w, "s_stop")
             \/ UNCHANGED <<victim, pc>>
          /\ UNCHANGED <<op, arg, wferr>>
  /\ UNCHANGED <<row, ctr, lock, dedup, verdict, boot>>

BeginPressure(w) ==
  /\ Begin(w, "pressure", NoId, "t_list")
  /\ MayStop
  /\ UNCHANGED <<row, ctr, lock, dedup, victim, queue, wferr, boot>>

\* Where a stopper goes when it is done with its victim.
StopperDone(w) ==
  CASE op[w] \in {"stop", "pressure"} -> Return(w)
    [] op[w] = "idle" ->
         /\ victim' = [victim EXCEPT ![w] = NoId]
         /\ Goto(w, "i_next")
         /\ UNCHANGED <<op, arg, queue, wferr>>
    [] OTHER ->
         /\ victim' = [victim EXCEPT ![w] = NoId]
         /\ Goto(w, "a_second")
         /\ UNCHANGED <<op, arg, queue, wferr>>

\* Pressure tick: healthy memory or no candidate ends it; otherwise one
\* running row (oldest idle, or heaviest in an emergency) is the victim.
TickList(w) ==
  /\ pc[w] = "t_list"
  /\ \/ StopperDone(w)
     \/ \E i \in Ids :
          /\ row[i] = "running"
          /\ victim' = [victim EXCEPT ![w] = i]
          /\ Goto(w, "s_stop")
          /\ UNCHANGED <<op, arg, queue, wferr>>
  /\ UNCHANGED <<row, ctr, lock, dedup, verdict, boot>>

\* docker stop: a no-op on an exited container, an error on a missing one.
\* A command that times out may still have stopped it.
DockerStop(w) ==
  /\ pc[w] = "s_stop"
  /\ LET i == victim[w]
         stopped == [ctr EXCEPT ![i] = "exited"]
     IN \/ /\ ctr[i] # "absent"
           /\ ctr' = stopped
           /\ Goto(w, "s_mark")
           /\ UNCHANGED locals
        \/ /\ ctr[i] = "absent" \/ Fault("docker")
           /\ UNCHANGED ctr
           /\ StopperDone(w)
        \/ /\ ctr[i] # "absent" /\ Fault("docker")
           /\ ctr' = stopped
           /\ StopperDone(w)
  /\ UNCHANGED <<row, lock, dedup, verdict, boot>>

MarkStoppedAt(w) ==
  /\ pc[w] = "s_mark"
  /\ \/ SetStatus(victim[w], "stopped")
     \/ Fault("store") /\ UNCHANGED row
  /\ StopperDone(w)
  /\ UNCHANGED <<ctr, lock, dedup, verdict, boot>>

-----------------------------------------------------------------------------
(***************************************************************************)
(* Wake (wake/handler.go).  The dedup map elects a leader; later callers   *)
(* ride on it.  The leader holds the id lock from w_get to w_unlock; the   *)
(* deferred calls run in reverse, so the lock is released before the       *)
(* leader leaves the dedup map.                                            *)
(***************************************************************************)
\* Mutant of BeginWake: the dedup map is not consulted.
BeginWakeAlone(w, i) ==
  /\ inflight' = [inflight EXCEPT ![i] = w]
  /\ Begin(w, "wake", i, "w_lock")
  /\ UNCHANGED <<row, ctr, lock, wf, victim, queue, wferr, boot>>

BeginWake(w, i) ==
  /\ \/ /\ inflight[i] = NoWorker
        /\ inflight' = [inflight EXCEPT ![i] = w]
        /\ Begin(w, "wake", i, "w_lock")
        /\ UNCHANGED wf
     \/ /\ inflight[i] # NoWorker
        /\ wf' = [wf EXCEPT ![w] = inflight[i]]
        /\ Begin(w, "wake", i, "w_ride")
        /\ UNCHANGED inflight
  /\ UNCHANGED <<row, ctr, lock, victim, queue, wferr, boot>>

WakeLock(w) == LockId(w, "w_lock", "w_get")

\* The leader answers its own client and starts to unwind.
WakeAnswer(w, v) ==
  /\ verdict' = [verdict EXCEPT ![w] = v]
  /\ wferr'   = [wferr EXCEPT ![w] = (v = "failed")]
  /\ Goto(w, "w_unlock")

\* The status switch.  A stopped private sandbox may also be refused by the
\* preview-token gate.  Only a store error sets inflightWake.err.
WakeGet(w) ==
  /\ pc[w] = "w_get"
  /\ LET s == row[arg[w]]
     IN \/ s = "running" /\ WakeAnswer(w, "ok")
        \/ s # "running" /\ WakeAnswer(w, "refused")
        \/ s = "stopped" /\ Goto(w, "a_first") /\ UNCHANGED <<verdict, wferr>>
        \/ Fault("store") /\ WakeAnswer(w, "failed")
  /\ UNCHANGED <<row, ctr, lock, dedup, op, arg, victim, queue, boot>>

WakeStart(w) ==
  /\ pc[w] = "w_start"
  /\ LET i == arg[w]
         started == [ctr EXCEPT ![i] = "running"]
     IN \/ /\ ctr[i] # "absent"
           /\ ctr' = started
           /\ Goto(w, "w_inspect")
           /\ UNCHANGED <<verdict, wferr>>
        \/ /\ ctr[i] = "absent" \/ Fault("docker")
           /\ UNCHANGED ctr
           /\ WakeAnswer(w, "failed")
        \/ /\ ctr[i] # "absent" /\ Fault("docker")
           /\ ctr' = started
           /\ WakeAnswer(w, "failed")
  /\ UNCHANGED <<row, lock, dedup, op, arg, victim, queue, boot>>

\* Inspect does not ask whether the container is still running.
WakeInspect(w) ==
  /\ pc[w] = "w_inspect"
  /\ \/ /\ ctr[arg[w]] # "absent"
        /\ Goto(w, "w_mark")
        /\ UNCHANGED <<verdict, wferr>>
     \/ /\ ctr[arg[w]] = "absent" \/ Fault("docker")
        /\ WakeAnswer(w, "failed")
  /\ UNCHANGED <<row, ctr, lock, dedup, op, arg, victim, queue, boot>>

\* Mutant of MarkRunningWoke: the woken sandbox keeps its status.
MarkRunningWokeForgets(w) ==
  /\ pc[w] = "w_mark"
  /\ WakeAnswer(w, "ok")
  /\ UNCHANGED <<row, ctr, lock, dedup, op, arg, victim, queue, boot>>

\* UPDATE status='running', last_wake_at.  A call that returns an error may
\* still have been committed by the writer.
MarkRunningWoke(w) ==
  /\ pc[w] = "w_mark"
  /\ \/ SetStatus(arg[w], "running") /\ WakeAnswer(w, "ok")
     \/ /\ Fault("store")
        /\ UNCHANGED row \/ SetStatus(arg[w], "running")
        /\ WakeAnswer(w, "failed")
  /\ UNCHANGED <<ctr, lock, dedup, op, arg, victim, queue, boot>>

WakeUnlock(w) ==
  /\ pc[w] = "w_unlock"
  /\ lock' = [lock EXCEPT ![arg[w]] = NoWorker]
  /\ Goto(w, "w_leave")
  /\ UNCHANGED <<row, ctr, dedup, locals, verdict, boot>>

\* The deferred function deletes the entry of the dedup map ...
WakeLeave(w) ==
  /\ pc[w] = "w_leave"
  /\ inflight' = [inflight EXCEPT ![arg[w]] = NoWorker]
  /\ Goto(w, "w_close")
  /\ UNCHANGED <<row, ctr, lock, wf, locals, verdict, boot>>

Riders(w) == {r \in Workers : pc[r] = "w_ride" /\ wf[r] = w}

\* Mutant of RiderVerdict: a rider does not look at wf.err.
RiderVerdictBlind(w) == "ok"

RiderVerdict(w) == IF wferr[w] THEN "failed" ELSE "ok"

\* Mutant of WakeClose: an early return skips close(wf.done).
WakeCloseForgotten(w) ==
  /\ pc[w] = "w_close"
  /\ Return(w)
  /\ UNCHANGED <<row, ctr, lock, dedup, verdict, boot>>

\* ... and closes wf.done, outside the map's mutex: every rider of this wake
\* reads wf.err and answers.  A new wake may have begun in between.
WakeClose(w) ==
  /\ pc[w] = "w_close"
  /\ LET gone == Riders(w) \cup {w}
     IN /\ verdict' = [r \in Workers |->
                         IF r \in Riders(w) THEN RiderVerdict(w)
                                            ELSE verdict[r]]
        /\ pc'  = [r \in Workers |-> IF r \in gone THEN "idle" ELSE pc[r]]
        /\ op'  = [r \in Workers |-> IF r \in gone THEN "none" ELSE op[r]]
        /\ arg' = [r \in Workers |-> IF r \in gone THEN NoId ELSE arg[r]]
        /\ wf'  = [r \in Workers |-> IF r \in gone THEN NoWorker ELSE wf[r]]
        /\ wferr' = [wferr EXCEPT ![w] = FALSE]
  /\ UNCHANGED <<row, ctr, lock, inflight, victim, queue, boot>>

-----------------------------------------------------------------------------
(***************************************************************************)
(* Create (api/handlers.go, handleCreate).  No id lock.                    *)
(***************************************************************************)
BeginCreate(w, i) ==
  /\ Begin(w, "create", i, "a_first")
  /\ UNCHANGED <<row, ctr, lock, dedup, victim, queue, wferr, boot>>

\* Conflict if a row exists, if the workspace belongs to someone else, or if
\* the read fails.
CreateGet(w) ==
  /\ pc[w] = "c_get"
  /\ \/ row[arg[w]] = "none" /\ Goto(w, "c_insert") /\ UNCHANGED locals
     \/ Return(w)
  /\ UNCHANGED <<row, ctr, lock, dedup, verdict, boot>>

\* INSERT: the primary key rejects a row that appeared since the Get.  A
\* cancelled request may return an error after the row was committed.
CreateInsert(w) ==
  /\ pc[w] = "c_insert"
  /\ LET inserted == [row EXCEPT ![arg[w]] = "creating"]
     IN \/ /\ row[arg[w]] = "none"
           /\ row' = inserted
           /\ Goto(w, "c_provision")
           /\ UNCHANGED locals
        \/ /\ row[arg[w]] # "none" \/ Fault("store")
           /\ UNCHANGED row
           /\ Return(w)
        \/ /\ row[arg[w]] = "none" /\ Fault("store")
           /\ row' = inserted
           /\ Return(w)
  /\ UNCHANGED <<ctr, lock, dedup, verdict, boot>>

CreateProvision(w) ==
  /\ pc[w] = "c_provision"
  /\ \/ Skip(w, "c_env")
     \/ Fault("docker") /\ Skip(w, "c_remove")

\* A malformed env var is answered with 400; this path does not abort.
CreateEnv(w) ==
  /\ pc[w] = "c_env"
  /\ \/ Skip(w, "c_run")
     \/ /\ Fault("env")
        /\ Return(w)
        /\ UNCHANGED <<row, ctr, lock, dedup, verdict, boot>>

\* docker run: the name must be free.  A failed run may leave a container.
CreateRun(w) ==
  /\ pc[w] = "c_run"
  /\ LET i == arg[w]
     IN \/ /\ ctr[i] = "absent"
           /\ ctr' = [ctr EXCEPT ![i] = "running"]
           /\ Goto(w, "c_inspect")
        \/ /\ ctr[i] # "absent" \/ Fault("docker")
           /\ UNCHANGED ctr
           /\ Goto(w, "c_remove")
        \/ /\ ctr[i] = "absent" /\ Fault("docker")
           /\ \E s \in {"running", "exited"} : ctr' = [ctr EXCEPT ![i] = s]
           /\ Goto(w, "c_remove")
  /\ UNCHANGED <<row, lock, dedup, locals, verdict, boot>>

CreateInspect(w) ==
  /\ pc[w] = "c_inspect"
  /\ \/ ctr[arg[w]] # "absent" /\ Skip(w, "c_mark")
     \/ (ctr[arg[w]] = "absent" \/ Fault("docker")) /\ Skip(w, "c_remove")

\* MarkRunning; the later activity bump and re-read change no status.
CreateMark(w) ==
  /\ pc[w] = "c_mark"
  /\ \/ SetStatus(arg[w], "running") /\ Return(w)
     \/ /\ Fault("store")
        /\ UNCHANGED row \/ SetStatus(arg[w], "running")
        /\ Goto(w, "c_remove")
        /\ UNCHANGED locals
  /\ UNCHANGED <<ctr, lock, dedup, verdict, boot>>

\* abort(): docker rm -f, errors ignored ...
AbortRemove(w) ==
  /\ pc[w] = "c_remove"
  /\ \/ ctr' = [ctr EXCEPT ![arg[w]] = "absent"]
     \/ Fault("docker") /\ UNCHANGED ctr
  /\ Goto(w, "c_error")
  /\ UNCHANGED <<row, lock, dedup, locals, verdict, boot>>

\* Mutant of AbortMarkError: the row is left as it is.
AbortOnlyRemoves(w) ==
  /\ pc[w] = "c_error"
  /\ Return(w)
  /\ UNCHANGED <<row, ctr, lock, dedup, verdict, boot>>

\* ... then MarkError under the request's context, errors ignored.
AbortMarkError(w) ==
  /\ pc[w] = "c_error"
  /\ \/ SetStatus(arg[w], "error")
     \/ Fault("store") /\ UNCHANGED row
  /\ Return(w)
  /\ UNCHANGED <<ctr, lock, dedup, verdict, boot>>

-----------------------------------------------------------------------------
(***************************************************************************)
(* Delete, purge and snapshot: each holds the id lock throughout.          *)
(***************************************************************************)
BeginLocked(w, o, i, step) ==
  /\ Begin(w, o, i, step)
  /\ UNCHANGED <<row, ctr, lock, dedup, victim, queue, wferr, boot>>

BeginDelete(w, i)   == BeginLocked(w, "delete", i, "d_lock")
BeginPurge(w, i)    == BeginLocked(w, "purge", i, "p_lock")
BeginSnapshot(w, i) == BeginLocked(w, "snapshot", i, "n_lock")

DeleteLock(w)   == LockId(w, "d_lock", "d_get")
PurgeLock(w)    == LockId(w, "p_lock", "p_inspect")
SnapshotLock(w) == LockId(w, "n_lock", "n_get")

\* Mutant of GiveUp: an early return without the deferred unlock.
GiveUpHolding(w) ==
  /\ Return(w)
  /\ UNCHANGED <<row, ctr, lock, dedup, verdict, boot>>

\* The operation gives up: deferred unlock, nothing else.
GiveUp(w) ==
  /\ ReturnUnlocking(w)
  /\ UNCHANGED <<row, ctr, dedup, verdict, boot>>

DeleteGet(w) ==
  /\ pc[w] = "d_get"
  /\ \/ row[arg[w]] # "none" /\ Skip(w, "d_remove")
     \/ (row[arg[w]] = "none" \/ Fault("store")) /\ GiveUp(w)

\* docker rm -f, idempotent, of the operation's container, and the release of
\* its workspace.  A failure of either, before or after the container is gone,
\* leaves the row for a retry.
RemoveContainer(w, to) ==
  LET removed == [ctr EXCEPT ![arg[w]] = "absent"]
  IN /\ \/ /\ ctr' = removed
           /\ Goto(w, to)
           /\ UNCHANGED <<lock, locals>>
        \/ /\ Fault("docker")
           /\ ctr' = removed \/ UNCHANGED ctr
           /\ ReturnUnlocking(w)
     /\ UNCHANGED <<row, dedup, verdict, boot>>

DeleteRemove(w) == pc[w] = "d_remove" /\ RemoveContainer(w, "d_row")

\* DELETE FROM sandbox, the last step of both delete and purge.
RemoveRow(w) ==
  /\ pc[w] \in {"d_row", "p_row"}
  /\ \/ row' = [row EXCEPT ![arg[w]] = "none"]
     \/ Fault("store") /\ UNCHANGED row
  /\ ReturnUnlocking(w)
  /\ UNCHANGED <<ctr, dedup, verdict, boot>>

PurgeInspect(w) ==
  /\ pc[w] = "p_inspect"
  /\ \/ ctr[arg[w]] # "absent" /\ Skip(w, "p_stop")
     \/ ctr[arg[w]] = "absent" /\ Skip(w, "p_row")
     \/ Fault("docker") /\ GiveUp(w)

\* docker stop, errors ignored.
PurgeStop(w) ==
  /\ pc[w] = "p_stop"
  /\ \/ /\ ctr[arg[w]] # "absent"
        /\ ctr' = [ctr EXCEPT ![arg[w]] = "exited"]
     \/ (ctr[arg[w]] = "absent" \/ Fault("docker")) /\ UNCHANGED ctr
  /\ Goto(w, "p_remove")
  /\ UNCHANGED <<row, lock, dedup, locals, verdict, boot>>

\* The workspace and snapshot directories go with the container.
PurgeRemove(w) == pc[w] = "p_remove" /\ RemoveContainer(w, "p_row")

\* Mutant of SnapshotGet: the status of the row is not checked.
SnapshotGetUnchecked(w) == pc[w] = "n_get" /\ Skip(w, "n_copy")

\* Take refuses a running row; a missing row is fine (orphan workspace).  It
\* gives up as well if the store fails or there is no `<id>.img`: workspaces
\* kept as plain directories have none.
SnapshotGet(w) ==
  /\ pc[w] = "n_get"
  /\ \/ row[arg[w]] # "running" /\ Skip(w, "n_copy")
     \/ GiveUp(w)

\* The workspace is read between n_get and this step.
SnapshotDone(w) == pc[w] = "n_copy" /\ GiveUp(w)

-----------------------------------------------------------------------------
(***************************************************************************)
(* The environment: containers that exit, sandboxd or host restarts, and   *)
(* the boot reconciler (reconcile/reconcile.go), which runs to its end     *)
(* before the listener accepts requests.                                   *)
(***************************************************************************)
ContainerExits(i) ==
  /\ Fault("exit")
  /\ ctr[i] = "running"
  /\ ctr' = [ctr EXCEPT ![i] = "exited"]
  /\ UNCHANGED <<row, lock, dedup, pc, locals, verdict, boot>>

\* All of sandboxd's memory is lost.  Containers have no restart policy, so
\* after a host reboot none of them runs.
Restart ==
  /\ Fault("crash")
  /\ phase' = "boot"
  /\ unreconciled' = Ids
  /\ lock'     = [i \in Ids |-> NoWorker]
  /\ inflight' = [i \in Ids |-> NoWorker]
  /\ wf'       = [w \in Workers |-> NoWorker]
  /\ pc'       = [w \in Workers |-> "idle"]
  /\ op'       = [w \in Workers |-> "none"]
  /\ arg'      = [w \in Workers |-> NoId]
  /\ victim'   = [w \in Workers |-> NoId]
  /\ queue'    = [w \in Workers |-> {}]
  /\ wferr'    = [w \in Workers |-> FALSE]
  /\ verdict'  = [w \in Workers |-> "none"]
  /\ \/ UNCHANGED ctr
     \/ ctr' = [i \in Ids |-> IF ctr[i] = "running" THEN "exited" ELSE ctr[i]]
  /\ UNCHANGED row

\* What the reconciler writes for a row it can inspect.
InspectedStatus(i) == IF ctr[i] = "running" THEN "running" ELSE "stopped"

\* Mutant of ReconcileRow: only running rows are compared with Docker.
ReconcileRunningRow(i) ==
  /\ phase = "boot"
  /\ i \in unreconciled
  /\ unreconciled' = unreconciled \ {i}
  /\ \/ row[i] # "running" /\ UNCHANGED row
     \/ row[i] = "running" /\ SetStatus(i, InspectedStatus(i))
  /\ UNCHANGED <<ctr, lock, dedup, pc, locals, verdict, phase>>

\* error rows are not listed; a creating row older than five minutes becomes
\* an error; a younger one is inspected like any other.  A failed inspect or
\* a failed write leaves the row as it is.
ReconcileRow(i) ==
  /\ phase = "boot"
  /\ i \in unreconciled
  /\ unreconciled' = unreconciled \ {i}
  /\ \/ row[i] \in {"none", "error"} /\ UNCHANGED row
     \/ row[i] = "creating" /\ SetStatus(i, "error")
     \/ row[i] \notin {"none", "error"} /\ SetStatus(i, InspectedStatus(i))
     \/ (Fault("docker") \/ Fault("store")) /\ UNCHANGED row
  /\ UNCHANGED <<ctr, lock, dedup, pc, locals, verdict, phase>>

Listen ==
  /\ phase = "boot"
  /\ unreconciled = {}
  /\ phase' = "up"
  /\ UNCHANGED <<row, ctr, lock, dedup, pc, locals, verdict, unreconciled>>

-----------------------------------------------------------------------------
\* A deployment in which nothing is going on: no sandbox, a running one, or
\* a stopped one.
QuietStates == {<<"none", "absent">>, <<"running", "running">>,
                <<"stopped", "exited">>}

Init ==
  /\ scenario \in Scenarios
  /\ \E q \in [Ids -> QuietStates] :
       /\ row = [i \in Ids |-> q[i][1]]
       /\ ctr = [i \in Ids |-> q[i][2]]
  /\ lock     = [i \in Ids |-> NoWorker]
  /\ inflight = [i \in Ids |-> NoWorker]
  /\ wf       = [w \in Workers |-> NoWorker]
  /\ pc       = [w \in Workers |-> "idle"]
  /\ op       = [w \in Workers |-> "none"]
  /\ arg      = [w \in Workers |-> NoId]
  /\ victim   = [w \in Workers |-> NoId]
  /\ queue    = [w \in Workers |-> {}]
  /\ wferr    = [w \in Workers |-> FALSE]
  /\ verdict  = [w \in Workers |-> "none"]
  /\ phase = "up"
  /\ unreconciled = {}

Request(w, i) ==
  \/ BeginCreate(w, i)
  \/ BeginWake(w, i)
  \/ BeginDelete(w, i)
  \/ BeginPurge(w, i)
  \/ BeginSnapshot(w, i)
  \/ BeginStop(w, i)

AdmitStep(w)  == AdmitOk(w) \/ AdmitDenied(w) \/ AdmitError(w) \/ AdmitTick(w)

StopStep(w)   == IdleNext(w) \/ TickList(w) \/ DockerStop(w) \/ MarkStoppedAt(w)

WakeStep(w)   == \/ WakeLock(w) \/ WakeGet(w) \/ WakeStart(w) \/ WakeInspect(w)
                 \/ MarkRunningWoke(w) \/ WakeUnlock(w) \/ WakeLeave(w)
                 \/ WakeClose(w)

CreateStep(w) == \/ CreateGet(w) \/ CreateInsert(w) \/ CreateProvision(w)
                 \/ CreateEnv(w) \/ CreateRun(w) \/ CreateInspect(w)
                 \/ CreateMark(w) \/ AbortRemove(w) \/ AbortMarkError(w)

LockedStep(w) == \/ DeleteLock(w) \/ DeleteGet(w) \/ DeleteRemove(w)
                 \/ PurgeLock(w) \/ PurgeInspect(w) \/ PurgeStop(w)
                 \/ PurgeRemove(w) \/ RemoveRow(w)
                 \/ SnapshotLock(w) \/ SnapshotGet(w) \/ SnapshotDone(w)

\* A step of an operation already begun.
Progress(w) ==
  /\ \/ AdmitStep(w) \/ StopStep(w) \/ WakeStep(w)
     \/ CreateStep(w) \/ LockedStep(w)
  /\ UNCHANGED scenario

TakesLock(w) ==
  /\ WakeLock(w) \/ DeleteLock(w) \/ PurgeLock(w) \/ SnapshotLock(w)
  /\ UNCHANGED scenario

Next ==
  /\ \/ \E w \in Workers : Progress(w)
     \/ \E w \in Workers : BeginIdle(w) \/ BeginPressure(w)
     \/ \E w \in Workers, i \in Ids : Request(w, i)
     \/ \E i \in Ids : ContainerExits(i) \/ ReconcileRow(i)
     \/ Restart
     \/ Listen
  /\ UNCHANGED scenario

Spec == Init /\ [][Next]_vars

\* Go schedules every runnable goroutine, docker and store calls return (they
\* carry timeouts or end with their request), and sync.Mutex hands a contended
\* lock to its longest waiter, so no waiter starves.
Fairness ==
  \A w \in Workers :
    /\ WF_vars(Progress(w))
    /\ SF_vars(TakesLock(w))

FairSpec == Spec /\ Fairness

-----------------------------------------------------------------------------
(***************************************************************************)
(* Properties                                                              *)
(***************************************************************************)

\* Every variable keeps its type.
TypeOK ==
  /\ row \in [Ids -> Statuses]
  /\ ctr \in [Ids -> CtrStates]
  /\ lock \in [Ids -> Workers \cup {NoWorker}]
  /\ inflight \in [Ids -> Workers \cup {NoWorker}]
  /\ wf \in [Workers -> Workers \cup {NoWorker}]
  /\ pc \in [Workers -> Steps]
  /\ op \in [Workers -> OpNames \cup {"none"}]
  /\ arg \in [Workers -> Ids \cup {NoId}]
  /\ victim \in [Workers -> Ids \cup {NoId}]
  /\ queue \in [Workers -> SUBSET Ids]
  /\ wferr \in [Workers -> BOOLEAN]
  /\ verdict \in [Workers -> Verdicts]
  /\ phase \in {"up", "boot"}
  /\ unreconciled \in SUBSET Ids

\* w is inside the section of the code that the id lock protects.
InLockedSection(w) ==
  \/ pc[w] \in LockedSteps
  \/ pc[w] \in WakeSteps \ {"w_ride", "w_lock", "w_leave", "w_close"}
  \/ op[w] = "wake" /\ pc[w] \in AdmitSteps \cup StopSteps

\* Wake, delete, purge and snapshot of one sandbox never overlap, in
\* whichever order their requests arrive and through whichever error path
\* they leave; a wake keeps the sandbox to itself even while admission runs a
\* pressure tick that stops another one (idlock.go: the lock "that snapshot,
\* restore, destroy, and wake all serialize on").
LockedSectionsExclusive ==
  \A w1, w2 \in Workers :
    (/\ InLockedSection(w1)
     /\ InLockedSection(w2)
     /\ arg[w1] = arg[w2]) => w1 = w2

IsLeader(w) == op[w] = "wake" /\ pc[w] \notin {"w_ride", "w_close"}

\* Two concurrent wake requests never both go on to docker start: at most one
\* of them leads (wake/handler.go: "two concurrent wake requests must not
\* double-start").
OneWakeLeader ==
  \A w1, w2 \in Workers :
    (/\ IsLeader(w1)
     /\ IsLeader(w2)
     /\ arg[w1] = arg[w2]) => w1 = w2

\* A request that waits on somebody else's wake waits on a worker that still
\* runs a wake of the same sandbox, and will close its channel, even if that
\* wake has left the dedup map and another one has begun; otherwise it would
\* hang, for nothing else ends its wait.
NoAbandonedRider ==
  \A r \in Workers :
    pc[r] = "w_ride" =>
      /\ wf[r] \in Workers
      /\ op[wf[r]] = "wake" /\ pc[wf[r]] # "w_ride"
      /\ arg[wf[r]] = arg[r]

\* The rider r is answered in this step.
RiderAnswered(r) == pc[r] = "w_ride" /\ pc'[r] = "idle" /\ phase' = "up"

\* A rider is told that the wake failed exactly when its leader told its own
\* client so because a docker, store or memory call failed.
HardFailureReachesRiders ==
  [][\A r \in Workers : RiderAnswered(r) =>
       (verdict'[r] = "failed" <=> verdict[wf[r]] = "failed")]_vars

Engaged(i) == \E w \in Workers : arg[w] = i \/ victim[w] = i

\* No call fails, nothing crashes, no create is under way and stoppers come
\* one at a time: with a failed call the code may leave a row behind its
\* container until the next boot, and two overlapping stoppers around a wake
\* leave the row stopped beside a running container.
Undisturbed ==
  /\ Faults = {}
  /\ "create" \notin Ops
  /\ MaxStoppers <= 1

\* Whenever no operation is working on an undisturbed sandbox, its row tells
\* the truth about its container: running if and only if the container runs.
\* (A row in error promises nothing.)
RowMatchesContainer ==
  Undisturbed =>
    \A i \in Ids :
      (~Engaged(i) /\ phase = "up" /\ row[i] # "error") =>
        (row[i] = "running" <=> ctr[i] = "running")

\* While a snapshot reads an undisturbed workspace the container does not run
\* (snapshot/take.go: "The container is stopped (precondition), so nothing is
\* actively writing").
SnapshotSeesStoppedContainer ==
  Undisturbed =>
    \A w \in Workers : pc[w] = "n_copy" => ctr[arg[w]] # "running"

\* A row is in creating only while its create is still at work, or while the
\* boot reconciler has yet to visit it: nothing else ever moves such a row,
\* and until it moves the id can be neither woken nor created.  Not covered: a
\* store that fails, a malformed env var (an early return of create that does
\* not abort), and docker failing while a reconciler inspects the row.
CreatingRowHasCreator ==
  (/\ Faults \cap {"store", "env"} = {}
   /\ ~(Fault("docker") /\ Fault("crash"))) =>
    \A i \in Ids :
      row[i] = "creating" =>
        \/ i \in unreconciled
        \/ \E w \in Workers : op[w] = "create" /\ arg[w] = i

\* A row the reconciler has visited agrees with Docker before the listener
\* opens, whatever the crash interrupted: no row is left creating, and running
\* means running.  Calls that fail during the reconciliation are not covered:
\* it goes on to the next row.
ReconciledRowsAgree ==
  (phase = "boot" /\ ~Fault("docker") /\ ~Fault("store") /\ ~Fault("exit")) =>
    \A i \in Ids \ unreconciled :
      /\ row[i] # "creating"
      /\ row[i] \in {"running", "stopped"} =>
           (row[i] = "running" <=> ctr[i] = "running")

(***************************************************************************)
(* The inductive invariant behind the exclusion properties.                *)
(***************************************************************************)

\* Which operation a step belongs to, and which of its variables are set.
StepsFit ==
  \A w \in Workers :
    /\ pc[w] \in CreateSteps => op[w] = "create"
    /\ pc[w] \in WakeSteps => op[w] = "wake"
    /\ pc[w] \in LockedSteps \cup LockWaits =>
         op[w] \in {"delete", "purge", "snapshot"}
    /\ pc[w] \in AdmitSteps => op[w] \in {"create", "wake"}
    /\ pc[w] \in StopSteps =>
         op[w] \in {"stop", "idle", "pressure", "create", "wake"}
    /\ pc[w] = "i_next" => op[w] = "idle"
    /\ pc[w] \in {"s_stop", "s_mark"} => victim[w] \in Ids
    /\ pc[w] = "idle" <=> op[w] = "none"
    /\ op[w] \in {"create", "wake", "delete", "purge", "snapshot"} =>
         arg[w] \in Ids

\* The mutex of i is held by exactly the worker inside its section.
LockIsHeldInside ==
  \A w \in Workers, i \in Ids :
    lock[i] = w <=> InLockedSection(w) /\ arg[w] = i

\* The dedup map names exactly the leader of each wake in progress.
MapNamesLeader ==
  \A w \in Workers, i \in Ids :
    inflight[i] = w <=> IsLeader(w) /\ arg[w] = i

\* Every step preserves this conjunction, and it is strong enough to imply
\* LockedSectionsExclusive, OneWakeLeader and NoAbandonedRider.
LifecycleInv ==
  TypeOK /\ StepsFit /\ LockIsHeldInside /\ MapNamesLeader /\ NoAbandonedRider

\* Every request and every tick comes to an end: no lock is leaked on an error
\* path, no rider waits for a leader that left, and wakes whose admission
\* ticks stop each other's sandboxes do not wait for one another.
EveryOperationReturns ==
  \A w \in Workers : pc[w] # "idle" ~> pc[w] = "idle"

=============================================================================
