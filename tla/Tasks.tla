------------------------------- MODULE Tasks -------------------------------
(***************************************************************************)
(* Coding tasks of one sandbox.  runtimed, the container's main process,   *)
(* runs at most one task at a time and leaves an event log (events.jsonl)  *)
(* and a result (result.json) in the workspace.  sandboxd keeps a durable  *)
(* row per task and a watcher goroutine that streams runtimed's events and *)
(* stores the verdict of the terminal `done` event.  Either process may    *)
(* stop at any point and come back.                                        *)
(*                                                                         *)
(*   cmd/runtimed/task.go          startTask, runTask, finish, cancelTask, *)
(*                                 recoverInterruptedTasks                 *)
(*   internal/api/v1_tasks.go      v1SubmitTask, v1CancelTask              *)
(*   internal/api/taskwatch.go     watchTask, ReconcileTasks               *)
(*   internal/store/tasks.go       the task table                          *)
(*                                                                         *)
(* Simplifications.  Of the events only `done` matters here, and of a      *)
(* result only its status.  How the container is stopped and woken is the  *)
(* subject of Lifecycle; here it happens at any time.                      *)
(***************************************************************************)
EXTENDS Naturals, Sequences, FiniteSets

CONSTANTS
  Tasks,        \* task ids
  NoTask,
  Faults,       \* what may go wrong, see FaultNames
  MaxAttempts,  \* taskWatchAttempts
  MaxRestarts   \* bound: restarts of either process in a behaviour

FaultNames == {"sandboxd",  \* sandboxd restarts
               "runtimed",  \* the container stops, or runtimed dies
               "store",     \* a store call fails, committed or not
               "reply",     \* the answer to POST /tasks is lost
               "slow"}      \* a task, or an answer of runtimed, outlives
                            \* taskWatchTimeout

ASSUME TasksAssumption ==
  /\ NoTask \notin Tasks
  /\ Faults \subseteq FaultNames
  /\ MaxAttempts \in Nat \ {0}
  /\ MaxRestarts \in Nat

VARIABLES
  daemon,    \* sandboxd: "up", or "boot" while it reconciles
  pending,   \* running rows ReconcileTasks has not visited
  submit,    \* submit[t]: progress of the request that submits t
  row,       \* row[t]: status column of the task row, "none" if no row
  watch,     \* watch[t]: what the watcher of t is doing
  tries,     \* tries[t]: failed attempts of the watcher to connect
  found,     \* found[t]: the status the watcher is about to store
  sandbox,   \* status column of the sandbox row
  runtimed,  \* "up", "stopping" (SIGTERM received), "down", "recovering"
  current,   \* a.task
  run,       \* run[t]: where the runTask goroutine of t is
  ctx,       \* ctx[t]: the context of that goroutine
  outcome,   \* outcome[t]: the status runTask decided on
  dones,     \* dones[t]: the done events in events.jsonl, by status
  logged,    \* tasks that have an events.jsonl
  result,    \* result[t]: status in result.json, "none", or "torn"
  fixing,    \* the task recoverInterruptedTasks is between two writes of
  upset,     \* history: tasks whose runtimed stopped, whose watcher timed out,
             \* or that the boot reconciler failed on a false look-up
  adrift,    \* history: running rows left to nobody until the next boot, by a
             \* watcher that timed out or by a store call that failed
  restarts   \* history: restarts so far

durable  == <<row, sandbox>>
watchers == <<watch, tries, found>>
files    == <<dones, logged, result>>
memory   == <<current, run, ctx, outcome>>
history  == <<upset, adrift, restarts>>
vars     == <<daemon, pending, submit, row, watch, tries, found, sandbox,
              runtimed, current, run, ctx, outcome, dones, logged, result,
              fixing, upset, adrift, restarts>>

Terminal == {"succeeded", "failed", "cancelled"}
RunSteps == {"none", "spawned", "agent", "checks", "emit", "emitted",
             "finished", "ended", "lost"}

Fault(f) == f \in Faults

-----------------------------------------------------------------------------
(***************************************************************************)
(* runtimed: one task                                                      *)
(***************************************************************************)

\* runtimed's goroutines run until the process is gone, SIGTERM or not.
Runs(t, step) == runtimed \in {"up", "stopping"} /\ run[t] = step

RunStep(t, to) == run' = [run EXCEPT ![t] = to]

Sandboxd == <<daemon, pending, submit, durable, watchers>>

\* runTask installs the cancel function of a context with a timeout.
RunBegin(t) ==
  /\ Runs(t, "spawned")
  /\ RunStep(t, "agent")
  /\ UNCHANGED <<Sandboxd, runtimed, current, ctx, outcome, files, fixing, history>>

\* The context's timeout; a context that is already done keeps its error.
Deadline(t) ==
  /\ Runs(t, "agent")
  /\ ctx[t] = "live"
  /\ ctx' = [ctx EXCEPT ![t] = "deadline"]
  /\ UNCHANGED <<Sandboxd, runtimed, current, run, outcome, files, fixing, history>>

\* How the agent's run is classified.
Verdicts(t) ==
  CASE ctx[t] = "deadline"  -> {"failed"}
    [] ctx[t] = "cancelled" -> {"cancelled"}
    [] OTHER                -> {"succeeded", "failed"}

\* The agent returned; a cancelled task skips the build and health checks.
AgentEnds(t) ==
  /\ Runs(t, "agent")
  /\ \E s \in Verdicts(t) :
       /\ outcome' = [outcome EXCEPT ![t] = s]
       /\ RunStep(t, IF s = "cancelled" THEN "emit" ELSE "checks")
  /\ UNCHANGED <<Sandboxd, runtimed, current, ctx, files, fixing, history>>

ChecksEnd(t) ==
  /\ Runs(t, "checks")
  /\ RunStep(t, "emit")
  /\ UNCHANGED <<Sandboxd, runtimed, current, ctx, outcome, files, fixing, history>>

\* finish: the done event reaches the log and the streams ...
EmitDone(t) ==
  /\ Runs(t, "emit")
  /\ dones' = [dones EXCEPT ![t] = Append(@, outcome[t])]
  /\ RunStep(t, "emitted")
  /\ UNCHANGED <<Sandboxd, runtimed, current, ctx, outcome, logged, result, fixing, history>>

\* ... then t.done is set ...
SetDone(t) ==
  /\ Runs(t, "emitted")
  /\ RunStep(t, "finished")
  /\ UNCHANGED <<Sandboxd, runtimed, current, ctx, outcome, files, fixing, history>>

\* ... and result.json is written last.
WriteResult(t) ==
  /\ Runs(t, "finished")
  /\ result' = [result EXCEPT ![t] = outcome[t]]
  /\ RunStep(t, "ended")
  /\ UNCHANGED <<Sandboxd, runtimed, current, ctx, outcome, dones, logged, fixing, history>>

-----------------------------------------------------------------------------
(***************************************************************************)
(* sandboxd: submit and cancel                                             *)
(***************************************************************************)

\* Mutant of Busy: a task whose cancel has been called no longer counts.
BusyUnlessCancelled ==
  /\ current # NoTask
  /\ run[current] \notin {"finished", "ended"}
  /\ ctx[current] # "cancelled"

\* startTask: a.task != nil && !a.task.isDone()
Busy == current # NoTask /\ run[current] \notin {"finished", "ended"}

\* POST /tasks is refused: runtimed cannot be reached, or a task is active.
SubmitRefused(t) ==
  /\ daemon = "up" /\ submit[t] = "new" /\ sandbox = "running"
  /\ runtimed # "up" \/ Busy
  /\ submit' = [submit EXCEPT ![t] = "refused"]
  /\ UNCHANGED <<daemon, pending, durable, watchers, runtimed, memory, files, fixing, history>>

\* runtimed starts the task.  If its answer is lost the client is told 502.
SubmitStart(t) ==
  /\ daemon = "up" /\ submit[t] = "new" /\ sandbox = "running"
  /\ runtimed = "up" /\ ~Busy
  /\ current' = t
  /\ logged'  = logged \cup {t}
  /\ RunStep(t, "spawned")
  /\ \/ submit' = [submit EXCEPT ![t] = "accepted"]
     \/ Fault("reply") /\ submit' = [submit EXCEPT ![t] = "refused"]
  /\ UNCHANGED <<daemon, pending, durable, watchers, runtimed, ctx, outcome, dones, result, fixing, history>>

\* CreateTask, then the watcher.  The client is told 202 even if CreateTask
\* fails; no watcher is started then, whether or not the row was committed.
SubmitCreate(t) ==
  /\ daemon = "up" /\ submit[t] = "accepted"
  /\ submit' = [submit EXCEPT ![t] = "told"]
  /\ \/ /\ row'   = [row EXCEPT ![t] = "running"]
        /\ watch' = [watch EXCEPT ![t] = "connect"]
        /\ UNCHANGED adrift
     \/ /\ Fault("store")
        /\ \/ row' = [row EXCEPT ![t] = "running"] /\ adrift' = adrift \cup {t}
           \/ UNCHANGED <<row, adrift>>
        /\ UNCHANGED watch
  /\ UNCHANGED <<daemon, pending, tries, found, sandbox, runtimed, memory, files,
                 fixing, upset, restarts>>

\* POST /tasks/{id}/cancel, answered 200 whatever it finds.  Before RunBegin
\* there is no cancel function yet and the request has no effect.
Cancel(t) ==
  /\ daemon = "up" /\ runtimed = "up"
  /\ current = t
  /\ ctx[t] = "live" /\ run[t] \in {"spawned", "agent"}
  /\ ctx' = [ctx EXCEPT ![t] = IF run[t] = "spawned" THEN @ ELSE "cancelled"]
  /\ UNCHANGED <<Sandboxd, runtimed, current, run, outcome, files, fixing, history>>

-----------------------------------------------------------------------------
(***************************************************************************)
(* sandboxd: the watcher                                                   *)
(***************************************************************************)
Runtimed == <<runtimed, memory, files, fixing>>

\* The watcher has its verdict and goes on to store it.
Save(t, s) ==
  /\ watch' = [watch EXCEPT ![t] = "save"]
  /\ found' = [found EXCEPT ![t] = s]

\* Mutant of WatchConnect: it gives up without storing a failure.
WatchConnectSilent(t) ==
  /\ watch[t] = "connect"
  /\ \/ /\ runtimed = "up" /\ t \in logged
        /\ watch' = [watch EXCEPT ![t] = IF current = t THEN "live" ELSE "replay"]
        /\ UNCHANGED tries
     \/ /\ runtimed # "up" \/ t \notin logged
        /\ \/ tries[t] + 1 < MaxAttempts /\ UNCHANGED watch
           \/ tries[t] + 1 >= MaxAttempts /\ watch' = [watch EXCEPT ![t] = "none"]
        /\ tries' = [tries EXCEPT ![t] = @ + 1]
  /\ UNCHANGED <<daemon, pending, submit, durable, found, Runtimed, history>>

\* Mutant of WatchConnect: it retries for as long as runtimed is away.
WatchConnectForever(t) ==
  /\ watch[t] = "connect"
  /\ runtimed = "up" /\ t \in logged
  /\ watch' = [watch EXCEPT ![t] = IF current = t THEN "live" ELSE "replay"]
  /\ UNCHANGED <<daemon, pending, submit, durable, tries, found, Runtimed, history>>

\* GET /tasks/{id}/events: the task in memory is streamed live, an earlier one
\* is replayed from its file.  After MaxAttempts failures the task has failed.
WatchConnect(t) ==
  /\ watch[t] = "connect"
  /\ \/ /\ runtimed = "up" /\ t \in logged
        /\ watch' = [watch EXCEPT ![t] = IF current = t THEN "live" ELSE "replay"]
        /\ UNCHANGED <<tries, found>>
     \/ /\ runtimed # "up" \/ t \notin logged
        /\ tries' = [tries EXCEPT ![t] = @ + 1]
        /\ \/ tries[t] + 1 < MaxAttempts /\ UNCHANGED <<watch, found>>
           \/ tries[t] + 1 >= MaxAttempts /\ Save(t, "failed")
  /\ UNCHANGED <<daemon, pending, submit, durable, Runtimed, history>>

\* The live stream delivers the done event.
WatchLive(t) ==
  /\ watch[t] = "live" /\ runtimed = "up"
  /\ dones[t] # <<>>
  /\ Save(t, Head(dones[t]))
  /\ UNCHANGED <<daemon, pending, submit, durable, tries, Runtimed, history>>

\* Mutant of ReplayedStatus: a log that just ends counts as a success.
ReplayedStatusHopeful(t) ==
  IF dones[t] = <<>> THEN "succeeded" ELSE Head(dones[t])

\* The first done event of the file; a log without one is a failure.
ReplayedStatus(t) == IF dones[t] = <<>> THEN "failed" ELSE Head(dones[t])

WatchReplay(t) ==
  /\ watch[t] = "replay" /\ runtimed = "up"
  /\ Save(t, ReplayedStatus(t))
  /\ UNCHANGED <<daemon, pending, submit, durable, tries, Runtimed, history>>

\* The context of the watcher ends, taskWatchTimeout after its start.  It ends
\* the stream before the done event, or the last attempt to connect, and the
\* task is failed; or an earlier attempt, and the watcher just returns.
WatchTimeout(t) ==
  /\ Fault("slow")
  /\ \/ /\ \/ watch[t] \in {"live", "replay"}
           \/ watch[t] = "connect" /\ tries[t] + 1 >= MaxAttempts
        /\ Save(t, "failed")
        /\ upset' = upset \cup {t}
        /\ UNCHANGED <<tries, adrift>>
     \/ /\ watch[t] = "connect" /\ tries[t] + 1 < MaxAttempts
        /\ watch' = [watch EXCEPT ![t] = "none"]
        /\ tries' = [tries EXCEPT ![t] = 0]
        /\ adrift' = adrift \cup {t}
        /\ UNCHANGED <<found, upset>>
  /\ UNCHANGED <<daemon, pending, submit, durable, Runtimed, restarts>>

\* FinishTask: UPDATE task SET status, result_json WHERE task_id; a failure is
\* only logged.
FinishTask(t, s) ==
  \/ /\ row' = [row EXCEPT ![t] = IF @ = "none" THEN "none" ELSE s]
     /\ UNCHANGED adrift
  \/ /\ Fault("store")
     /\ adrift' = adrift \cup {t}
     /\ UNCHANGED row

WatchSave(t) ==
  /\ watch[t] = "save"
  /\ FinishTask(t, found[t])
  /\ watch' = [watch EXCEPT ![t] = "none"]
  /\ found' = [found EXCEPT ![t] = "none"]
  /\ tries' = [tries EXCEPT ![t] = 0]
  /\ UNCHANGED <<daemon, pending, submit, sandbox, Runtimed, upset, restarts>>

-----------------------------------------------------------------------------
(***************************************************************************)
(* The container stops and starts                                          *)
(***************************************************************************)

\* SIGTERM closes the control server, and with it every event stream; a done
\* event already sent may still be read.  The goroutines go on for a while.
CutStreams ==
  LET cut == {t \in Tasks : watch[t] \in {"live", "replay"}}
  IN \E read \in SUBSET {t \in cut : dones[t] # <<>>} :
       /\ watch' = [t \in Tasks |-> IF t \in cut THEN "save" ELSE watch[t]]
       /\ found' = [t \in Tasks |-> CASE t \in read -> Head(dones[t])
                                      [] t \in cut \ read -> "failed"
                                      [] OTHER -> found[t]]

RuntimedTerm ==
  /\ Fault("runtimed") /\ restarts < MaxRestarts
  /\ runtimed = "up"
  /\ runtimed' = "stopping"
  /\ restarts' = restarts + 1
  /\ upset' = Tasks
  /\ CutStreams
  /\ UNCHANGED <<daemon, pending, submit, durable, tries, memory, files, fixing,
                 adrift>>

\* recoverInterruptedTasks: a task with an event log and no result.json.
Unfinished == {t \in logged : result[t] = "none"}

\* A result.json the process may be writing: by runTask, or by recovery.
Writing ==
  IF runtimed = "recovering"
  THEN IF fixing = NoTask THEN {{t} : t \in Unfinished} ELSE {}
  ELSE SUBSET {t \in Tasks : run[t] = "finished"}

\* The process is gone, after SIGTERM or out of the blue.  A result.json that
\* was being written may be left incomplete.
RuntimedDies ==
  /\ \/ runtimed = "stopping" /\ UNCHANGED <<restarts, watch, found>>
     \/ /\ Fault("runtimed") /\ restarts < MaxRestarts
        /\ runtimed \in {"up", "recovering"}
        /\ restarts' = restarts + 1
        /\ CutStreams
  /\ runtimed' = "down"
  /\ upset' = Tasks
  /\ current' = NoTask
  /\ fixing' = NoTask
  /\ run' = [t \in Tasks |-> IF run[t] \in {"none", "ended"} THEN run[t] ELSE "lost"]
  /\ \E torn \in Writing \cup {{}} :
       result' = [t \in Tasks |-> IF t \in torn THEN "torn" ELSE result[t]]
  /\ UNCHANGED <<daemon, pending, submit, durable, tries, ctx, outcome, dones, logged,
                 adrift>>

\* Whoever stopped the container writes the sandbox row.
MarkStopped ==
  /\ runtimed = "down" /\ sandbox = "running" /\ daemon = "up"
  /\ sandbox' = "stopped"
  /\ UNCHANGED <<daemon, pending, submit, row, watchers, Runtimed, history>>

\* docker start, for a submit to a stopped sandbox or for any other wake; none
\* is needed if the row was wrong.
Wake ==
  /\ daemon = "up" /\ sandbox = "stopped"
  /\ sandbox'  = "running"
  /\ runtimed' = IF runtimed = "down" THEN "recovering" ELSE runtimed
  /\ UNCHANGED <<daemon, pending, submit, row, watchers, memory, files, fixing, history>>

InterruptedStatus == "failed"

\* recoverInterruptedTasks: a log without result.json gets a failed result ...
RecoverResult(t) ==
  /\ runtimed = "recovering" /\ fixing = NoTask
  /\ t \in Unfinished
  /\ result' = [result EXCEPT ![t] = InterruptedStatus]
  /\ fixing' = t
  /\ UNCHANGED <<Sandboxd, runtimed, memory, dones, logged, history>>

\* ... and then a done event.
RecoverDone(t) ==
  /\ fixing = t
  /\ dones' = [dones EXCEPT ![t] = Append(@, InterruptedStatus)]
  /\ fixing' = NoTask
  /\ UNCHANGED <<Sandboxd, runtimed, memory, logged, result, history>>

\* The control server listens once recovery is complete.
RuntimedListens ==
  /\ runtimed = "recovering" /\ fixing = NoTask
  /\ Unfinished = {}
  /\ runtimed' = "up"
  /\ UNCHANGED <<Sandboxd, memory, files, fixing, history>>

-----------------------------------------------------------------------------
(***************************************************************************)
(* sandboxd restarts                                                       *)
(***************************************************************************)

\* Mutant of RunningTasks: the status filter of the query is lost.
AllTasks == {t \in Tasks : row[t] # "none"}

\* ListRunningTasks
RunningTasks == {t \in Tasks : row[t] = "running"}

\* Watchers and requests are gone.  The boot reconciler has corrected the
\* sandbox row, unless the store failed it, before ReconcileTasks lists the
\* running tasks.
SandboxdRestarts ==
  /\ Fault("sandboxd") /\ restarts < MaxRestarts
  /\ restarts' = restarts + 1
  /\ daemon' = "boot"
  /\ \/ pending' = RunningTasks /\ adrift' = {}
     \/ Fault("store") /\ pending' = {} /\ adrift' = RunningTasks
  /\ submit' = [t \in Tasks |-> IF submit[t] = "accepted" THEN "refused" ELSE submit[t]]
  /\ watch' = [t \in Tasks |-> "none"]
  /\ tries' = [t \in Tasks |-> 0]
  /\ found' = [t \in Tasks |-> "none"]
  /\ \/ sandbox' = IF runtimed = "down" THEN "stopped" ELSE "running"
     \/ Fault("store") /\ UNCHANGED sandbox
  /\ UNCHANGED <<row, Runtimed, upset>>

\* Mutant of ReconcileTask: without a result the task is failed at once.
ReconcileTaskHasty(t) ==
  /\ daemon = "boot" /\ t \in pending
  /\ pending' = pending \ {t}
  /\ \/ result[t] \in Terminal /\ FinishTask(t, result[t])
     \/ result[t] \notin Terminal /\ FinishTask(t, "failed")
  /\ UNCHANGED <<daemon, submit, sandbox, watchers, Runtimed, upset, restarts>>

\* result.json if it can be read, else a new watcher if the sandbox runs, else
\* a failure: also when the store cannot tell, or its row is wrong.
ReconcileTask(t) ==
  /\ daemon = "boot" /\ t \in pending
  /\ pending' = pending \ {t}
  /\ \/ /\ result[t] \in Terminal
        /\ FinishTask(t, result[t])
        /\ UNCHANGED <<watch, upset>>
     \/ /\ result[t] \notin Terminal /\ sandbox = "running"
        /\ watch' = [watch EXCEPT ![t] = "connect"]
        /\ UNCHANGED <<row, upset, adrift>>
     \/ /\ result[t] \notin Terminal /\ (sandbox # "running" \/ Fault("store"))
        /\ FinishTask(t, "failed")
        /\ upset' = IF Fault("store") THEN upset \cup {t} ELSE upset
        /\ UNCHANGED watch
  /\ UNCHANGED <<daemon, submit, sandbox, tries, found, Runtimed, restarts>>

Listen ==
  /\ daemon = "boot" /\ pending = {}
  /\ daemon' = "up"
  /\ UNCHANGED <<pending, submit, durable, watchers, Runtimed, history>>

-----------------------------------------------------------------------------
\* Some requests may have been refused before anything else happens, and some of
\* the restarts the bound allows may be over.
Init ==
  /\ daemon = "up" /\ pending = {} /\ sandbox = "running" /\ runtimed = "up"
  /\ submit \in [Tasks -> {"new", "refused"}]
  /\ row     = [t \in Tasks |-> "none"]
  /\ watch   = [t \in Tasks |-> "none"]
  /\ tries   = [t \in Tasks |-> 0]
  /\ found   = [t \in Tasks |-> "none"]
  /\ current = NoTask
  /\ run     = [t \in Tasks |-> "none"]
  /\ ctx     = [t \in Tasks |-> "live"]
  /\ outcome = [t \in Tasks |-> "none"]
  /\ dones   = [t \in Tasks |-> <<>>]
  /\ logged  = {}
  /\ result  = [t \in Tasks |-> "none"]
  /\ fixing = NoTask /\ upset = {} /\ adrift = {}
  /\ restarts \in 0..MaxRestarts

\* The goroutine of a task, its recovery, and its watcher.
RunTask(t) ==
  \/ RunBegin(t) \/ AgentEnds(t) \/ ChecksEnd(t)
  \/ EmitDone(t) \/ SetDone(t) \/ WriteResult(t)

Recover(t) == RecoverResult(t) \/ RecoverDone(t)

Watch(t) == WatchConnect(t) \/ WatchLive(t) \/ WatchReplay(t) \/ WatchSave(t)

Next ==
  \/ \E t \in Tasks :
       \/ RunTask(t) \/ Deadline(t) \/ Recover(t)
       \/ SubmitRefused(t) \/ SubmitStart(t) \/ SubmitCreate(t) \/ Cancel(t)
       \/ Watch(t) \/ WatchTimeout(t) \/ ReconcileTask(t)
  \/ RuntimedTerm \/ RuntimedDies \/ MarkStopped \/ Wake \/ RuntimedListens
  \/ SandboxdRestarts \/ Listen

Spec == Init /\ [][Next]_vars

\* Goroutines are scheduled, the agent is killed at its deadline at the latest,
\* docker stop kills a container that does not end, and both boots complete.
\* Nobody has to submit, cancel, stop or wake anything.
Fairness ==
  /\ \A t \in Tasks : /\ WF_vars(RunTask(t)) /\ WF_vars(Recover(t))
                      /\ WF_vars(Watch(t)) /\ WF_vars(ReconcileTask(t))
  /\ WF_vars(RuntimedListens)
  /\ WF_vars(runtimed = "stopping" /\ RuntimedDies)
  /\ WF_vars(Listen)

FairSpec == Spec /\ Fairness

-----------------------------------------------------------------------------
(***************************************************************************)
(* Properties                                                              *)
(***************************************************************************)

\* Every variable keeps its type; no status beyond the task model appears.
TypeOK ==
  /\ daemon \in {"up", "boot"}
  /\ pending \subseteq Tasks
  /\ submit \in [Tasks -> {"new", "refused", "accepted", "told"}]
  /\ row \in [Tasks -> Terminal \cup {"none", "running"}]
  /\ watch \in [Tasks -> {"none", "connect", "live", "replay", "save"}]
  /\ tries \in [Tasks -> 0..MaxAttempts]
  /\ found \in [Tasks -> Terminal \cup {"none"}]
  /\ sandbox \in {"running", "stopped"}
  /\ runtimed \in {"up", "stopping", "down", "recovering"}
  /\ current \in Tasks \cup {NoTask}
  /\ run \in [Tasks -> RunSteps]
  /\ ctx \in [Tasks -> {"live", "deadline", "cancelled"}]
  /\ outcome \in [Tasks -> Terminal \cup {"none"}]
  /\ dones \in [Tasks -> Seq(Terminal)]
  /\ logged \subseteq Tasks
  /\ result \in [Tasks -> Terminal \cup {"none", "torn"}]
  /\ fixing \in Tasks \cup {NoTask}
  /\ upset \subseteq Tasks /\ adrift \subseteq Tasks
  /\ restarts \in 0..MaxRestarts

\* Two agents never work in the same checkout at once, also when a task is
\* submitted while its predecessor is being cancelled or is about to end
\* (runtimed README: "Exactly one active task at a time per sandbox").
AgentsNeverOverlap ==
  \A t1, t2 \in Tasks :
    (/\ run[t1] \in {"spawned", "agent", "checks"}
     /\ run[t2] \in {"spawned", "agent", "checks"}) => t1 = t2

\* A stored verdict never changes: neither a second watcher nor the boot
\* reconciler overwrites it (FinishTask itself has no guard).
TerminalRowIsFinal ==
  [][\A t \in Tasks : row[t] \in Terminal => row'[t] = row[t]]_vars

\* A task is stored as succeeded or cancelled only if that is what runtimed
\* decided, whatever was interrupted, replayed or recovered on the way.
StoredSuccessIsReal ==
  \A t \in Tasks :
    row[t] \in {"succeeded", "cancelled"} => outcome[t] = row[t]

\* A row in running has somebody who will finish it, a watcher or the boot
\* reconciler, unless a watcher ran out of time before it was connected or a
\* store call failed: such a row waits for the next boot, and the idle reaper
\* spares its sandbox as long.  Never has a row two of them.
RunningRowIsWatched ==
  \A t \in Tasks :
    /\ row[t] = "running" => watch[t] # "none" \/ t \in pending \/ t \in adrift
    /\ t \in adrift => watch[t] = "none" /\ t \notin pending

(***************************************************************************)
(* The inductive invariant behind AgentsNeverOverlap, StoredSuccessIsReal  *)
(* and TerminalRowIsFinal, proved in TasksProofs.                          *)
(***************************************************************************)
Early  == {"none", "spawned", "agent"}                       \* no verdict yet
Active == {"spawned", "agent", "checks", "emit", "emitted"}  \* not yet done
Real   == {"succeeded", "cancelled"}                         \* never made up

\* Only a.task can be active, so a check of a.task alone is enough.
ActiveIsCurrent == \A t \in Tasks : run[t] \in Active => current = t

\* A task is run once, and its verdict is decided once.
DecidedOnce ==
  \A t \in Tasks : /\ submit[t] = "new" => run[t] = "none"
                   /\ run[t] \in Early => outcome[t] = "none"
                   /\ run[t] \in {"checks", "emit"} => outcome[t] \in Terminal

\* Every place a verdict passes through agrees with runTask's decision.
VerdictsReal ==
  \A t \in Tasks :
    /\ \A s \in {row[t], found[t], result[t]} : s \in Real => outcome[t] = s
    /\ \A i \in 1..Len(dones[t]) : dones[t][i] \in Real => outcome[t] = dones[t][i]

\* A row that can still be written is running and has one writer; a watcher
\* that connects has an attempt left.
OneWriter ==
  \A t \in Tasks :
    /\ watch[t] # "none" => row[t] = "running" /\ t \notin pending
    /\ t \in pending => row[t] = "running"
    /\ submit[t] \in {"new", "accepted"} => row[t] = "none"
    /\ watch[t] = "none" => tries[t] = 0
    /\ watch[t] = "connect" => tries[t] < MaxAttempts

\* All of it: a verdict is decided once by the one active task, and only one
\* writer at a time can carry it into the task's row.
TasksInv ==
  /\ TypeOK /\ ActiveIsCurrent /\ DecidedOnce /\ VerdictsReal /\ OneWriter

\* As long as runtimed itself stays up, its watcher does not time out and no
\* failing store call misleads the boot reconciler, the stored verdict of a task
\* is runtimed's, also when sandboxd restarts in the middle of the task, of its
\* last steps or of its own boot.
VerdictSurvivesRestart ==
  \A t \in Tasks \ upset : row[t] \in Terminal => row[t] = outcome[t]

\* A task with a row gets a verdict in the end, wherever either process stops;
\* but for a row that a late watcher or a failing store left to the next boot.
TrackedTaskEnds ==
  \A t \in Tasks : row[t] = "running" ~> (row[t] \in Terminal \/ t \in adrift)
=============================================================================
