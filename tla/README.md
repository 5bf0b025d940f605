# sandboxd: a TLA+ verification project

sandboxd is a control plane that runs AI-coding sandboxes: one Docker container
per sandbox, stopped when idle and woken on demand, with coding tasks executed
inside it by a small daemon called runtimed. This directory holds TLA+ models of
the parts whose correctness depends on interleavings, failures and restarts, TLC
configurations that check them on small instances, and TLAPS proofs that hold for
every instance. `PROJECT.json` is the machine-readable index: components, runs,
mutants, the definition-to-source map, findings, hazards and theorems. Paths below
are relative to `src/control-plane/`.

## 1. Inventory

| Part | State it keeps | Operations | What is hard about it |
|---|---|---|---|
| Sandbox store `internal/store` | SQLite rows: sandbox, workspace_owner, task, snapshot; the write queue | `submit`, write loop, `Open`, `Close`; `Create`, `Mark*`, `Claim`, `Delete`, `PurgeSandbox` | a caller whose context ends sees an error for a write that may commit; most UPDATEs are unconditional |
| Docker daemon (through `internal/docker`) | containers `s-<id>` | inspect, run, start, stop, rm | commands fail before or after they take effect; containers exit by themselves |
| Per-id lock `internal/idlock` | one mutex per id | `Lock`, `Unlock` | only some operations take it: wake, delete, purge, snapshot, restore, git push |
| API `internal/api` | none of its own | create, delete, purge, stop, claim, snapshots, files, tasks | several calls on store, Docker and files per request, each can fail |
| Workspaces `internal/loopback` | one directory per id | provision, seed, remove | they outlive the sandbox row; seeding and removal stop half way |
| Wake `internal/wake` | in-flight map, one leader per id | `serve`, `Admit` | riders on a leader's outcome; admission runs a reaper tick while holding the lock |
| Reapers `internal/reaper` | refusal flag | idle tick, pressure tick | clock and candidates are read once and acted on later, without the lock |
| Activity `internal/activity` | log offset, in-flight exec counts | tailer, poller, exec, keepalive | half lines, rotation, checkpoint; clock read before the commit |
| Boot reconciler `internal/reconcile` | none | `Once` | rows and containers disagree after a crash in mid-operation |
| Snapshots `internal/snapshot` | image files and their `.tmp`, `.bak` | take, restore, prune, scheduler, sweep | a crash between two file operations |
| Tasks in sandboxd `api/v1_tasks.go`, `api/taskwatch.go` | one watcher goroutine per running task | submit, cancel, watch, reconcile | watchers die with the process; the store may fail |
| Tasks in runtimed `cmd/runtimed/task.go` | current task, `events.jsonl`, `result.json` | start, run, finish, cancel, recover | one agent at a time; two files written one after the other |
| Dev server `cmd/runtimed/devserver.go`, `health.go`, `main.go` | process, restart counters, last probe | supervise, stop, probe, status | stop races a restart; probes are of another moment |
| Auth, preview, files, egress, nginx, Traefik, metrics, audit | configuration, output | | stateless, disabled in this build, or pure output |

Handlers and reapers share the store and the Docker daemon and call each other in
two places: a wake's admission runs a pressure tick, and a task submitted to a
stopped sandbox runs a wake. sandboxd and runtimed talk over a Unix socket in the
workspace; the files runtimed leaves there are also read directly by sandboxd when it
boots. At the end of a task runtimed may restart the dev server it supervises.

What has to be right:

- *Lifecycle*: operations that hold the id lock exclude each other on every path; at
  most one wake starts a container; nobody waits for ever; row and container agree
  when nothing is in progress; a restart repairs what it interrupted.
- *Tasks*: one agent per checkout; a verdict is runtimed's own, is stored once and
  survives restarts; every task with a row ends.
- *Images*: a snapshot holds what the image held; an interrupted restore loses
  nothing; retention keeps the last snapshot.
- *Reaping*: only idle sandboxes are stopped, active work is spared, an older time
  never undoes a newer one, and no offset is saved that passes a line which was not
  handled (the code does lose lines that it reads in two halves, and around a truncation).
- *Ownership*: a recycled id never hands a workspace to another user; work on disk can
  always be found by a purge; a project has one sandbox.
- *DevServer*: one supervised process group at a time; it comes back; after a remediation
  no older group is supervised; a shutdown leaves none supervised.
- *Writer*: an acknowledged write is committed, a failed one is not, a caller's writes
  keep their order, and every call returns.

The hazards, each with its line, are in `PROJECT.json`.

## 2. Modules

| Module | What it is |
|---|---|
| `Lifecycle`, `MCLifecycle`, `LifecycleProofs` | sandbox row, container, id lock and in-flight map, moved by eight operations, faults, restarts and the boot reconciler; its instances; its proofs |
| `Tasks`, `MCTasks`, `TasksProofs` | a task from POST to its stored verdict: runtimed, its files, sandboxd's watcher and row, restarts of both processes |
| `Images`, `MCImages`, `ImagesProofs` | image, snapshot, `.tmp` and `.bak` files under take, restore, prune, sweep and crashes |
| `Activity` | the sources of `last_active_at` and the access-log tailer |
| `Reaping`, `MCReaping`, `ReapingProofs` | extends `Activity`: the three places a reaper tick runs, the memory bands, admission, creates, wakes and tasks |
| `Ownership`, `MCOwnership`, `OwnershipProofs` | create, reuse, claim, delete and purge of ids: rows, owners, workspaces, snapshots |
| `DevServer`, `MCDevServer`, `DevServerProofs` | the dev-server supervisor, its stoppers, probes and the checks at the end of a task |
| `AtomicStore` | abstract specification: what the store promises its writers |
| `Writer`, `MCWriter`, `WriterProofs` | the writer goroutine, its queue and callers; it implements `AtomicStore` |

The modules cut the system by shared state. A call on the store is one step that may
fail before or after its commit in every module but `Writer`, which justifies that:
whatever the queue, contexts and `Close` do, a write takes effect at one moment or not at
all, and the caller is told the truth or learns nothing.

### Lifecycle

Every HTTP request and every reaper tick is a worker, a goroutine; `pc[w]` names the
call it makes next. One action is one call on the store, the Docker daemon or a lock,
with all the assignments up to the next call, so workers interleave wherever the Go code
lets them. Steps are named by operation: `c_` create, `w_` wake, `a_` admission, `s_`,
`i_`, `t_` stoppers, `d_` delete, `p_` purge, `n_` snapshot.

- `row` is the status column ("none": no row), `ctr` what Docker reports. The `Mark`
  functions update a row if there is one and never insert (`SetStatus`).
- `lock` is `idlock`; create, stop and the reapers do not take it, as in the code.
- `inflight` and `wf` are the wake handler's map and the `inflightWake` a rider holds.
  `WakeLeave` deletes the map entry and `WakeClose` closes the channel, two steps as in
  the deferred function; `wferr` is the field riders read.
- A candidate list is read in one step (`TickList`, `BeginIdle`) and acted on in later
  ones, so it may be stale.
- `Restart` discards every worker and lock, `ReconcileRow` visits the rows one by one,
  `Listen` opens the listener after that. A host restart also stops the containers.
- `scenario` picks operations, faults and the number of stoppers at once for a behaviour;
  it never changes.

Abstracted: time, memory readings and skip rules are choices here (`Reaping` has them);
workspace contents and owners are in `Images` and `Ownership`; egress is disabled.

### Tasks

`submit`, `row`, `watch`, `tries`, `found` belong to sandboxd; `runtimed`, `current`
(`a.task`), `run`, `ctx`, `outcome` are runtimed's memory; `dones`, `logged`, `result` are
the files. `finish` is three steps (`EmitDone`, `SetDone`, `WriteResult`) because other
goroutines and a crash can come between them. SIGTERM closes the control server and its
streams (`RuntimedTerm`) while goroutines go on until the process ends (`RuntimedDies`),
which may leave a `result.json` half-written ("torn"). `recoverInterruptedTasks` writes
result and done event in two steps per task, and the control server listens after it.
`SandboxdRestarts` drops watchers and requests; `ReconcileTask` then treats each running
row as `ReconcileTasks` does, including the look-up of the sandbox that fails and makes it
store "failed" for a task that goes on (`taskwatch.go:128`). A watcher whose context ends
while it connects returns without a verdict (`taskwatch.go:56`), as one does whose
`FinishTask` fails: the row stays running until the next boot. History: `adrift`, those
rows; `upset`, the tasks whose runtimed stopped, whose watcher timed out on the stream, or
whose reconciler was misled by a failing call. Abstracted: events other than `done`, everything in a result
except its status, and how the container is stopped and woken (any time).

### Images

The content of an image is a version number, or `Damaged`; files are named after the
moment they were made. One action is one file operation or one external command (zstd
begins and ends in two steps, so a crash can cut it). Workers take the id lock as the code
does.

Row and container move apart as in the code: a wake starts the container (`WakeStart`) and
marks the row later, or fails in between (`WakeMark`, `OtherFails`); a stopper stops the
container without the lock (`ContainerStops`) and marks the row later (`MarkStopped`); a
boot may find either. `ctr` is "up" when the container runs on the live image and "apart"
when it runs on a file system that is not, or no longer, that image. `misled` is the history of
takes that looked at a row which did not say running while the container ran.

`Crash` is of sandboxd, when running commands are cut, or of the host, when the container
goes down and mounts are lost; `SweepTmp` and `SweepBak` then visit each stale file. The
removal of the partial image at the end of a failed restore may itself fail
(`AbortRemove`; `restore.go:70` ignores the error). The module models the layout the
package is written for (image files). The portable build keeps workspaces as directories
and does not start the auto-snapshotter; manual snapshots end with `ErrNoImg` there.

### Activity and Reaping

A log file is a sequence of half lines, so that the tailer can meet one in the middle of
its writing; rotation moves the path to the next inode, truncation empties a file, and
the tailer keeps `fd`, `pos`, `size0` and `checkpoint` as the code does, including the
re-open that keeps the old offset. `astray` and `ckAstray` are history: the position, or
the saved offset, counts half lines that are not in the file (truncated since, or another
file's). Half a line at the end of the file is consumed and dropped, although the comment
at `tailer.go:134` says it is read again (`torn`). Every source of a bump reads the clock in one step
(`ReadClock`) and commits in another (`BumpLastActive`). A tick is a record: the clock it
read, the band it computed, the queue of candidates, the victim being stopped; `known`,
`exec`, `task`, `keep` are history, what was on record or under way when it began. The
pressure tick runs in its own loop and, separately, inside `Admit`.

### Ownership

A job is a request with the handler's local variables; one action is one store call, one
Docker call, one file operation or the taking of the id lock. `row` and `owner` are the
two tables, `dir`, `wrote`, `snaps` the files and whose work is in them, `ran` the user
whose container runs. `Claim` updates both tables in one transaction. A purge of a user or
project reads the ids once (`ScopeBegin`) and works through the list.

The code takes no lock in create and checks the owner before it inserts. Ownership
properties are therefore stated for clients that keep the creates of an id apart from its
removals and claims (`scenario.apart`, operator `Apart`, which looks at the id a request is
working on); without it TLC finds them violated in a few steps. Everything else overlaps:
creates of the same id by two users, v1 creates of one project, creates with purges of other
ids, purges with each other, and a restart anywhere. Claims and creates of an id that is on a
purge's list and not yet taken up overlap with that purge: it looks at no owner again, so it
removes what a claim has just handed over, and nothing in the code promises otherwise.
`crowded` is history: the projects that a create or claim named outright, on which two v1
creates overlapped, or whose look-up failed.

### DevServer

`sup` is the supervisor's next step, `cur` the process group it started, `proc` and
`running` the fields under the mutex. A group is a leader, the bash that `cmd.Wait` reaps,
and the server below it: `led` and `serve`. Either may end before the other
(`LeaderExits`, `Process`): a server may outlive its leader, get no SIGKILL because `stop`
returns once `running` is false, hold the port and answer a probe while the supervisor has
started the next group. `stopper` holds the two possible callers of `stop` (a task's
remediation and main's shutdown) with the group they read. `prober` holds the probe loop's
and the task's probe; each asks in one step and stores in another. History: `stale` (groups
started before a config edit and still led), `missed` (a stop looked while a start was under
way, when `d.proc` is nil and a process exists), `late` (a loop probe had its answer before
the task's began).

`serve` returning with an error at start-up, before any request, is left out.

### Writer and AtomicStore

`submit` is a call, a send (first select), a wait (second select) and a return; the context
may end at any moment or have ended before the call. The loop takes an op, its SQL looks at
the context first (`FnBegin`), then commits or fails. An abandoned op stays in the queue and
is run like any other. `Close`, the drain, the end of the process and a kill at any moment
are actions. `AtomicStore` keeps `asked`, `answer` and `db` only; the refinement mapping is
the identity on these, so what is proved is that queue, contexts and shutdown are invisible.

## 3. Runs

Deadlock is checked in the two runs of `Lifecycle`. Elsewhere a proper end exists (all
tasks over, the clock at its bound, runtimed exited, all writes made), so it is not.

| Run | Instance | Shows |
|---|---|---|
| `locks` | 1 sandbox, 3 workers, three mixes | exclusion by the id lock, one wake leader, no abandoned rider, hard failures reach riders, row and container agree at rest, a snapshot sees a stopped container, reconciled rows agree with Docker, no row is left creating |
| `live` | 2 sandboxes, 2 workers, fair | every request and tick returns |
| `tasks` | 2 tasks with one restart, or 1 task with three, of either process; all faults, fair | agents never overlap, stored successes are real, verdicts are final, a verdict stored while runtimed stays up is runtimed's, a running row has one writer and ends |
| `images` | 2 workers, crashes of process and host | snapshots hold the live image, the original survives a restore, the newest snapshot stays |
| `reaping` | 2 sandboxes, one always_on, twelve mixes of actors | stops were due, spare work and always_on; a saved offset passes no unhandled line but a torn one |
| `ownership` | 2 ids, 2 users, 2 workers, nine mixes | work stays with its owner and can be found, one sandbox per project |
| `devserver` | 2 process groups, 2 fast failures, fair | one supervised group, it comes back or is given up, remediation and shutdown do their work, a hang shows |
| `writer` | 2 clients with 2 writes, queue of 1, fair | the writer implements `AtomicStore`, Close drains, no write behind the caller's back, every submit returns |

The bounds. Three workers are needed for the races of `Lifecycle`: two stoppers and a wake,
or a leader, a rider and a delete. One sandbox is enough for properties about one id; `live`
has two because the danger is a cycle between ids. Its mixes are everything with every
fault, everything but create undisturbed with one stopper at a time, and create, wake, stop
and delete with restarts between any two steps. Two tasks make a predecessor and a
successor. One restart cuts what two tasks are doing; with a single task three let each
process die once and one of them again during a recovery. (`MCTasks` starts from these two
kinds of states; both together would exceed what TLC finishes.) `MaxAttempts` is 2 so that both a retry and giving up happen.
In `Images` the moments are enough for two snapshots, a retention that has run out and a
restore; `MCImages` begins either early, with an image that no longer changes, or late,
with one that does. In `Reaping` one moment beyond the threshold makes a sandbox idle, and the
percentages {4, 11, 16} fall into the emergency, stopping and healthy bands, 11 less a
wake's cost into the refusing one. `Ownership` needs two users for a hand-over and two ids
for a list. In `DevServer` one group is the one a stop still means, or that outlived its leader, and one the next;
two fast failures reach both a restart and giving up. In `Writer` a queue of one is full
while one op runs and one waits; an abandoned write lets a client have two in the store.

Conditions inside properties. `RowMatchesContainer` and `SnapshotSeesStoppedContainer`
hold undisturbed (`Undisturbed`: no failing calls, no create, one stopper at a time): with two stoppers and
a wake the row can say stopped while the container runs. `ReconciledRowsAgree` leaves out
calls that fail during the reconciliation. `CreatingRowHasCreator` leaves out a store that
fails, the malformed-env return of create, which does not mark the row, and docker failing
in a system that also crashes: a reconciler whose inspect fails goes on to the next row, and
one left in creating by the crash stays so until the next boot. `RunningRowIsWatched` and
`TrackedTaskEnds` except the rows in `adrift`, which wait for the next boot: a watcher that ran
out of time before it connected, or a store call that failed. `VerdictSurvivesRestart` excepts
`upset`. `SnapshotHoldsLiveImage` excepts a take that was `misled` by its row: `take.go:23` and
`take.go:55` conclude from the lock and the row that nothing writes, which holds unless a wake
failed after its docker start, a stopper marked late, or the boot had not put the row right.
`OriginalKept` excepts a crash while the new image is written and an abort that cannot
remove it (run `restore` shows the first). `IdleStopWasDue` leaves out a sandbox without
recorded activity (run `fresh` shows that case). `CheckpointBehindHandled` excepts half lines, and an
offset while it is astray; the code does lose lines there. The offset counts as recovered
at the first reset, or save of a read that began at 0, and is held to the property again.
`OneSandboxPerProject` excepts the projects in `crowded`. `RemediationRefreshes` and
`ShutdownEndsSupervised` except `missed` and `late` as above, and speak of groups that have
their leader: what outlives it is out of the supervisor's sight (run `stop_group`).

### Fairness

- `Lifecycle`: weak fairness of each worker's next step (goroutines are scheduled, docker and
  store calls return), strong fairness of taking a contended lock (`sync.Mutex` hands over to
  the longest waiter in starvation mode). None for new requests, faults or ticks.
- `Tasks`: weak fairness of a task's goroutine (the agent is killed at the deadline at the
  latest), of recovery, of a watcher, of the boot reconciler, and of `docker stop` killing a
  container that does not end. Nobody has to submit, cancel, stop or wake anything.
- `DevServer`: weak fairness of supervisor, stoppers, probes and the task's steps: each waits
  on a timer, a bounded loop or an HTTP timeout. The dev server owes nothing.
- `Writer`: weak fairness of the loop, of a caller and of main's return after Close; strong
  fairness of a blocked send, because Go queues blocked senders in order. Contexts need not
  end, nobody needs to close.

### Where the code and its documentation disagree

Each is a run that TLC finds violated, and an entry under `findings`.

| Run | Property | What happens |
|---|---|---|
| `restore` | `InterruptedRestoreRecoverable` | sandboxd stops while zstd writes the live image; at boot the sweep finds a live image and deletes the `.bak` |
| `pressure_task` | `ActiveTasksOnlyStoppedInEmergency` | the pressure reaper stops a sandbox with a running task above the emergency band |
| `fresh` | `FreshSandboxSpared` | an idle tick between MarkRunning and the seeding of `last_active_at` stops a new sandbox |
| `stop_group` | `StopTerminatesGroup` | `stop` returns when the leader of the process group has been reaped; a server that is slower, or ignores SIGTERM, gets no SIGKILL and stays |

Also reachable in the models and not stated as runs, because there is no property left to
hold: a refused wake leaves `wf.err` nil, so its riders answer success; a delete between
create's INSERT and its docker run leaves a container without a row; runtimed dying between
its done event and `result.json` leaves a log and a result that differ; a cancel before
`t.cancel` is set is answered 200 and lost; a half-seeded workspace counts as complete; a
failing look-up makes the boot reconciler store "failed" for a task that succeeds later; a
take reads an image under a container whose row says stopped (`misled`); a purge of a user
removes a workspace claimed by another since it listed; half a log line at the end of the
file is dropped; a
stop of the dev server soon after its start counts as a fast failure, so repeated
remediations can make the supervisor give up.

## 4. Proofs

Each proof module shows an inductive invariant and derives the properties from it: `Init =>
Inv`, `Inv /\ [Next]_vars => Inv'` with one step per action, and `Inv => P`. Every safety
invariant and every action property of the passing runs is proved but for
`RowMatchesContainer` and `SnapshotSeesStoppedContainer`, for any sets of
sandboxes, workers, tasks, users, projects, processes and clients, any mix of operations and
faults and any bounds. The only assumptions are the named `ASSUME`s on the constants (null
values are not members of their sets, bounds are natural numbers). Premises and exceptions
inside a property (section 3) are part of what is proved. Each
invariant was checked by TLC on the instances of the runs before it was proved.

`LifecycleProofs` has three invariants, each of which includes the first.

- `LifecycleInv`. `LockedSectionsExclusive` is not inductive: it does not say who holds the
  mutex. The invariant adds that `lock[i] = w` exactly when `w` is inside the locked section
  of an operation on `i` (`LockIsHeldInside`), that the in-flight map names exactly the
  leader (`MapNamesLeader`), that each step belongs to its operation (`StepsFit`), and that
  a rider's leader is still running (`NoAbandonedRider`: the leader leaves the map before it
  closes the channel, and a new leader may start in between). Theorems:
  `LifecycleInvariant`, `TypeCorrect`, `LockExclusion`, `WakeLeaderUnique`,
  `RidersHaveLeaders`.
- `BootInv`. While the reconciler runs no operation does (`BootIsQuiet`), and a creating row
  has a create that is past its INSERT, not one that may still be refused
  (`CreatorAtWork`). Theorems: `CreatingHasCreator`, `ReconciledAgree`. The proof attempt
  found the case of a failing inspect during a boot, which no run contains (see the premise
  in section 3).
- `VerdictInv`. A leader's `wferr` is set exactly when it has told its own client "failed",
  and until it answers it has said nothing (`ErrorsFit`). With `NoAbandonedRider` a rider
  reads the error of the wake it joined. Theorem: the action property `HardFailures`.
The two properties about an undisturbed sandbox are left to TLC: their premise excludes
failing calls and a second stopper, the cases in which row and container do come apart, so a
theorem would say little about the system as it runs. What survives those cases is in `Images`.

`TasksProofs`. `TasksInv` adds to typing that only `a.task` is active (`ActiveIsCurrent`: why
startTask may look at the last task alone), that a task is run once and decided once
(`DecidedOnce`), that every place a verdict passes through holds runTask's verdict or a
failure (`VerdictsReal`), and that a row that can still be written has one writer
(`OneWriter`: why FinishTask needs no guard). Theorems: `TasksInvariant`, `OneAgentAtATime`,
`StoredSuccess`, and the action property `VerdictIsFinal`. `VerdictInv` follows a task that
nothing has upset: its log is there from the moment it is accepted and holds a done event
from the moment it can be asked for (`StaysUp`), so the verdict found in a stream, a result
or a row is the decided one (`CarriedAsDecided`). Theorem: `VerdictSurvives`.
`RunningIsWatched` is inductive together with `TasksInv` and the fact that a row which was
left to the next boot stays in running until then (`AdriftRuns`).

`ImagesProofs`. The results rest on the id lock (`LockInv`). `TakeInv` says that, unless the row misled the
take, no container runs, zstd reads the image as it is and the finished `.tmp` equals it; `RestoreInv` that a restore past its
rename has the original in its `.bak`, and that without one under way the original is the
live image. `PruneInv` adds that a take copies an image that is there and that whatever a
prune has still to remove is followed by a later snapshot, which lasts because a prune goes
from the newest to the oldest. Theorems: `TypeCorrect`, `OriginalIsKept`, and the action
properties `SnapshotsFaithful` and `NewestStays`.

`ReapingProofs` covers `Activity` too. The invariant has one part per group of variables, so
that a step is argued only about the parts it touches. In the log a head is followed by its
own tail (`LogInv`), so what `ReadString` returns whole was written whole; everything before
the tailer's position and before the checkpoint, each in its own file and unless astray, has
been handled or was read in two halves (`TailInv`). What a tick found on record can only have ended since, its candidates were idle
by its own clock and not exempt (`TickInv`, `MayStop`), and a history of bumps is never
ahead of `last_active_at` (`RecordPart`). Theorems: `ReapingInvariant`, `TypeCorrect`,
`SavedOffsetHonest`, `IdleStopDue`, `WorkSpared`.

`OwnershipProofs`. Row, owner row and container of an id name one user (`RowInv`), and what
is on disk is the owner's or came with a claim (`WorkInv`). A create that has passed the
owner check may rely on it until its INSERT, and after it the row is its own (`CreateInv`),
because no removal is about the same id (`ApartInv`). A purge that has removed files finds
them still removed when it deletes the rows (`RemoveInv`): the container is gone and the id
lock (`LockInv`) keeps snapshots and a second purge out. `BaseInv` holds for all clients, the
rest for those that keep creates apart. Theorems: `OwnershipInvariant`, `TypeCorrect`,
`ContentKept`, `ContentOwned`. `ProjectInv` says that a v1 create which has yet to insert
found no sandbox of its project and no other v1 create of it is under way, or else the
project is `crowded`. Theorems: `ProjectInvariant`, `OneSandbox`.

`DevServerProofs`. The supervisor's step says what is recorded and which group can have its
leader (`SupInv`); nothing is said of servers, which may outlive it. A stop that has read a
group means the current one, or the supervisor has been through the end of that run since,
and then no group led was started before the stop (`PollInv`). From the end of the stop no
group led is old (`FreshInv`), so no probe that starts later can fetch or store an answer of
one (`ProbeInv`); a supervisor that has seen the context end starts nothing any more
(`ShutInv`). Theorems: `DevServerInvariant`, `TypeCorrect`, `OneServer` (one that is
supervised), `RemediationFresh`, `NothingLeft` (nothing supervised).

`WriterProofs`. A write that is queued or running (`Pending`) has been asked for, is not
done, is not answered "ok" or "err" (`PendingInv`), and comes after everything of its caller
that has taken effect (`DbOrder`), because the queue keeps each caller's order
(`QueueOrder`) and a call that is not yet sent is nowhere (`CallInv`). `LeftInv` carries the
fact that an abandoned context stays ended. Theorems: `Refinement` (every step of the writer
is a step of `AtomicStore` or leaves it unchanged), `LeftUndone`, `Drains`, `TypeCorrect`.

Checked by TLC only: the liveness properties `EveryOperationReturns`, `TrackedTaskEnds`,
`ServerComesBack`, `HangShows`, `RemediationEnds` and `SubmitReturns`. They need fairness, and
with it ENABLED, which the installed provers do not handle. No induction over data is
needed: the models have no recursive definition.

## 5. Mutants

Every property of a passing run has a mutant: an operator next to the definition it replaces
that changes it as a plausible bug would (a dropped guard, a missing unlock, a lost filter,
an unbuffered channel), under which the run must fail. They are marked "Mutant of" in the
modules and are not part of the specifications.

## 6. Plan

Done, in this order: `Lifecycle`, `Tasks`, `Images`, `Activity` and `Reaping`, `Ownership`,
`DevServer`, `Writer` with `AtomicStore`; the proofs of section 4.

Open, most useful first:

1. An abstract specification of what the task API promises a client (accepted, running,
   one final verdict, never overwritten) with `Tasks` shown to implement it, from
   `TasksInv`.
2. The same for a sandbox as its client sees it (asleep, awake, gone), with a history of the
   calls that failed and the stoppers that overlapped in the place of `Undisturbed`, and the
   two properties that have it as their premise restated and proved.
3. Variants for the liveness properties: what a step of a fair worker decreases, as action
   properties that can be proved although the conclusion stays with TLC.

## 7. Not modelled

Authentication and preview access decide per request and keep no state. The file API reads
and writes the workspace directly: `v1PutFile` (`v1_files_write.go:121`) looks whether the
directory is there and writes later, without the id lock, so beside a purge it can make
again what the purge has removed. `Ownership` has no file requests, and what it says of the
files left by a purge holds without them. Egress
accounting is disabled in this build (`main.go` passes a nil manager). nginx and Traefik
support produces configuration text. Metrics, logging and audit are output. The agent adapter
(`opencode.go`) parses an external program's output. The snapshot library
(`v1_snapshots.go`) copies a directory with `cp` without `-r`, which fails on this build's
layout, so it has no further behaviour to model. Migrations and `backfill-legacy` run alone;
the latter looks for `.img` files, of which the directory layout has none. Git push holds the
id lock like a snapshot and changes no state the models keep.
