------------------------------ MODULE Reaping -------------------------------
(***************************************************************************)
(* The idle reaper, the pressure reaper and wake admission                 *)
(* (internal/reaper, wake/admit.go) on top of Activity.  A tick reads the  *)
(* clock and lists its candidates once, then works through them with a     *)
(* docker stop each: what it knows of a sandbox ages while users, other    *)
(* ticks and the memory go on.  The pressure tick runs in its own loop and *)
(* also inside Admit.                                                      *)
(*                                                                         *)
(* Simplifications.  Memory is one of a few percentages; a wake costs      *)
(* WakeCost of them.  Which sandbox is the heaviest is left open.  The     *)
(* egress manager is nil in this build.  Row and container locks are the   *)
(* subject of Lifecycle.                                                   *)
(***************************************************************************)
EXTENDS Activity

CONSTANTS
  AlwaysOn,    \* sandboxes with idle_policy always_on
  Threshold,   \* SANDBOXD_IDLE_THRESHOLD_SECONDS, in moments
  KeepMax,     \* KeepaliveMax, in moments
  Percents,    \* MemAvailable values considered
  Headroom, Refuse, Emergency,   \* the pressure thresholds, in percent
  WakeCost,    \* what a wake takes, in percent
  Scenarios    \* what happens in a behaviour, see MCReaping

ASSUME ReapingAssumption ==
  /\ AlwaysOn \subseteq Ids
  /\ Threshold \in Nat /\ KeepMax \in Nat /\ WakeCost \in Nat
  /\ Percents \subseteq Nat
  /\ Emergency < Refuse /\ Refuse < Headroom

Reapers == {"idle", "loop", "admit"}
Bands   == {"idle", "healthy", "10-15", "5-10", "<5"}

VARIABLES
  scenario,   \* [acts, fails]: who acts, and whether calls may fail
  row,        \* row[i]: the status
  up,         \* sandboxes whose container runs
  creator,    \* creator[i]: the next step of a create, "none" without one
  waking,     \* waking[i]: the moment a wake is about to write, 0 for none
  tasks,      \* sandboxes with a task row in running
  refused,    \* the shared Refused flag
  tick,       \* tick[r]: the tick of reaper r, see NoTick
  touched     \* history: the last activity recorded for a running sandbox

users    == <<row, up, creator, waking, tasks>>
reapVars == <<scenario, row, up, creator, waking, tasks, refused, tick,
              touched>>
allVars == <<actVars, reapVars>>

Acts(a) == a \in scenario.acts

\* A reaper between ticks.  at is the clock its tick has read, queue the
\* candidates as <<last_active_at, id>>; known, exec, task and keep are
\* history: what was on record or under way when the tick listed.
NoTick == [pc |-> "none", seen |-> 0, band |-> "healthy", at |-> 0,
           queue |-> {}, victim |-> NoId, known |-> [i \in Ids |-> 0],
           exec |-> {}, task |-> {}, keep |-> {}]

-----------------------------------------------------------------------------
(***************************************************************************)
(* Users                                                                   *)
(***************************************************************************)
\* Activity of i at t gets on record, while its row is running, unless the
\* store failed.
Touch(i, t) ==
  touched' = IF row[i] = "running" /\ lastActive'[i] >= t /\ touched[i] < t
             THEN [touched EXCEPT ![i] = t] ELSE touched

Quiet == UNCHANGED <<scenario, refused>>

\* handleCreate: INSERT, docker run, MarkRunning, then the seeding bump.
CreateInsert(i) ==
  /\ Acts("create")
  /\ row[i] = "none"
  /\ row' = [row EXCEPT ![i] = "creating"]
  /\ creator' = [creator EXCEPT ![i] = "run"]
  /\ UNCHANGED <<up, waking, tasks, touched, tick, actVars>>
  /\ Quiet

CreateRun(i) ==
  /\ creator[i] = "run"
  /\ up' = up \cup {i}
  /\ creator' = [creator EXCEPT ![i] = "mark"]
  /\ UNCHANGED <<row, waking, tasks, touched, tick, actVars>>
  /\ Quiet

CreateMark(i) ==
  /\ creator[i] = "mark"
  /\ row' = [row EXCEPT ![i] = "running"]
  /\ creator' = [creator EXCEPT ![i] = "seed"]
  /\ UNCHANGED <<up, waking, tasks, touched, tick, actVars>>
  /\ Quiet

CreateSeed(i) ==
  /\ creator[i] = "seed"
  /\ creator' = [creator EXCEPT ![i] = "none"]
  /\ \/ /\ lastActive' = [lastActive EXCEPT ![i] = IF @ < now THEN now ELSE @]
        /\ Touch(i, now)
     \/ scenario.fails /\ UNCHANGED <<lastActive, touched>>
  /\ UNCHANGED <<row, up, waking, tasks, tick, now, keepalive, execs, pending,
                 logVars, tailer>>
  /\ Quiet

\* A wake: docker start, which does nothing to a running container; once the
\* port answers, the clock; then MarkRunningWoke, which sets last_active_at
\* outright.
WakeStart(i) ==
  /\ Acts("wake")
  /\ row[i] = "stopped" /\ waking[i] = 0 /\ i \notin up
  /\ up' = up \cup {i}
  /\ UNCHANGED <<row, creator, waking, tasks, touched, tick, actVars>>
  /\ Quiet

WakeClock(i) ==
  /\ Acts("wake")
  /\ row[i] = "stopped" /\ waking[i] = 0 /\ i \in up
  /\ waking' = [waking EXCEPT ![i] = now]
  /\ UNCHANGED <<row, up, creator, tasks, touched, tick, actVars>>
  /\ Quiet

MarkRunningWoke(i) ==
  /\ waking[i] # 0
  /\ waking' = [waking EXCEPT ![i] = 0]
  /\ \/ /\ row' = [row EXCEPT ![i] = "running"]
        /\ lastActive' = [lastActive EXCEPT ![i] = waking[i]]
        /\ touched' = [touched EXCEPT ![i] = waking[i]]
     \/ scenario.fails /\ UNCHANGED <<row, lastActive, touched>>
  /\ UNCHANGED <<up, creator, tasks, tick, now, keepalive, execs, pending,
                 logVars, tailer>>
  /\ Quiet

TaskStart(i) ==
  /\ Acts("task")
  /\ row[i] = "running" /\ i \in up
  /\ tasks' = tasks \cup {i}
  /\ UNCHANGED <<row, up, creator, waking, touched, tick, actVars>>
  /\ Quiet

\* The task ends, or its watcher gives it up after the container went away.
TaskEnd(i) ==
  /\ i \in tasks
  /\ tasks' = tasks \ {i}
  /\ tick' = [r \in Reapers |-> [tick[r] EXCEPT !.task = @ \ {i}]]
  /\ UNCHANGED <<row, up, creator, waking, touched, actVars>>
  /\ Quiet

\* Activity's steps, with what they leave on record here.
Signal ==
  /\ \/ /\ Acts("exec")
        /\ \E i \in Ids : (row[i] = "running" /\ ExecBegin(i)) \/ ExecEnd(i)
        /\ UNCHANGED <<touched, tick>>
     \/ /\ ExecExit
        /\ Touch(pending["exec_end"].id, pending["exec_end"].at)
        /\ tick' = [r \in Reapers |->
             [tick[r] EXCEPT !.exec = @ \ {pending["exec_end"].id}]]
     \/ /\ Acts("poll")
        /\ \E i \in Ids : Poll(i)
        /\ UNCHANGED <<touched, tick>>
     \/ /\ \E s \in {"tailer", "poller", "exec_begin"} :
             Commit(s) /\ Touch(pending[s].id, pending[s].at)
        /\ UNCHANGED tick
     \/ /\ Acts("keep")
        /\ \E i \in Ids : Keepalive(i, now + 1, KeepMax)
                            \/ Keepalive(i, now + KeepMax + 1, KeepMax)
        /\ UNCHANGED <<touched, tick>>
     \/ /\ Acts("log")
        /\ LogStep
        /\ UNCHANGED <<touched, tick>>
  /\ UNCHANGED users
  /\ Quiet

Clock ==
  /\ now < MaxTime
  /\ now' = now + 1
  /\ UNCHANGED <<lastActive, keepalive, execs, pending, logVars, tailer, users,
                 touched, tick>>
  /\ Quiet

-----------------------------------------------------------------------------
(***************************************************************************)
(* Ticks                                                                   *)
(***************************************************************************)
TickGoto(r, step) == tick' = [tick EXCEPT ![r].pc = step]
TickEnds(r) == tick' = [tick EXCEPT ![r] = NoTick]

Outside == UNCHANGED <<scenario, users, touched, actVars>>

\* The idle reaper's ticker fires: the tick reads the clock.
IdleTick ==
  /\ Acts("idle")
  /\ tick["idle"].pc = "none"
  /\ tick' = [tick EXCEPT !["idle"].pc = "list", !["idle"].band = "idle",
                       !["idle"].at = now]
  /\ UNCHANGED refused
  /\ Outside

\* The pressure loop's ticker fires.
LoopTick ==
  /\ Acts("loop")
  /\ tick["loop"].pc = "none"
  /\ TickGoto("loop", "mem")
  /\ UNCHANGED refused
  /\ Outside

\* Admit finds too little memory for a wake and, unless wakes are refused
\* already, runs a tick of its own.
AdmitTick(a) ==
  /\ Acts("admit")
  /\ tick["admit"].pc = "none"
  /\ a < Refuse + WakeCost
  /\ ~refused
  /\ TickGoto("admit", "mem")
  /\ UNCHANGED refused
  /\ Outside

\* ReadMemInfo, which may fail.
ReadMemory(r, a) ==
  /\ tick[r].pc = "mem"
  /\ \/ tick' = [tick EXCEPT ![r].pc = "flag", ![r].seen = a]
     \/ scenario.fails /\ TickEnds(r)
  /\ UNCHANGED refused
  /\ Outside

BandOf(a) ==
  CASE a >= Headroom -> "healthy"
    [] a >= Refuse /\ a < Headroom -> "10-15"
    [] a >= Emergency /\ a < Refuse -> "5-10"
    [] OTHER -> "<5"

\* The flag follows what was read, with hysteresis; a healthy host ends the
\* tick, any other reads the clock.
SetFlag(r) ==
  /\ tick[r].pc = "flag"
  /\ refused' = IF tick[r].seen < Refuse THEN TRUE
                ELSE IF tick[r].seen >= Refuse + 2 THEN FALSE ELSE refused
  /\ IF BandOf(tick[r].seen) = "healthy" THEN TickEnds(r)
     ELSE tick' = [tick EXCEPT ![r].pc = "list", ![r].seen = 0, ![r].at = now,
                               ![r].band = BandOf(tick[r].seen)]
  /\ Outside

\* Mutant of Cutoff: the threshold is left out.
CutoffNow(r) == tick[r].at

\* The tick's clock less Threshold for the idle reaper, the clock itself for
\* the pressure reaper.
Cutoff(r) ==
  IF r # "idle" THEN tick[r].at
  ELSE IF tick[r].at > Threshold THEN tick[r].at - Threshold ELSE 0

\* Mutant of Candidates: idle_policy is not looked at.
CandidatesAll(r) ==
  {<<lastActive[i], i>> :
     i \in {j \in Ids : /\ row[j] = "running"
                        /\ lastActive[j] < Cutoff(r)
                        /\ keepalive[j] <= tick[r].at}}

\* ListIdleCandidates, and the keepalive rule on the values it returned.
Candidates(r) ==
  {<<lastActive[i], i>> :
     i \in {j \in Ids \ AlwaysOn : /\ row[j] = "running"
                                   /\ lastActive[j] < Cutoff(r)
                                   /\ keepalive[j] <= tick[r].at}}

Running == {i \in Ids : row[i] = "running"}

\* A cgroup that is gone reads as 0 bytes, which is no candidate.
Killable == Running \cap up

\* What the tick of r finds when it begins.
Listed(r) ==
  [tick[r] EXCEPT !.known = touched, !.task = tasks,
                  !.exec = {i \in Ids : execs[i] > 0},
                  !.keep = {i \in Ids : keepalive[i] > now}]

\* The candidates; or stopHeaviestRSS lists every running row, whatever it
\* does, and picks one whose cgroup can be read.
List(r) ==
  /\ tick[r].pc = "list"
  /\ \/ /\ tick[r].band # "<5"
        /\ tick' = [tick EXCEPT ![r] =
             [Listed(r) EXCEPT !.pc = "next", !.queue = Candidates(r)]]
     \/ /\ tick[r].band = "<5"
        /\ \E i \in Killable :
             tick' = [tick EXCEPT ![r] =
               [Listed(r) EXCEPT !.pc = "stop", !.victim = i]]
     \/ /\ tick[r].band = "<5" \/ scenario.fails
        /\ TickEnds(r)
  /\ UNCHANGED refused
  /\ Outside

\* Mutant of Skip: exec calls are not looked at.
SkipTasksOnly(r, i) == r = "idle" /\ i \in tasks

\* The rules read afresh for each candidate: an exec call in flight; for the
\* idle reaper only, a running task.
Skip(r, i) ==
  \/ execs[i] > 0
  \/ r = "idle" /\ i \in tasks

Oldest(r) == {c \in tick[r].queue : \A d \in tick[r].queue : c[1] <= d[1]}

\* A task check that fails does not skip.
NextCandidate(r) ==
  /\ tick[r].pc = "next"
  /\ \/ tick[r].queue = {} /\ TickEnds(r)
     \/ \E c \in Oldest(r) :
          \/ /\ Skip(r, c[2])
             /\ tick' = [tick EXCEPT ![r].queue = @ \ {c}]
          \/ /\ ~Skip(r, c[2]) \/ (scenario.fails /\ execs[c[2]] = 0)
             /\ tick' = [tick EXCEPT ![r].queue = @ \ {c}, ![r].pc = "stop",
                                     ![r].victim = c[2]]
  /\ UNCHANGED refused
  /\ Outside

\* After a failed or a completed stop the idle reaper goes on to the next
\* candidate; a pressure tick ends.
Onward(r) ==
  IF r = "idle" THEN tick' = [tick EXCEPT ![r].pc = "next", ![r].victim = NoId]
  ELSE TickEnds(r)

DockerStop(r) ==
  /\ tick[r].pc = "stop"
  /\ \/ /\ up' = up \ {tick[r].victim}
        /\ TickGoto(r, "mark")
     \/ /\ scenario.fails
        /\ Onward(r)
        /\ UNCHANGED up
  /\ UNCHANGED <<scenario, refused, row, creator, waking, tasks, touched,
                 actVars>>

\* MarkStoppedAt has no guard on the status.
MarkStoppedAt(r) ==
  /\ tick[r].pc = "mark"
  /\ \/ row' = [row EXCEPT ![tick[r].victim] = "stopped"]
     \/ scenario.fails /\ UNCHANGED row
  /\ Onward(r)
  /\ UNCHANGED <<scenario, refused, up, creator, waking, tasks, touched,
                 actVars>>

\* sandboxd restarts: the backfill of last_active_at, from updated_at,
\* comes before the reconciler promotes the rows whose container runs (creating rows older
\* than five minutes become errors).
Restart ==
  /\ Acts("restart")
  /\ ActForget
  /\ \E updated \in 1 .. now :
       lastActive' = [i \in Ids |-> IF row[i] = "running" /\ lastActive[i] = 0
                                    THEN updated ELSE lastActive[i]]
  /\ \E stale \in SUBSET {i \in Ids : row[i] = "creating"} :
       row' = [i \in Ids |-> IF row[i] \in {"none", "error"} THEN row[i]
                             ELSE IF i \in stale THEN "error"
                             ELSE IF i \in up THEN "running" ELSE "stopped"]
  /\ creator' = [i \in Ids |-> "none"]
  /\ waking' = [i \in Ids |-> 0]
  /\ touched' = [i \in Ids |-> IF row'[i] = "running" THEN lastActive'[i]
                               ELSE 0]
  /\ refused' = FALSE
  /\ tick' = [r \in Reapers |-> NoTick]
  /\ UNCHANGED <<scenario, up, tasks>>

-----------------------------------------------------------------------------
Init ==
  /\ ActInit
  /\ scenario \in Scenarios
  /\ lastActive = [i \in Ids |-> IF Acts("create") THEN 0 ELSE 1]
  /\ row = [i \in Ids |-> IF Acts("create") THEN "none" ELSE "running"]
  /\ up = IF Acts("create") THEN {} ELSE Ids
  /\ creator = [i \in Ids |-> "none"]
  /\ waking = [i \in Ids |-> 0]
  /\ tasks = {}
  /\ refused = FALSE
  /\ tick = [r \in Reapers |-> NoTick]
  /\ touched = lastActive

UserStep ==
  \E i \in Ids :
    \/ CreateInsert(i) \/ CreateRun(i) \/ CreateMark(i) \/ CreateSeed(i)
    \/ WakeStart(i) \/ WakeClock(i) \/ MarkRunningWoke(i)
    \/ TaskStart(i) \/ TaskEnd(i)

TickStep(r) ==
  \/ \E a \in Percents : ReadMemory(r, a)
  \/ SetFlag(r) \/ List(r) \/ NextCandidate(r) \/ DockerStop(r)
  \/ MarkStoppedAt(r)

Next ==
  \/ UserStep \/ Signal \/ Clock \/ Restart
  \/ IdleTick \/ LoopTick
  \/ \E a \in Percents : AdmitTick(a)
  \/ \E r \in Reapers : TickStep(r)

Spec == Init /\ [][Next]_allVars

-----------------------------------------------------------------------------
(***************************************************************************)
(* Properties                                                              *)
(***************************************************************************)
Tick == [pc : {"none", "mem", "flag", "list", "next", "stop", "mark"},
         seen : Percents \cup {0}, band : Bands, at : 0 .. MaxTime,
         queue : SUBSET ((0 .. MaxTime) \X Ids), victim : Ids \cup {NoId},
         known : [Ids -> 0 .. MaxTime],
         exec : SUBSET Ids, task : SUBSET Ids, keep : SUBSET Ids]

\* Every variable has its type.
TypeOK ==
  /\ ActTypeOK
  /\ row \in [Ids -> {"none", "creating", "running", "stopped", "error"}]
  /\ up \subseteq Ids /\ tasks \subseteq Ids
  /\ creator \in [Ids -> {"none", "run", "mark", "seed"}]
  /\ waking \in [Ids -> 0 .. MaxTime]
  /\ refused \in BOOLEAN
  /\ tick \in [Reapers -> Tick]
  /\ touched \in [Ids -> 0 .. MaxTime]

\* r has just stopped the container of i.
Stops(r, i) == tick[r].pc = "mark" /\ tick[r].victim = i

\* The idle reaper only ever stops a sandbox whose last activity on record
\* was more than Threshold old when its tick began, in whatever order the
\* tailer, the poller, exec calls and wakes committed what they had read from
\* the clock.  (A sandbox whose seeding bump has not happened has no activity
\* on record.)
IdleStopWasDue ==
  \A i \in Ids :
    Stops("idle", i) /\ tick["idle"].known[i] # 0
      => tick["idle"].known[i] + Threshold < tick["idle"].at

\* Below an emergency, no tick interrupts an exec call that was in flight, or
\* ends a keepalive that was granted, before it began; the idle reaper does
\* not interrupt a task either, unless the store fails it; always_on sandboxes
\* are left alone.
StopSparesWork ==
  \A r \in Reapers, i \in Ids :
    Stops(r, i) /\ tick[r].band # "<5" =>
      /\ i \notin tick[r].exec \cup tick[r].keep \cup AlwaysOn
      /\ (r = "idle" /\ ~scenario.fails) => i \notin tick[r].task

\* pressure.go:122: stopOldestIdle applies "the same skip rules as the idle
\* reaper ... we don't kill active work to defend an advisory threshold".
ActiveTasksOnlyStoppedInEmergency ==
  \A r \in Reapers, i \in Ids :
    Stops(r, i) /\ tick[r].band # "<5" /\ ~scenario.fails
      => i \notin tick[r].task

\* handlers.go:618: the create seeds last_active_at "so a freshly-created
\* sandbox isn't instantly a candidate of the idle reaper".
FreshSandboxSpared ==
  \A i \in Ids :
    Stops("idle", i) /\ ~scenario.fails => tick["idle"].known[i] # 0
=============================================================================
