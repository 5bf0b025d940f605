----------------------------- MODULE DevServer ------------------------------
(***************************************************************************)
(* runtimed's dev server (cmd/runtimed): the supervisor that starts it and *)
(* starts it again, stop as the post-task remediation and the shutdown     *)
(* call it, the health probes of the probe loop and of the task, and what  *)
(* GET /status makes of them.  They share d.proc, d.running and the last   *)
(* probe under two mutexes, and every check is stale by the time it is     *)
(* acted on.                                                               *)
(*                                                                         *)
(* A run is a process group: the bash the supervisor starts and waits for, *)
(* its leader, and the server below it.  Either may end before the other.  *)
(*                                                                         *)
(* Simplifications.  The id of a group is not reused while a member lives  *)
(* or a stop still means it.  A server answers GET / or not, and its entry *)
(* modules compile or not; when two are up, either may be the one that     *)
(* answers.  runtimed is the container's main process, so nothing moves    *)
(* once it has exited.  Whether a run that started was shorter than        *)
(* fastFailWindow is a choice.                                             *)
(***************************************************************************)
EXTENDS Naturals, FiniteSets

CONSTANTS
  Pids,          \* process groups (the current one, one a stop still means
                 \* or that outlived its leader, the next)
  NoPid,
  MaxFastFails   \* maxFastFails

ASSUME DevServerAssumption ==
  NoPid \notin Pids /\ MaxFastFails \in Nat \ {0}

Stoppers == {"task", "main"}
Probers  == {"task", "loop"}

VARIABLES
  sup,        \* the supervisor's next step
  cur,        \* the group it has started
  proc,       \* d.proc
  running,    \* d.running
  fastFails,  \* the supervisor's count
  led,        \* the groups whose leader, the child the supervisor reaps, lives
  serve,      \* serve[n]: the server of group n: "dead", "starting" (or
              \* hung, or answering what is no page), or "up"
  done,       \* the context has ended (SIGTERM)
  stopper,    \* stopper[s]: [pc, pid] of a call of stop
  task,       \* the task's step in its post-task checks
  prober,     \* prober[b]: [pc, code, old] of a probe
  last,       \* [code, old]: lastCode with lastAssetErr; a stale one answered
  stale,      \* history: led groups started before the config was edited
  missed,     \* history: stoppers that looked at d.proc during a start
  late        \* history: a probe was under way when the task began its own

vars == <<sup, cur, proc, running, fastFails, led, serve, done, stopper,
          task, prober, last, stale, missed, late>>
group     == <<led, serve>>
supVars   == <<sup, cur, proc, running, fastFails>>
probeVars == <<prober, last, late>>

\* The groups some process of which lives; the orphans among them have lost
\* their leader.
Alive == led \cup {n \in Pids : serve[n] # "dead"}
Exited == stopper["main"].pc = "exit"
NoAnswer == [code |-> "none", old |-> FALSE]
NoProbe  == [pc |-> "none", code |-> "none", old |-> FALSE]

-----------------------------------------------------------------------------
(***************************************************************************)
(* supervise and runOnce                                                   *)
(***************************************************************************)
SupCheck ==
  /\ sup = "check" /\ ~Exited
  /\ sup' = IF done THEN "quit" ELSE "start"
  /\ UNCHANGED <<cur, proc, running, fastFails, group, done, stopper,
                 task, probeVars, stale, missed>>

\* cmd.Start, which may fail; the new group reads the current config.
SupStart ==
  /\ sup = "start" /\ ~Exited
  /\ \/ \E n \in Pids :
          /\ n \notin Alive /\ \A s \in Stoppers : stopper[s].pid # n
          /\ led' = led \cup {n}
          /\ serve' = [serve EXCEPT ![n] = "starting"]
          /\ cur' = n
          /\ sup' = "record"
     \/ sup' = "failed" /\ UNCHANGED <<group, cur>>
  /\ UNCHANGED <<proc, running, fastFails, done, stopper, task, probeVars, stale,
                 missed>>

SupRecord ==
  /\ sup = "record" /\ ~Exited
  /\ proc' = cur /\ running' = TRUE
  /\ sup' = "wait"
  /\ UNCHANGED <<cur, fastFails, group, done, stopper, task, probeVars,
                 stale, missed>>

\* cmd.Wait: the leader is reaped, whatever else lives in its group.
SupWait ==
  /\ sup = "wait" /\ ~Exited
  /\ cur \notin led
  /\ sup' = "clear"
  /\ UNCHANGED <<cur, proc, running, fastFails, group, done, stopper,
                 task, probeVars, stale, missed>>

\* Mutant of SupClear: d.running is not reset.
SupClearProcOnly ==
  /\ sup = "clear" /\ ~Exited
  /\ proc' = NoPid
  /\ cur' = NoPid
  /\ sup' = "after"
  /\ UNCHANGED <<running, fastFails, group, done, stopper, task, probeVars,
                 stale, missed>>

SupClear ==
  /\ sup = "clear" /\ ~Exited
  /\ proc' = NoPid /\ running' = FALSE
  /\ cur' = NoPid
  /\ sup' = "after"
  /\ UNCHANGED <<fastFails, group, done, stopper, task, probeVars, stale,
                 missed>>

\* Mutant of Counts: the start time is taken once, not for every run.
CountsOldClock == {0, fastFails + 1}

\* The count of fast failures after this run: a start that failed is one; a run
\* may have been longer than fastFailWindow.
Counts == IF sup = "failed" THEN {fastFails + 1} ELSE {0, fastFails + 1}

\* Mutant of SupAfter: one run more than maxFastFails.
SupAfterOneMore ==
  /\ sup \in {"failed", "after"} /\ ~Exited
  /\ IF done THEN sup' = "quit" /\ UNCHANGED fastFails
     ELSE /\ fastFails' \in Counts
          /\ sup' = IF fastFails' > MaxFastFails THEN "gaveup" ELSE "backoff"
  /\ UNCHANGED <<cur, proc, running, group, done, stopper, task, probeVars, stale,
                 missed>>

\* Mutant of SupAfter: the context is not looked at before and in the pause.
SupAfterAgain ==
  /\ sup \in {"failed", "after"} /\ ~Exited
  /\ fastFails' \in Counts
  /\ sup' = IF fastFails' >= MaxFastFails THEN "gaveup" ELSE "start"
  /\ UNCHANGED <<cur, proc, running, group, done, stopper, task, probeVars, stale,
                 missed>>

\* The run is over: intentional, one fast failure too many, or a pause.
SupAfter ==
  /\ sup \in {"failed", "after"} /\ ~Exited
  /\ IF done THEN sup' = "quit" /\ UNCHANGED fastFails
     ELSE /\ fastFails' \in Counts
          /\ sup' = IF fastFails' >= MaxFastFails THEN "gaveup" ELSE "backoff"
  /\ UNCHANGED <<cur, proc, running, group, done, stopper, task, probeVars, stale,
                 missed>>

SupBackoff ==
  /\ sup = "backoff" /\ ~Exited
  /\ sup' = "check" \/ (done /\ sup' = "quit")
  /\ UNCHANGED <<cur, proc, running, fastFails, group, done, stopper,
                 task, probeVars, stale, missed>>

\* The server gets ready, breaks on a module, recovers, or exits.
Process(n) ==
  /\ serve[n] # "dead" /\ ~Exited
  /\ \E state \in {"starting", "up", "dead"} :
       serve[n] # state /\ serve' = [serve EXCEPT ![n] = state]
  /\ UNCHANGED <<supVars, led, done, stopper, task, probeVars, stale, missed>>

\* The leader exits, by itself or on a SIGTERM; its server goes with it or
\* lives on, an orphan.
LeaderExits(n) ==
  /\ n \in led /\ ~Exited
  /\ led' = led \ {n} /\ stale' = stale \ {n}
  /\ serve' = serve \/ serve' = [serve EXCEPT ![n] = "dead"]
  /\ UNCHANGED <<supVars, done, stopper, task, probeVars, missed>>

-----------------------------------------------------------------------------
(***************************************************************************)
(* stop                                                                    *)
(***************************************************************************)
\* The caller goes on: the task waits for the server, main exits.
StopReturns(s) ==
  /\ stopper' = [stopper EXCEPT ![s] = [pc |-> IF s = "main" THEN "exit" ELSE "none",
                                        pid |-> NoPid]]
  /\ task' = IF s = "task" THEN "ready" ELSE task

StopRead(s) ==
  /\ stopper[s].pc = "read" /\ ~Exited
  /\ IF proc = NoPid THEN StopReturns(s)
     ELSE /\ stopper' = [stopper EXCEPT ![s] = [pc |-> "poll", pid |-> proc]]
          /\ UNCHANGED task
  /\ missed' = IF proc = NoPid /\ sup \in {"start", "record"} THEN missed \cup {s}
               ELSE missed \ {s}
  /\ UNCHANGED <<supVars, group, done, probeVars, stale>>

\* Mutant of StopPoll: no SIGKILL, the looks go on.
StopPollWaits(s) ==
  /\ stopper[s].pc = "poll" /\ ~Exited
  /\ ~running /\ StopReturns(s)
  /\ UNCHANGED <<supVars, group, done, probeVars, stale, missed>>

\* Mutant of StopPoll: no SIGKILL after the last look.
StopPollGivesUp(s) ==
  /\ stopper[s].pc = "poll" /\ ~Exited
  /\ StopReturns(s)
  /\ UNCHANGED <<supVars, group, done, probeVars, stale, missed>>

\* After SIGTERM (which LeaderExits and Process may follow): it is over once
\* d.running is false, when the leader has been reaped; after fifty looks
\* SIGKILL is sent to the group it had read.
StopPoll(s) ==
  /\ stopper[s].pc = "poll" /\ ~Exited
  /\ \/ ~running /\ StopReturns(s) /\ UNCHANGED <<group, stale>>
     \/ /\ running
        /\ led' = led \ {stopper[s].pid} /\ stale' = stale \ {stopper[s].pid}
        /\ serve' = [serve EXCEPT ![stopper[s].pid] = "dead"]
        /\ StopReturns(s)
  /\ UNCHANGED <<supVars, done, probeVars, missed>>

\* SIGTERM to runtimed: the context ends, the control server closes and main
\* calls stop.
Shutdown ==
  /\ ~done
  /\ done' = TRUE
  /\ stopper' = [stopper EXCEPT !["main"].pc = "read"]
  /\ UNCHANGED <<supVars, group, task, probeVars, stale, missed>>

-----------------------------------------------------------------------------
(***************************************************************************)
(* Probes and status                                                       *)
(***************************************************************************)
\* What GET / and the entry modules may say when a server is up: "broken" is a
\* blank page.  An "ok" is old when the group of the server is still led and was
\* started before the config edit.
Answers ==
  LET up == {n \in Pids : serve[n] = "up"}
  IN IF up = {} THEN {NoAnswer}
     ELSE {[code |-> "broken", old |-> FALSE]}
            \cup {[code |-> "ok", old |-> n \in stale] : n \in up}

ProbeGet(b) ==
  /\ prober[b].pc = "get" /\ ~Exited
  /\ \E a \in Answers :
       prober' = [prober EXCEPT ![b] = [pc |-> "store", code |-> a.code, old |-> a.old]]
  /\ UNCHANGED <<supVars, group, done, stopper, task, last, stale, missed, late>>

\* Mutant of ProbeStore: only an answer is recorded.
ProbeStoreAnswers(b) ==
  /\ prober[b].pc = "store" /\ ~Exited
  /\ last' = IF prober[b].code = "none" THEN last
             ELSE [code |-> prober[b].code, old |-> prober[b].old]
  /\ prober' = [prober EXCEPT ![b] = NoProbe]
  /\ task' = IF b = "task" THEN "status" ELSE task
  /\ UNCHANGED <<supVars, group, done, stopper, stale, missed, late>>

ProbeStore(b) ==
  /\ prober[b].pc = "store" /\ ~Exited
  /\ last' = [code |-> prober[b].code, old |-> prober[b].old]
  /\ prober' = [prober EXCEPT ![b] = NoProbe]
  /\ task' = IF b = "task" THEN "status" ELSE task
  /\ UNCHANGED <<supVars, group, done, stopper, stale, missed, late>>

\* probeLoop's ticker.
ProbeTick ==
  /\ prober["loop"].pc = "none" /\ ~done
  /\ prober' = [prober EXCEPT !["loop"].pc = "get"]
  /\ UNCHANGED <<supVars, group, done, stopper, task, last, stale, missed, late>>

\* status(): the process state first, then the last probe.
Status ==
  IF ~running THEN "down"
  ELSE CASE last.code = "ok" -> "ready"
         [] last.code = "broken" -> "error"
         [] OTHER -> "starting"

-----------------------------------------------------------------------------
(***************************************************************************)
(* The task's checks (task.go 5.5 and 6, health.go)                        *)
(***************************************************************************)
\* The agent is done; it edited a config file or it did not (or the task was
\* cancelled, and the checks are skipped).
TaskDone ==
  /\ task = "none" /\ ~done
  /\ \/ /\ stale' = led
        /\ task' = "restart"
        /\ stopper' = [stopper EXCEPT !["task"].pc = "read"]
     \/ task' = "assets" /\ UNCHANGED <<stale, stopper>>
  /\ UNCHANGED <<supVars, group, done, probeVars, missed>>

\* waitDevReady: an answer, or the budget is spent; the note alone tells which.
WaitDevReady ==
  /\ task = "ready" /\ ~Exited
  /\ task' = "assets"
  /\ UNCHANGED <<supVars, group, done, stopper, probeVars, stale, missed>>

\* checkEntryAssetCompile; then the task's own probe.
CheckAssets ==
  /\ task = "assets" /\ ~Exited
  /\ task' = "probe"
  /\ prober' = [prober EXCEPT !["task"].pc = "get"]
  /\ late' = (prober["loop"].pc = "store")
  /\ UNCHANGED <<supVars, group, done, stopper, last, stale, missed>>

\* PreviewStatusAfter is read; the history of this task is dropped.
TaskReport ==
  /\ task = "status" /\ ~Exited
  /\ task' = "none"
  /\ stale' = {} /\ missed' = missed \ {"task"} /\ late' = FALSE
  /\ last' = [last EXCEPT !.old = FALSE]
  /\ prober' = [prober EXCEPT !["loop"].old = FALSE]
  /\ UNCHANGED <<supVars, group, done, stopper>>

-----------------------------------------------------------------------------
Init ==
  /\ sup = "check" /\ cur = NoPid /\ proc = NoPid /\ running = FALSE
  /\ fastFails = 0
  /\ led = {} /\ serve = [n \in Pids |-> "dead"]
  /\ done = FALSE
  /\ stopper = [s \in Stoppers |-> [pc |-> "none", pid |-> NoPid]]
  /\ task = "none"
  /\ prober = [b \in Probers |-> NoProbe]
  /\ last = NoAnswer
  /\ stale = {} /\ missed = {} /\ late = FALSE

Supervise ==
  \/ SupCheck \/ SupStart \/ SupRecord \/ SupWait \/ SupClear \/ SupAfter
  \/ SupBackoff

Stop(s) == StopRead(s) \/ StopPoll(s)

Probe(b) == ProbeGet(b) \/ ProbeStore(b)

TaskStep == WaitDevReady \/ CheckAssets \/ TaskReport

Next ==
  \/ Supervise \/ Shutdown \/ ProbeTick \/ TaskDone \/ TaskStep
  \/ \E n \in Pids : Process(n) \/ LeaderExits(n)
  \/ \E s \in Stoppers : Stop(s)
  \/ \E b \in Probers : Probe(b)

Spec == Init /\ [][Next]_vars

\* Goroutines are scheduled, tickers fire and timeouts end; a process owes
\* nobody anything.
FairSpec ==
  /\ Spec
  /\ WF_vars(Supervise) /\ WF_vars(TaskStep) /\ WF_vars(ProbeTick)
  /\ \A s \in Stoppers : WF_vars(Stop(s))
  /\ \A b \in Probers : WF_vars(Probe(b))

-----------------------------------------------------------------------------
(***************************************************************************)
(* Properties                                                              *)
(***************************************************************************)
\* Every variable has its type.
TypeOK ==
  /\ sup \in {"check", "start", "record", "wait", "clear", "failed", "after",
              "backoff", "gaveup", "quit"}
  /\ cur \in Pids \cup {NoPid} /\ proc \in Pids \cup {NoPid}
  /\ running \in BOOLEAN /\ done \in BOOLEAN
  /\ fastFails \in 0 .. MaxFastFails
  /\ led \subseteq Pids
  /\ serve \in [Pids -> {"dead", "starting", "up"}]
  /\ stopper \in [Stoppers -> [pc : {"none", "read", "poll", "exit"},
                               pid : Pids \cup {NoPid}]]
  /\ task \in {"none", "restart", "ready", "assets", "probe", "status"}
  /\ prober \in [Probers -> [pc : {"none", "get", "store"},
                             code : {"none", "ok", "broken"},
                             old : BOOLEAN]]
  /\ last \in [code : {"none", "ok", "broken"}, old : BOOLEAN]
  /\ stale \subseteq led /\ missed \subseteq Stoppers /\ late \in BOOLEAN

\* The supervisor and any stop between them keep at most one group with a
\* leader: a second server is one that outlived its own.  The process on record
\* is the one the supervisor waits for, and is running.
OneSupervised ==
  /\ Cardinality(led) <= 1
  /\ proc # NoPid => proc = cur
  /\ running <=> proc # NoPid

\* health.go:113: once stop has returned to a task that edited a config file, no
\* group started before the edit is led until the task reports, and the ready of
\* PreviewStatusAfter comes from none: what is old and answers has outlived its
\* leader.  (Unless stop looked while a start was going on, or an older probe of
\* the loop stored its result after the task's.)
RemediationRefreshes ==
  "task" \notin missed =>
    /\ task \notin {"none", "restart"} => stale = {}
    /\ task = "status" /\ ~late /\ Status = "ready" => ~last.old

\* main.go:94: runtimed does not exit and leave behind a dev server it
\* supervises, however the shutdown meets a crash, a restart, a backoff or a
\* remediation; unless stop looked while a start was going on.
ShutdownEndsSupervised ==
  Exited /\ "main" \notin missed => led = {}

\* devserver.go:114: stop terminates the process group, by SIGTERM or else by
\* SIGKILL.  (The leader's exit alone ends it: no SIGKILL reaches a server that
\* is still at its own shutdown, or ignores SIGTERM.)
StopTerminatesGroup ==
  [][\A s \in Stoppers :
       stopper[s].pc = "poll" /\ stopper'[s].pc # "poll" =>
         stopper[s].pid \notin Alive']_vars

\* devserver.go:23: one dev server is kept running.  Once it has exited, or a
\* start has failed, it runs again, unless the supervisor gave up or runtimed
\* is shutting down: no sequence of failed starts goes on for ever.
ServerComesBack ==
  sup \in {"clear", "failed", "after"} ~> (sup \in {"wait", "gaveup"} \/ done)

\* main.go:100: a server that stops answering for good does not stay ready.
HangShows ==
  <>[](running /\ ~done /\ Answers = {NoAnswer}) => <>[](Status # "ready" \/ done)

\* A remediation ends whatever the process does with SIGTERM.
RemediationEnds == task = "restart" ~> (task = "none" \/ Exited)
=============================================================================
