-------------------------- MODULE DevServerProofs ---------------------------
(***************************************************************************)
(* The safety properties of DevServer hold for any process groups and any  *)
(* maxFastFails.                                                           *)
(*                                                                         *)
(* The supervisor's step says what is recorded and which group can be led  *)
(* (SupInv); nothing is said of servers, which may outlive their leader.   *)
(* A stop that read a group means the current one, or the supervisor has   *)
(* been through the end of that run since; and then no group led was       *)
(* started before the stop (PollInv).  The rest follows a result on its    *)
(* way: from the end of the stop no group led is old (FreshInv), so no     *)
(* probe that starts later can fetch or store an old answer (ProbeInv),    *)
(* and a supervisor that has seen the context end starts nothing any more  *)
(* (ShutInv).                                                              *)
(***************************************************************************)
EXTENDS DevServer, FiniteSetTheorems, TLAPS

\* What the supervisor's step tells of its group and of the record.
SupInv ==
  /\ led \subseteq {cur}
  /\ cur = NoPid <=> sup \notin {"record", "wait", "clear"}
  /\ sup \in {"wait", "clear"} => proc = cur /\ running
  /\ sup \notin {"wait", "clear"} => proc = NoPid /\ ~running
  /\ sup = "clear" => led = {}
  /\ sup # "gaveup" => fastFails < MaxFastFails

\* Where a stop and its caller are.
CallInv ==
  /\ task = "restart" <=> stopper["task"].pc \in {"read", "poll"}
  /\ stopper["task"].pc # "exit"
  /\ done <=> stopper["main"].pc # "none"
  /\ \A s \in Stoppers : stopper[s].pc = "poll" <=> stopper[s].pid # NoPid
  /\ prober["task"].pc # "none" => task = "probe"

\* The run a stop has read of is still going on.
Reading(s) == sup \in {"wait", "clear"} /\ stopper[s].pid = cur

\* A remediation that polls means the current group, or nothing old is led.
PollInv ==
  stopper["task"].pc = "poll" => Reading("task") \/ stale = {}

\* After the remediation nothing old is led, unless the stop missed a start.
FreshInv ==
  task # "restart" /\ "task" \notin missed => stale = {}

\* From the task's own probe on, no answer of an old group is on its way.
ProbeInv ==
  task \in {"probe", "status"} /\ ~late /\ "task" \notin missed =>
    /\ \A b \in Probers : prober[b].pc = "store" => ~prober[b].old
    /\ task = "status" => ~last.old

\* Once main polls, a run that ends is the last; once it has exited, nothing is
\* led, unless the stop missed a start.
ShutInv ==
  /\ stopper["main"].pc = "poll" =>
       Reading("main") \/ (led = {} /\ sup \notin {"start", "record"})
  /\ Exited /\ "main" \notin missed => led = {}

DevServerInv ==
  TypeOK /\ SupInv /\ CallInv /\ PollInv /\ FreshInv /\ ProbeInv /\ ShutInv


USE DevServerAssumption
USE DEF Stoppers, Probers, Exited, probeVars, supVars, group

-----------------------------------------------------------------------------
\* Steps of the supervisor that leave the processes alone.
LEMMA SuperviseInv ==
  ASSUME DevServerInv,
         SupCheck \/ SupRecord \/ SupWait \/ SupClear \/ SupAfter \/ SupBackoff
  PROVE  DevServerInv'
  <1> USE DEF DevServerInv
  <1>0. UNCHANGED <<led, serve, done, stopper, task, prober, last,
                                      stale, missed, late>>
    BY DEF SupCheck, SupRecord, SupWait, SupClear, SupAfter, SupBackoff
  <1>a. fastFails \in 0 .. MaxFastFails /\ fastFails' \in 0 .. MaxFastFails
    <2>1. CASE SupAfter
      BY <2>1 DEF SupAfter, Counts, TypeOK, SupInv
    <2>2. CASE ~SupAfter
      BY <2>2 DEF TypeOK, SupCheck, SupRecord, SupWait, SupClear, SupBackoff
    <2> QED
      BY <2>1, <2>2
  <1>b. /\ sup' \in {"check", "start", "record", "wait", "clear", "failed",
                     "after", "backoff", "gaveup", "quit"}
        /\ cur' \in Pids \cup {NoPid} /\ proc' \in Pids \cup {NoPid}
        /\ running' \in BOOLEAN
    BY DEF TypeOK, SupCheck, SupRecord, SupWait, SupClear, SupAfter, SupBackoff
  <1>1. TypeOK'
    BY <1>0, <1>a, <1>b DEF TypeOK
  <1>2. SupInv'
    BY <1>0 DEF TypeOK, SupInv, SupCheck, SupRecord, SupWait, SupClear, SupAfter,
                Counts, SupBackoff
  <1>3. CallInv' /\ FreshInv' /\ ProbeInv'
    BY <1>0 DEF CallInv, FreshInv, ProbeInv
  <1>4. PollInv'
    BY <1>0 DEF TypeOK, PollInv, SupInv, Reading, SupCheck, SupRecord, SupWait,
                SupClear, SupAfter, SupBackoff
  <1>5. ShutInv'
    BY <1>0 DEF ShutInv, CallInv, SupInv, Reading, SupCheck, SupRecord, SupWait,
                SupClear, SupAfter, SupBackoff
  <1> QED
    BY <1>1, <1>2, <1>3, <1>4, <1>5

\* runOnce starts a group: the leader of the one before it has been reaped.
LEMMA SupStartInv ==
  ASSUME DevServerInv, SupStart
  PROVE  DevServerInv'
  <1> USE DEF DevServerInv
  <1>0. /\ sup = "start" /\ ~Exited /\ led = {} /\ sup' \in {"record", "failed"}
        /\ UNCHANGED <<proc, running, fastFails, done, stopper, task, prober,
                       last, stale, missed, late>>
    BY DEF SupStart, SupInv, TypeOK
  <1>1. /\ led' \subseteq {cur'} /\ led' \subseteq Pids /\ cur' \in Pids \cup {NoPid}
        /\ cur' = NoPid <=> sup' = "failed"
        /\ serve' \in [Pids -> {"dead", "starting", "up"}]
    BY <1>0 DEF SupStart, SupInv, TypeOK
  <1>2. TypeOK'
    BY <1>0, <1>1 DEF TypeOK
  <1>3. SupInv' /\ CallInv'
    BY <1>0, <1>1 DEF SupInv, CallInv
  <1>4. PollInv' /\ FreshInv' /\ ProbeInv' /\ ShutInv'
    BY <1>0 DEF PollInv, FreshInv, ProbeInv, ShutInv, Reading
  <1> QED
    BY <1>2, <1>3, <1>4

\* The server starts to serve, hangs or dies, its leader exits: no group gets
\* a leader that had none.
LEMMA GroupInv ==
  ASSUME DevServerInv, NEW n \in Pids, Process(n) \/ LeaderExits(n)
  PROVE  DevServerInv'
  <1> USE DEF DevServerInv
  <1>0. UNCHANGED <<sup, cur, proc, running, fastFails, done, stopper, task, prober,
                    last, missed, late>>
    BY DEF Process, LeaderExits
  <1>1. /\ led' \subseteq led /\ stale' \subseteq led' /\ stale' \subseteq stale
        /\ serve' \in [Pids -> {"dead", "starting", "up"}]
    BY DEF Process, LeaderExits, TypeOK
  <1>2. TypeOK'
    BY <1>0, <1>1 DEF TypeOK
  <1>3. SupInv' /\ CallInv'
    BY <1>0, <1>1 DEF SupInv, CallInv
  <1>4. PollInv' /\ FreshInv' /\ ProbeInv' /\ ShutInv'
    BY <1>0, <1>1 DEF PollInv, FreshInv, ProbeInv, ShutInv, Reading
  <1> QED
    BY <1>2, <1>3, <1>4

\* A call of stop has returned: the stopper's record and the caller's step.
Returned(s) ==
  /\ stopper' \in [Stoppers -> [pc : {"none", "read", "poll", "exit"},
                                pid : Pids \cup {NoPid}]]
  /\ stopper'[s].pc = IF s = "main" THEN "exit" ELSE "none"
  /\ stopper'[s].pid = NoPid
  /\ \A o \in Stoppers : o # s => stopper'[o] = stopper[o]
  /\ task' = IF s = "task" THEN "ready" ELSE task

\* A stop that returns leaves no stopper behind it.
LEMMA StopReturned ==
  ASSUME TypeOK, NEW s \in Stoppers, StopReturns(s)
  PROVE  Returned(s)
BY DEF TypeOK, StopReturns, Returned

\* stop reads the process under the mutex and signals it outside.
LEMMA StopReadInv ==
  ASSUME DevServerInv, NEW s \in Stoppers, StopRead(s)
  PROVE  DevServerInv'
  <1> USE DEF DevServerInv
  <1>0. /\ stopper[s].pc = "read" /\ ~Exited
        /\ missed' = IF proc = NoPid /\ sup \in {"start", "record"}
                     THEN missed \cup {s} ELSE missed \ {s}
        /\ UNCHANGED <<sup, cur, proc, running, fastFails, led, serve, done,
                       prober, last, late, stale>>
    BY DEF StopRead
  <1>1. CASE proc = NoPid
    <2>1. Returned(s)
      BY <1>1, StopReturned DEF StopRead
    <2>2. sup \notin {"start", "record"} => led = {} /\ stale = {}
      BY <1>1 DEF SupInv, TypeOK
    <2>3. TypeOK'
      BY <1>0, <1>1, <2>1 DEF TypeOK, Returned
    <2>4. SupInv' /\ CallInv'
      BY <1>0, <1>1, <2>1 DEF SupInv, CallInv, Returned
    <2>5. PollInv' /\ FreshInv' /\ ProbeInv'
      BY <1>0, <1>1, <2>1, <2>2 DEF PollInv, FreshInv, ProbeInv, CallInv, Reading,
                                    Returned
    <2>6. ShutInv'
      BY <1>0, <1>1, <2>1, <2>2 DEF ShutInv, CallInv, Reading, Returned
    <2> QED
      BY <2>3, <2>4, <2>5, <2>6
  <1>2. CASE proc # NoPid
    <2>1. /\ stopper' \in [Stoppers -> [pc : {"none", "read", "poll", "exit"},
                                        pid : Pids \cup {NoPid}]]
          /\ stopper'[s].pc = "poll" /\ stopper'[s].pid = proc
          /\ \A o \in Stoppers : o # s => stopper'[o] = stopper[o]
          /\ task' = task
      BY <1>2 DEF StopRead, TypeOK
    <2>2. sup \in {"wait", "clear"} /\ proc = cur
      BY <1>2 DEF SupInv
    <2>3. TypeOK'
      BY <1>0, <1>2, <2>1 DEF TypeOK
    <2>4. SupInv' /\ CallInv'
      BY <1>0, <1>2, <2>1 DEF SupInv, CallInv
    <2>5. PollInv' /\ FreshInv' /\ ProbeInv'
      BY <1>0, <1>2, <2>1, <2>2 DEF PollInv, FreshInv, ProbeInv, CallInv, Reading
    <2>6. ShutInv'
      BY <1>0, <1>2, <2>1, <2>2 DEF ShutInv, CallInv, Reading
    <2> QED
      BY <2>3, <2>4, <2>5, <2>6
  <1> QED
    BY <1>1, <1>2

\* stop polls until the process is reaped or its time is up.
LEMMA StopPollInv ==
  ASSUME DevServerInv, NEW s \in Stoppers, StopPoll(s)
  PROVE  DevServerInv'
  <1> USE DEF DevServerInv
  <1>0. /\ stopper[s].pc = "poll" /\ stopper[s].pid \in Pids /\ ~Exited
        /\ UNCHANGED <<sup, cur, proc, running, fastFails, done, prober,
                       last, late, missed>>
    BY DEF StopPoll, CallInv, TypeOK
  <1>1. Returned(s)
    BY StopReturned DEF StopPoll
  <1>2. /\ serve' \in [Pids -> {"dead", "starting", "up"}]
        /\ led' = IF running THEN led \ {stopper[s].pid} ELSE led
        /\ stale' = IF running THEN stale \ {stopper[s].pid} ELSE stale
    BY <1>0 DEF StopPoll, TypeOK
  <1>3. /\ led' \subseteq led /\ stale' \subseteq stale /\ stale' \subseteq led'
        /\ Reading(s) => led' = {} /\ stale' = {}
    BY <1>2 DEF SupInv, Reading, TypeOK
  <1>4. TypeOK'
    BY <1>0, <1>1, <1>2, <1>3 DEF TypeOK, Returned
  <1>5. SupInv' /\ CallInv'
    BY <1>0, <1>1, <1>3 DEF SupInv, CallInv, Returned
  <1>6. PollInv' /\ FreshInv' /\ ProbeInv'
    BY <1>0, <1>1, <1>3 DEF PollInv, FreshInv, ProbeInv, CallInv, Reading, Returned
  <1>7. ShutInv'
    BY <1>0, <1>1, <1>3 DEF ShutInv, CallInv, Reading, Returned
  <1> QED
    BY <1>4, <1>5, <1>6, <1>7

\* The shutdown sequence: stopping is set before the process is stopped.
LEMMA ShutdownInv ==
  ASSUME DevServerInv, Shutdown
  PROVE  DevServerInv'
  <1> USE DEF DevServerInv
  <1>0. /\ ~done /\ done' = TRUE
        /\ UNCHANGED <<sup, cur, proc, running, fastFails, led, serve, task,
                       prober, last, late, stale, missed>>
    BY DEF Shutdown
  <1>1. /\ stopper' \in [Stoppers -> [pc : {"none", "read", "poll", "exit"},
                                      pid : Pids \cup {NoPid}]]
        /\ stopper'["main"].pc = "read" /\ stopper'["main"].pid = stopper["main"].pid
        /\ stopper'["task"] = stopper["task"]
    BY DEF Shutdown, TypeOK
  <1>2. TypeOK'
    BY <1>0, <1>1 DEF TypeOK
  <1>3. SupInv' /\ CallInv'
    BY <1>0, <1>1 DEF SupInv, CallInv
  <1>4. PollInv' /\ FreshInv' /\ ProbeInv' /\ ShutInv'
    BY <1>0, <1>1 DEF PollInv, FreshInv, ProbeInv, ShutInv, Reading
  <1> QED
    BY <1>2, <1>3, <1>4

\* While nothing old is led, no answer is old.
LEMMA AnswersFresh ==
  ASSUME NEW a \in Answers
  PROVE  /\ a \in [code : {"none", "ok", "broken"}, old : BOOLEAN]
         /\ stale = {} => ~a.old
  <1>1. ASSUME NEW c \in {"none", "broken"}, a = [code |-> c, old |-> FALSE]
        PROVE  /\ a \in [code : {"none", "ok", "broken"}, old : BOOLEAN]
               /\ stale = {} => ~a.old
    <2>1. a \in [code : {"none", "ok", "broken"}, old : BOOLEAN]
      BY <1>1
    <2>2. ~a.old
      BY <1>1
    <2> QED
      BY <2>1, <2>2
  <1>2. CASE \E n \in Pids : a = [code |-> "ok", old |-> n \in stale]
    <2>1. PICK n \in Pids : a = [code |-> "ok", old |-> n \in stale]
      BY <1>2
    <2>2. (n \in stale) \in BOOLEAN
      OBVIOUS
    <2>3. a \in [code : {"none", "ok", "broken"}, old : BOOLEAN]
      BY <2>1, <2>2
    <2>4. a.old = (n \in stale)
      BY <2>1
    <2>5. stale = {} => ~a.old
      BY <2>4
    <2> QED
      BY <2>3, <2>5
  <1> QED
    BY <1>1, <1>2 DEF Answers, NoAnswer

\* The health probe reads the supervisor's state ...
LEMMA ProbeGetInv ==
  ASSUME DevServerInv, NEW b \in Probers, ProbeGet(b)
  PROVE  DevServerInv'
  <1> USE DEF DevServerInv
  <1>0. /\ prober[b].pc = "get"
        /\ UNCHANGED <<sup, cur, proc, running, fastFails, led, serve, done,
                       stopper, task, last, stale, missed, late>>
    BY DEF ProbeGet
  <1>1. /\ prober' \in [Probers -> [pc : {"none", "get", "store"},
                                    code : {"none", "ok", "broken"},
                                    old : BOOLEAN]]
        /\ prober'[b].pc = "store" /\ (stale = {} => ~prober'[b].old)
        /\ \A o \in Probers : o # b => prober'[o] = prober[o]
    BY AnswersFresh DEF ProbeGet, TypeOK
  <1>2. TypeOK'
    BY <1>0, <1>1 DEF TypeOK
  <1>3. SupInv' /\ CallInv' /\ PollInv' /\ FreshInv' /\ ShutInv'
    BY <1>0, <1>1 DEF SupInv, CallInv, PollInv, FreshInv, ShutInv, Reading
  <1>4. ProbeInv'
    BY <1>0, <1>1 DEF ProbeInv, FreshInv
  <1> QED
    BY <1>2, <1>3, <1>4

\* ... and stores what it saw, possibly of a process since replaced.
LEMMA ProbeStoreInv ==
  ASSUME DevServerInv, NEW b \in Probers, ProbeStore(b)
  PROVE  DevServerInv'
  <1> USE DEF DevServerInv
  <1>0. /\ prober[b].pc = "store"
        /\ UNCHANGED <<sup, cur, proc, running, fastFails, led, serve, done,
                       stopper, stale, missed, late>>
        /\ task' = IF b = "task" THEN "status" ELSE task
    BY DEF ProbeStore
  <1>1. /\ prober' \in [Probers -> [pc : {"none", "get", "store"},
                                    code : {"none", "ok", "broken"},
                                    old : BOOLEAN]]
        /\ prober'[b].pc = "none"
        /\ \A o \in Probers : o # b => prober'[o] = prober[o]
        /\ last' \in [code : {"none", "ok", "broken"}, old : BOOLEAN]
        /\ last'.old = prober[b].old
    BY DEF ProbeStore, TypeOK, NoProbe
  <1>2. b = "task" => task = "probe"
    BY <1>0 DEF CallInv
  <1>3. TypeOK'
    BY <1>0, <1>1 DEF TypeOK
  <1>4. SupInv' /\ CallInv' /\ PollInv' /\ FreshInv' /\ ShutInv'
    BY <1>0, <1>1, <1>2 DEF SupInv, CallInv, PollInv, FreshInv, ShutInv, Reading
  <1>5. ProbeInv'
    BY <1>0, <1>1, <1>2 DEF ProbeInv, FreshInv
  <1> QED
    BY <1>3, <1>4, <1>5

\* The next tick of the probe.
LEMMA ProbeTickInv ==
  ASSUME DevServerInv, ProbeTick
  PROVE  DevServerInv'
  <1> USE DEF DevServerInv
  <1>0. /\ UNCHANGED <<sup, cur, proc, running, fastFails, led, serve, done,
                       stopper, task, last, stale, missed, late>>
    BY DEF ProbeTick
  <1>1. /\ prober' \in [Probers -> [pc : {"none", "get", "store"},
                                    code : {"none", "ok", "broken"},
                                    old : BOOLEAN]]
        /\ prober'["loop"].pc = "get" /\ prober'["task"] = prober["task"]
    BY DEF ProbeTick, TypeOK
  <1> QED
    BY <1>0, <1>1 DEF TypeOK, SupInv, CallInv, PollInv, FreshInv, ProbeInv, ShutInv,
                      Reading

\* The agent is done: the groups led are old from now on, if a remediation is due.
LEMMA TaskDoneInv ==
  ASSUME DevServerInv, TaskDone
  PROVE  DevServerInv'
  <1> USE DEF DevServerInv
  <1>0. /\ task = "none"
        /\ UNCHANGED <<sup, cur, proc, running, fastFails, led, serve, done,
                       prober, last, missed, late>>
    BY DEF TaskDone
  <1>1. /\ stopper' \in [Stoppers -> [pc : {"none", "read", "poll", "exit"},
                                      pid : Pids \cup {NoPid}]]
        /\ stopper'["main"] = stopper["main"]
        /\ stopper'["task"].pid = stopper["task"].pid
        /\ \/ task' = "restart" /\ stopper'["task"].pc = "read" /\ stale' = led
           \/ task' = "assets" /\ stopper' = stopper /\ stale' = stale
    BY DEF TaskDone, TypeOK
  <1>2. TypeOK'
    BY <1>0, <1>1 DEF TypeOK
  <1>3. SupInv' /\ CallInv' /\ PollInv' /\ FreshInv' /\ ProbeInv' /\ ShutInv'
    BY <1>0, <1>1 DEF SupInv, CallInv, PollInv, FreshInv, ProbeInv, ShutInv, Reading
  <1> QED
    BY <1>2, <1>3

\* The other steps of a task and its remediation.
LEMMA TaskStepInv ==
  ASSUME DevServerInv, TaskStep
  PROVE  DevServerInv'
  <1> USE DEF DevServerInv
  <1>0. UNCHANGED <<sup, cur, proc, running, fastFails, led, serve, done, stopper>>
    BY DEF TaskStep, WaitDevReady, CheckAssets, TaskReport
  <1>1. CASE WaitDevReady
    BY <1>0, <1>1 DEF WaitDevReady, TypeOK, SupInv, CallInv, PollInv, FreshInv,
                      ProbeInv, ShutInv, Reading
  <1>2. CASE CheckAssets
    <2>1. /\ prober' \in [Probers -> [pc : {"none", "get", "store"},
                                      code : {"none", "ok", "broken"},
                                      old : BOOLEAN]]
          /\ prober'["task"].pc = "get" /\ prober'["loop"] = prober["loop"]
          /\ task = "assets" /\ task' = "probe"
          /\ late' = (prober["loop"].pc = "store")
          /\ UNCHANGED <<last, stale, missed>>
      BY <1>2 DEF CheckAssets, TypeOK
    <2> QED
      BY <1>0, <2>1 DEF TypeOK, SupInv, CallInv, PollInv, FreshInv, ProbeInv,
                        ShutInv, Reading
  <1>3. CASE TaskReport
    <2>1. /\ prober' \in [Probers -> [pc : {"none", "get", "store"},
                                      code : {"none", "ok", "broken"},
                                      old : BOOLEAN]]
          /\ prober'["task"] = prober["task"]
          /\ last' \in [code : {"none", "ok", "broken"}, old : BOOLEAN]
          /\ task = "status" /\ task' = "none" /\ stale' = {} /\ late' = FALSE
          /\ missed' = missed \ {"task"}
      BY <1>3 DEF TaskReport, TypeOK
    <2> QED
      BY <1>0, <2>1 DEF TypeOK, SupInv, CallInv, PollInv, FreshInv, ProbeInv,
                        ShutInv, Reading
  <1> QED
    BY <1>1, <1>2, <1>3 DEF TaskStep

\* Every step preserves the invariant.
LEMMA DevServerInductive == DevServerInv /\ [Next]_vars => DevServerInv'
  <1> SUFFICES ASSUME DevServerInv, [Next]_vars
               PROVE  DevServerInv'
    OBVIOUS
  <1>1. CASE UNCHANGED vars
    BY <1>1 DEF vars, DevServerInv, TypeOK, SupInv, CallInv, PollInv, FreshInv,
                ProbeInv, ShutInv, Reading
  <1> QED
    BY <1>1, SuperviseInv, SupStartInv, GroupInv, StopReadInv, StopPollInv,
       ShutdownInv, ProbeGetInv, ProbeStoreInv, ProbeTickInv, TaskDoneInv,
       TaskStepInv DEF Next, Supervise, Stop, Probe

\* The inductive invariant.
THEOREM DevServerInvariant == Spec => []DevServerInv
  <1>1. Init => TypeOK
    <2> SUFFICES ASSUME Init
                 PROVE  TypeOK
      OBVIOUS
    <2>1. fastFails \in 0 .. MaxFastFails
      BY DEF Init
    <2>2. /\ stopper \in [Stoppers -> [pc : {"none", "read", "poll", "exit"},
                                      pid : Pids \cup {NoPid}]]
          /\ serve \in [Pids -> {"dead", "starting", "up"}]
      BY DEF Init
    <2>3. /\ prober \in [Probers -> [pc : {"none", "get", "store"},
                                     code : {"none", "ok", "broken"},
                                     old : BOOLEAN]]
          /\ last \in [code : {"none", "ok", "broken"}, old : BOOLEAN]
      BY DEF Init, NoProbe, NoAnswer
    <2> QED
      BY <2>1, <2>2, <2>3 DEF Init, TypeOK
  <1>2. Init => SupInv
    BY DEF Init, SupInv
  <1>3. Init => CallInv /\ PollInv /\ FreshInv /\ ProbeInv /\ ShutInv
    BY DEF Init, CallInv, PollInv, FreshInv, ProbeInv, ShutInv, NoProbe
  <1> QED
    BY <1>1, <1>2, <1>3, DevServerInductive, PTL DEF Spec, DevServerInv

-----------------------------------------------------------------------------
(***************************************************************************)
(* The properties                                                          *)
(***************************************************************************)
\* Every variable keeps its type.
THEOREM TypeCorrect == Spec => []TypeOK
  <1>1. DevServerInv => TypeOK
    BY DEF DevServerInv
  <1> QED
    BY <1>1, DevServerInvariant, PTL

\* The supervisor and any stop keep at most one group with a leader, and the
\* process on record is the one the supervisor waits for.
THEOREM OneServer == Spec => []OneSupervised
  <1>1. ASSUME DevServerInv
        PROVE  OneSupervised
    <2>1. Cardinality(led) <= 1
      <3>1. CASE led = {}
        BY <3>1, FS_EmptySet
      <3>2. CASE led = {cur}
        BY <3>2, FS_Singleton
      <3> QED
        BY <1>1, <3>1, <3>2 DEF DevServerInv, SupInv
    <2>2. (proc # NoPid => proc = cur) /\ (running <=> proc # NoPid)
      BY <1>1 DEF DevServerInv, SupInv, TypeOK
    <2> QED
      BY <2>1, <2>2 DEF OneSupervised
  <1> QED
    BY <1>1, DevServerInvariant, PTL

\* health.go:113: from the end of a remediation to the task's report no group
\* started before the config edit is led, and PreviewStatusAfter's ready comes
\* from none.
THEOREM RemediationFresh == Spec => []RemediationRefreshes
  <1>1. DevServerInv => RemediationRefreshes
    BY DEF DevServerInv, FreshInv, ProbeInv, RemediationRefreshes
  <1> QED
    BY <1>1, DevServerInvariant, PTL

\* main.go:94: runtimed does not exit and leave a supervised dev server behind.
THEOREM NothingLeft == Spec => []ShutdownEndsSupervised
  <1>1. DevServerInv => ShutdownEndsSupervised
    BY DEF DevServerInv, ShutInv, ShutdownEndsSupervised
  <1> QED
    BY <1>1, DevServerInvariant, PTL
=============================================================================
