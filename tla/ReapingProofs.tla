--------------------------- MODULE ReapingProofs ----------------------------
(***************************************************************************)
(* The safety properties of Activity and Reaping, for any sandboxes,       *)
(* thresholds and length of the log.                                       *)
(*                                                                         *)
(* The log: a head is followed by its own tail (LogInv), so that a line    *)
(* ReadString returns whole was written whole; what lies before the        *)
(* tailer's position has been handled (TailInv), and the position becomes  *)
(* the checkpoint of the file it is about; either may go astray, until it  *)
(* starts again from 0.                                                    *)
(*                                                                         *)
(* The reapers: what was on record when a tick listed can only have ended  *)
(* since (WorkInv), a candidate was due by the tick's own clock (DueInv),  *)
(* and what is on record is never ahead of last_active_at (RecordInv).     *)
(*                                                                         *)
(* The invariant has one part per group of variables, so that a step needs *)
(* a proof only for the parts it touches.                                  *)
(***************************************************************************)
EXTENDS Reaping, TLAPS

-----------------------------------------------------------------------------
(***************************************************************************)
(* The invariant                                                           *)
(***************************************************************************)
HalfLine == [line : Lines, part : {"head", "tail"}]

LogTypes ==
  /\ log \in [Inodes -> Seq(HalfLine)]
  /\ about \in [Lines -> Ids \cup {NoId}]
  /\ path \in Inodes \cup {0} /\ fd \in Inodes \cup {0}
  /\ pos \in Nat /\ size0 \in Nat /\ checkpoint \in Nat
  /\ tpc \in {"open", "read", "wait"}
  /\ handled \subseteq Lines /\ torn \subseteq Lines
  /\ ckFile \in Inodes /\ astray \in BOOLEAN /\ ckAstray \in BOOLEAN

\* A half line belongs to a sandbox, and a head is followed by its own tail.
LogInv ==
  \A k \in Inodes : \A p \in 1 .. Len(log[k]) :
    /\ about[log[k][p].line] \in Ids
    /\ p < Len(log[k]) /\ log[k][p].part = "head" =>
         log[k][p + 1].line = log[k][p].line

\* The first n half lines of file k are dealt with.
DealtWith(k, n) ==
  n <= Len(log[k]) /\ \A p \in 1 .. n : log[k][p].line \in handled \cup torn

\* The tailer's position and the checkpoint are behind what it has handled,
\* each in its file, unless they went astray.
TailInv ==
  /\ tpc \in {"read", "wait"} => fd \in Inodes
  /\ tpc \in {"read", "wait"} /\ ~astray => DealtWith(fd, pos)
  /\ ~ckAstray => DealtWith(ckFile, checkpoint)

LogPart == LogTypes /\ LogInv /\ TailInv

\* A pending bump is a sandbox's; an exec call that ends is in flight.
ClockPart ==
  /\ now \in Moments
  /\ lastActive \in [Ids -> 0 .. MaxTime]
  /\ keepalive \in [Ids -> Nat]
  /\ execs \in [Ids -> 0 .. 1]
  /\ pending \in [Sources -> [id : Ids \cup {NoId}, at : 0 .. MaxTime]]
  /\ \A s \in Sources : pending[s] # NoBump => pending[s].id \in Ids
  /\ pending["exec_end"] # NoBump => execs[pending["exec_end"].id] = 1

\* What is on record is not ahead of last_active_at.
RecordPart ==
  /\ touched \in [Ids -> 0 .. MaxTime]
  /\ \A i \in Ids : touched[i] <= lastActive[i]

UserPart ==
  /\ row \in [Ids -> {"none", "creating", "running", "stopped", "error"}]
  /\ up \subseteq Ids /\ tasks \subseteq Ids
  /\ creator \in [Ids -> {"none", "run", "mark", "seed"}]
  /\ waking \in [Ids -> 0 .. MaxTime]
  /\ refused \in BOOLEAN

\* What tick q of reaper r may stop: nothing it found kept alive or always on,
\* and for the idle reaper what was idle for longer than Threshold.
MayStop(r, q, i) ==
  /\ i \notin q.keep \cup AlwaysOn
  /\ r = "idle" => q.known[i] + Threshold < q.at

\* A tick's clock is past; the exec calls and the tasks it found, and still
\* counts, are under way; below an emergency it may stop its candidates, and
\* its victim has no exec call, or task, that it found.
TickInv(r, q) ==
  /\ r = "idle" => q.pc \notin {"mem", "flag"} /\ (q.pc # "none" => q.band = "idle")
  /\ q.at <= now
  /\ \A i \in q.exec : execs[i] > 0
  /\ q.task \subseteq tasks
  /\ q.pc \in {"stop", "mark"} => q.victim \in Ids
  /\ q.band # "<5" /\ q.pc \in {"next", "stop", "mark"} =>
       \A c \in q.queue : MayStop(r, q, c[2])
  /\ q.band # "<5" /\ q.pc \in {"stop", "mark"} =>
       /\ MayStop(r, q, q.victim)
       /\ q.victim \notin q.exec
       /\ r = "idle" /\ ~scenario.fails => q.victim \notin q.task

TickPart ==
  /\ tick \in [Reapers -> Tick]
  /\ \A r \in Reapers : TickInv(r, tick[r])

ReapingInv == LogPart /\ ClockPart /\ RecordPart /\ UserPart /\ TickPart

USE ActivityAssumption, ReapingAssumption
USE DEF Inodes, Lines, Moments, Sources, Reapers, clocks, logVars, tailer, users,
        actVars

\* A part stays while its variables do.
LEMMA LogStays ==
  ASSUME LogPart, UNCHANGED <<logVars, tailer>>
  PROVE  LogPart'
BY DEF LogPart, LogTypes, LogInv, TailInv, DealtWith

\* Steps that move no clock keep the part about clocks.
LEMMA ClockStays ==
  ASSUME ClockPart, UNCHANGED clocks
  PROVE  ClockPart'
BY DEF ClockPart

\* Steps outside the reapers keep what a tick has read, in its sense: the clock,
\* the stored tasks and the execs it looked at only move forward.
LEMMA TickStays ==
  ASSUME TickPart, UNCHANGED <<tick, scenario>>, now' >= now, now \in Nat, now' \in Nat,
         tasks \subseteq tasks', \A i \in Ids : execs[i] > 0 => execs'[i] > 0
  PROVE  TickPart'
  <1>1. ASSUME NEW r \in Reapers
        PROVE  TickInv(r, tick[r])'
    <2>1. tick[r] \in Tick /\ TickInv(r, tick[r]) /\ tick'[r] = tick[r]
      BY DEF TickPart
    <2>2. tick[r].at \in Nat /\ tick[r].exec \subseteq Ids
      BY <2>1 DEF Tick
    <2>3. tick'[r].at <= now'
      BY <2>1, <2>2 DEF TickInv
    <2> QED
      BY <2>1, <2>2, <2>3 DEF TickInv, MayStop
  <1> QED
    BY <1>1 DEF TickPart

\* One tick has become q, and nothing it depends on has changed.
LEMMA TickBecomes ==
  ASSUME TickPart, NEW r \in Reapers, NEW q \in Tick, TickInv(r, q),
         tick' = [tick EXCEPT ![r] = q],
         UNCHANGED <<now, execs, tasks, scenario>>
  PROVE  TickPart'
  <1>1. tick' \in [Reapers -> Tick] /\ tick'[r] = q
        /\ \A s \in Reapers : s # r => tick'[s] = tick[s]
    BY DEF TickPart
  <1>2. ASSUME NEW s \in Reapers
        PROVE  TickInv(s, tick[s])'
    <2>1. TickInv(s, tick'[s])
      BY <1>1 DEF TickPart
    <2> QED
      BY <2>1 DEF TickInv, MayStop
  <1> QED
    BY <1>1, <1>2 DEF TickPart

\* The invariant contains the type correctness of both modules.
LEMMA InvTypes == ReapingInv => TypeOK
BY DEF ReapingInv, LogPart, LogTypes, HalfLine, ClockPart, RecordPart, UserPart,
       TickPart, TypeOK, ActTypeOK

-----------------------------------------------------------------------------
(***************************************************************************)
(* The log and its tailer                                                  *)
(***************************************************************************)
\* A half line is appended to file k.
Appends(k, h) ==
  /\ log' \in [Inodes -> Seq(HalfLine)]
  /\ \A j \in Inodes : j # k => log'[j] = log[j]
  /\ Len(log'[k]) = Len(log[k]) + 1
  /\ \A p \in 1 .. Len(log[k]) : log'[k][p] = log[k][p]
  /\ log'[k][Len(log[k]) + 1] = h

\* Writing to the log appends one half of a line to one file.
LEMMA AppendHalf ==
  ASSUME LogTypes, NEW k \in Inodes, NEW h \in HalfLine,
         log' = [log EXCEPT ![k] = Append(@, h)]
  PROVE  Appends(k, h)
  <1>1. log[k] \in Seq(HalfLine) /\ log'[k] = Append(log[k], h)
        /\ \A j \in Inodes : j # k => log'[j] = log[j]
    BY DEF LogTypes
  <1>2. Append(log[k], h) \in Seq(HalfLine)
    BY <1>1
  <1>3. log' \in [Inodes -> Seq(HalfLine)]
    BY <1>1, <1>2 DEF LogTypes
  <1>4. /\ Len(log'[k]) = Len(log[k]) + 1
        /\ \A p \in 1 .. Len(log[k]) : log'[k][p] = log[k][p]
        /\ log'[k][Len(log[k]) + 1] = h
    BY <1>1
  <1> QED
    BY <1>1, <1>3, <1>4 DEF Appends

\* A log consists of halves of known lines.
LEMMA HalfLines ==
  ASSUME LogTypes, NEW k \in Inodes
  PROVE  /\ log[k] \in Seq(HalfLine) /\ Len(log[k]) \in Nat
         /\ \A p \in 1 .. Len(log[k]) :
              log[k][p] \in HalfLine /\ log[k][p].line \in Lines
  <1>1. log[k] \in Seq(HalfLine) /\ Len(log[k]) \in Nat
    BY DEF LogTypes
  <1>2. \A p \in 1 .. Len(log[k]) : log[k][p] \in HalfLine
    BY <1>1
  <1>3. \A h \in HalfLine : h.line \in Lines
    BY DEF HalfLine
  <1> QED
    BY <1>1, <1>2, <1>3

\* What has been dealt with stays so when a file grows.
LEMMA AppendTail ==
  ASSUME LogPart, NEW k \in Inodes, NEW h, Appends(k, h), UNCHANGED tailer
  PROVE  TailInv'
  <1>1. ASSUME NEW j \in Inodes, NEW n \in Nat, DealtWith(j, n)
        PROVE  DealtWith(j, n)'
    <2>1. Len(log[j]) \in Nat /\ n <= Len(log[j])
      BY <1>1 DEF LogPart, LogTypes, DealtWith
    <2>2. Len(log[j]) <= Len(log'[j])
          /\ \A p \in 1 .. Len(log[j]) : log'[j][p] = log[j][p]
      BY <2>1 DEF Appends
    <2>3. Len(log'[j]) \in Nat
      BY DEF Appends
    <2>4. \A p \in 1 .. n : p \in 1 .. Len(log[j])
      BY <2>1
    <2> QED
      BY <1>1, <2>1, <2>2, <2>3, <2>4 DEF DealtWith
  <1> QED
    BY <1>1 DEF LogPart, LogTypes, TailInv

\* Traefik writes the first half of the next log line.
LEMMA WriteHeadLog ==
  ASSUME LogPart, NEW i \in Ids, WriteHead(i)
  PROVE  LogPart'
  <1> USE DEF LogPart
  <1>1. PICK n \in Unwritten :
          /\ about' = [about EXCEPT ![n] = i]
          /\ log' = [log EXCEPT ![path] = Append(@, Half(n, "head"))]
    BY DEF WriteHead
  <1>2. /\ path \in Inodes /\ LineDone /\ n \in Lines /\ about[n] = NoId
        /\ UNCHANGED <<path, tailer>>
    BY DEF WriteHead, LogTypes, Unwritten
  <1>3. Appends(path, Half(n, "head"))
    BY <1>1, <1>2, AppendHalf DEF HalfLine, Half
  <1>4. /\ about' \in [Lines -> Ids \cup {NoId}]
        /\ \A m \in Lines : about[m] \in Ids => about'[m] \in Ids
        /\ about'[n] \in Ids
    BY <1>1, <1>2 DEF LogTypes
  <1>5. LogTypes'
    BY <1>2, <1>3, <1>4 DEF LogTypes, Appends
  <1>6. LogInv'
    <2> SUFFICES ASSUME NEW k \in Inodes, NEW p \in 1 .. Len(log'[k])
                 PROVE  /\ about'[log'[k][p].line] \in Ids
                        /\ p < Len(log'[k]) /\ log'[k][p].part = "head" =>
                             log'[k][p + 1].line = log'[k][p].line
      BY DEF LogInv
    <2>0. log[k] \in Seq(HalfLine) /\ Len(log[k]) \in Nat
      BY DEF LogTypes
    <2>1. CASE k # path
      <3>1. log'[k] = log[k] /\ log[k][p] \in HalfLine
        BY <2>0, <2>1, <1>3 DEF Appends
      <3> QED
        BY <3>1, <1>4 DEF LogInv, HalfLine
    <2>2. CASE k = path /\ p = Len(log[k]) + 1
      BY <2>0, <2>2, <1>3, <1>4 DEF Appends, Half
    <2>3. CASE k = path /\ p # Len(log[k]) + 1
      <3>1. p \in 1 .. Len(log[k]) /\ log'[k][p] = log[k][p] /\ log[k][p] \in HalfLine
        BY <2>0, <2>3, <1>3 DEF Appends
      <3>2. about'[log'[k][p].line] \in Ids
        BY <3>1, <1>4 DEF LogInv, HalfLine
      <3>3. CASE p < Len(log[k])
        <4>1. p + 1 \in 1 .. Len(log[k])
          BY <2>0, <3>1, <3>3
        <4>2. log'[k][p + 1] = log[k][p + 1]
          BY <2>3, <4>1, <1>3 DEF Appends
        <4> QED
          BY <3>1, <3>2, <3>3, <4>1, <4>2 DEF LogInv
      <3>4. CASE p = Len(log[k])
        <4>1. log[k] # <<>>
          BY <2>0, <3>1, <3>4
        <4>2. log[k][p].part = "tail"
          BY <1>2, <2>3, <3>4, <4>1 DEF LineDone
        <4> QED
          BY <3>1, <3>2, <4>2
      <3> QED
        BY <2>0, <3>1, <3>3, <3>4
    <2> QED
      BY <2>1, <2>2, <2>3
  <1> QED
    BY <1>2, <1>3, <1>5, <1>6, AppendTail

\* Traefik completes the line.
LEMMA WriteTailLog ==
  ASSUME LogPart, WriteTail
  PROVE  LogPart'
  <1> USE DEF LogPart
  <1>1. /\ path \in Inodes /\ ~LineDone /\ UNCHANGED <<about, path, tailer>>
    BY DEF WriteTail, LogTypes
  <1> DEFINE last == Len(log[path])
             h == Half(log[path][last].line, "tail")
  <1>2. log[path] \in Seq(HalfLine) /\ last \in Nat \ {0}
    BY <1>1 DEF LogTypes, LineDone
  <1>3. /\ log[path][last] \in HalfLine /\ h \in HalfLine
        /\ h.line = log[path][last].line
    <2>1. last \in 1 .. Len(log[path])
      BY <1>2
    <2>2. log[path][last] \in HalfLine /\ log[path][last].line \in Lines
      BY <1>1, <2>1, HalfLines
    <2> QED
      BY <2>2 DEF HalfLine, Half
  <1>4. log' = [log EXCEPT ![path] = Append(@, h)]
    BY <1>1 DEF WriteTail, LogTypes
  <1>5. Appends(path, h)
    BY <1>1, <1>3, <1>4, AppendHalf
  <1>6. LogTypes'
    BY <1>1, <1>5 DEF LogTypes, Appends
  <1>7. LogInv'
    <2> SUFFICES ASSUME NEW k \in Inodes, NEW p \in 1 .. Len(log'[k])
                 PROVE  /\ about[log'[k][p].line] \in Ids
                        /\ p < Len(log'[k]) /\ log'[k][p].part = "head" =>
                             log'[k][p + 1].line = log'[k][p].line
      BY <1>1 DEF LogInv
    <2> HIDE DEF h
    <2>0. log[k] \in Seq(HalfLine) /\ Len(log[k]) \in Nat
      BY DEF LogTypes
    <2>1. CASE k # path
      <3>1. log'[k] = log[k]
        BY <2>1, <1>5 DEF Appends
      <3> QED
        BY <3>1 DEF LogInv
    <2>2. CASE k = path /\ p = Len(log[k]) + 1
      <3>1. last \in 1 .. Len(log[path])
        BY <1>2
      <3>2. about[h.line] \in Ids
        BY <1>1, <1>3, <3>1 DEF LogInv
      <3> QED
        BY <2>0, <2>2, <3>2, <1>5 DEF Appends
    <2>3. CASE k = path /\ p # Len(log[k]) + 1
      <3>0. p \in 1 .. Len(log[k])
        BY <2>0, <2>3, <1>5 DEF Appends
      <3>1. p \in 1 .. Len(log[k]) /\ log'[k][p] = log[k][p]
        BY <2>3, <3>0, <1>5 DEF Appends
      <3>2. about[log'[k][p].line] \in Ids
        BY <3>1 DEF LogInv
      <3>3. CASE p < Len(log[k])
        <4>1. p + 1 \in 1 .. Len(log[k])
          BY <2>0, <3>1, <3>3
        <4>2. log'[k][p + 1] = log[k][p + 1]
          BY <2>3, <4>1, <1>5 DEF Appends
        <4> QED
          BY <3>1, <3>2, <3>3, <4>1, <4>2 DEF LogInv
      <3>4. CASE p = Len(log[k])
        BY <1>3, <1>5, <2>3, <3>1, <3>2, <3>4 DEF Appends
      <3> QED
        BY <2>0, <3>1, <3>3, <3>4
    <2> QED
      BY <2>1, <2>2, <2>3
  <1> QED
    BY <1>1, <1>5, <1>6, <1>7, AppendTail

\* The log is rotated, or a new file takes its place.
LEMMA RotateLog ==
  ASSUME LogPart, RotateAway \/ NewFile
  PROVE  LogPart'
BY DEF LogPart, LogTypes, LogInv, TailInv, DealtWith, RotateAway, NewFile

\* The log is truncated in place.
LEMMA TruncateLog ==
  ASSUME LogPart, Truncate
  PROVE  LogPart'
  <1> USE DEF LogPart
  <1>1. /\ path \in Inodes
        /\ astray' = (astray \/ (path = fd /\ pos > 0))
        /\ ckAstray' = (ckAstray \/ (path = ckFile /\ checkpoint > 0))
        /\ log' = [log EXCEPT ![path] = <<>>]
        /\ UNCHANGED <<about, path, fd, pos, size0, checkpoint, tpc, handled, torn,
                       ckFile>>
    BY DEF Truncate, LogTypes
  <1>2. /\ log' \in [Inodes -> Seq(HalfLine)] /\ log'[path] = <<>>
        /\ \A k \in Inodes : k # path => log'[k] = log[k]
    BY <1>1 DEF LogTypes
  <1>3. LogTypes'
    BY <1>1, <1>2 DEF LogTypes
  <1>4. LogInv'
    BY <1>1, <1>2 DEF LogInv
  <1>5. DealtWith(path, 0)'
    BY <1>2 DEF DealtWith
  <1>6. ASSUME NEW k \in Inodes, NEW n \in Nat, k # path \/ ~(n > 0), DealtWith(k, n)
        PROVE  DealtWith(k, n)'
    <2>1. CASE k # path
      BY <1>1, <1>2, <1>6, <2>1 DEF DealtWith
    <2>2. CASE n = 0 /\ k = path
      BY <1>5, <2>2 DEF DealtWith
    <2> QED
      BY <1>6, <2>1, <2>2
  <1>7. TailInv'
    BY <1>1, <1>6 DEF TailInv, LogTypes
  <1> QED
    BY <1>3, <1>4, <1>7

\* The tailer opens the file, at the checkpoint or at its start.
LEMMA TailOpenLog ==
  ASSUME LogPart, TailOpen
  PROVE  LogPart'
  <1> USE DEF LogPart
  <1>1. /\ path \in Inodes /\ fd' = path /\ size0' = Len(log[path])
        /\ pos' = IF checkpoint > Len(log[path]) THEN 0 ELSE checkpoint
        /\ tpc' = "read"
        /\ astray' = (pos' > 0 /\ (ckAstray \/ path # ckFile))
        /\ UNCHANGED <<log, about, path, checkpoint, handled, torn, ckFile, ckAstray>>
    BY DEF TailOpen, LogTypes
  <1>2. Len(log[path]) \in Nat
    BY <1>1 DEF LogTypes
  <1>3. LogTypes' /\ LogInv'
    BY <1>1, <1>2 DEF LogTypes, LogInv
  <1>4. ~astray' => DealtWith(path, pos')
    <2>1. DealtWith(path, 0)
      BY <1>2 DEF DealtWith
    <2>2. CASE pos' = 0
      BY <2>1, <2>2
    <2>3. CASE pos' # 0
      <3>1. pos' = checkpoint /\ pos' > 0
        BY <1>1, <2>3 DEF LogTypes
      <3>2. ~astray' => ~ckAstray /\ path = ckFile
        BY <1>1, <3>1
      <3> QED
        BY <1>1, <3>1, <3>2 DEF TailInv, DealtWith
    <2> QED
      BY <2>2, <2>3
  <1>5. TailInv'
    BY <1>1, <1>4 DEF TailInv, DealtWith
  <1> QED
    BY <1>3, <1>5

\* The tailer handles a complete line and then moves the checkpoint.
LEMMA TailLineLog ==
  ASSUME LogPart, TailLine
  PROVE  /\ LogPart'
         /\ \/ UNCHANGED pending
            \/ \E i \in Ids : ReadClock("tailer", i)
  <1> USE DEF LogPart
  <1> DEFINE next == log[fd][pos + 1]
  <1>0. /\ tpc = "read" /\ fd \in Inodes /\ pos < Len(log[fd])
        /\ UNCHANGED <<log, about, path, fd, size0, checkpoint, tpc, ckFile,
                       astray, ckAstray>>
    BY DEF TailLine, TailInv
  <1>1. /\ log[fd] \in Seq(HalfLine) /\ Len(log[fd]) \in Nat /\ pos \in Nat
        /\ pos + 1 \in 1 .. Len(log[fd])
    BY <1>0 DEF LogTypes
  <1>2. next \in HalfLine /\ next.line \in Lines /\ about[next.line] \in Ids
    BY <1>0, <1>1, HalfLines DEF LogInv
  <1>3. \/ /\ next.part = "head" /\ pos + 1 < Len(log[fd]) /\ pos' = pos + 2
           /\ handled' = handled \cup {next.line} /\ torn' = torn
           /\ ReadClock("tailer", about[next.line])
        \/ /\ pos' = pos + 1 /\ handled' = handled
           /\ torn' = torn \cup {next.line} /\ pending' = pending
    BY DEF TailLine
  <1> HIDE DEF next
  <1>4. /\ LogTypes'
        /\ LogInv'
    <2>1. pos' \in Nat
      BY <1>1, <1>3
    <2>2. handled' \subseteq Lines /\ torn' \subseteq Lines
      <3>1. handled \subseteq Lines /\ torn \subseteq Lines
        BY DEF LogTypes
      <3>2. /\ handled' \in {handled, handled \cup {next.line}}
            /\ torn' \in {torn, torn \cup {next.line}}
        BY <1>3
      <3> HIDE DEF Lines
      <3> QED
        BY <1>2, <3>1, <3>2
    <2> QED
      BY <1>0, <2>1, <2>2 DEF LogTypes, LogInv
  <1>5. handled \cup torn \subseteq handled' \cup torn'
        /\ next.line \in handled' \cup torn'
    BY <1>3
  <1>6. \A p \in pos + 1 .. pos' : log[fd][p].line = next.line
    <2>1. CASE pos' = pos + 1
      BY <1>1, <2>1 DEF next
    <2>2. CASE next.part = "head" /\ pos + 1 < Len(log[fd]) /\ pos' = pos + 2
      <3>1. log[fd][pos + 1 + 1].line = next.line
        BY <1>0, <1>1, <2>2 DEF LogInv, next
      <3>2. log[fd][pos + 2].line = next.line
        BY <1>1, <3>1
      <3> QED
        BY <1>1, <2>2, <3>2 DEF next
    <2> QED
      BY <1>3, <2>1, <2>2
  <1>7. pos' \in Nat /\ pos' <= Len(log[fd])
    BY <1>1, <1>3
  <1>8. TailInv'
    <2>1. ~astray => DealtWith(fd, pos)'
      <3> SUFFICES ASSUME ~astray
                   PROVE  \A p \in 1 .. pos' : log[fd][p].line \in handled' \cup torn'
        BY <1>0, <1>7 DEF DealtWith
      <3>1. \A p \in 1 .. pos : log[fd][p].line \in handled \cup torn
        BY <1>0 DEF TailInv, DealtWith
      <3>2. \A p \in 1 .. pos' : p \in 1 .. pos \/ p \in pos + 1 .. pos'
        BY <1>1, <1>7
      <3> QED
        BY <1>5, <1>6, <3>1, <3>2
    <2>2. ~ckAstray => DealtWith(ckFile, checkpoint)'
      BY <1>0, <1>5 DEF TailInv, DealtWith
    <2> QED
      BY <1>0, <2>1, <2>2 DEF TailInv
  <1> QED
    BY <1>2, <1>3, <1>4, <1>8

\* The tailer meets the end of the file.
LEMMA TailEofLog ==
  ASSUME LogPart, TailEof
  PROVE  LogPart'
  <1> USE DEF LogPart
  <1>0. /\ tpc = "read" /\ fd \in Inodes /\ AtEnd /\ tpc' = "wait"
        /\ pos' = IF pos < Len(log[fd]) THEN pos + 1 ELSE pos
        /\ torn' = IF pos < Len(log[fd]) THEN torn \cup {log[fd][pos + 1].line}
                   ELSE torn
        /\ WriteCheckpoint(pos', fd)
        /\ UNCHANGED <<log, about, path, fd, size0, handled, astray>>
    BY DEF TailEof, TailInv
  <1>1. /\ log[fd] \in Seq(HalfLine) /\ Len(log[fd]) \in Nat /\ pos \in Nat
        /\ pos' \in Nat
    BY <1>0 DEF LogTypes
  <1>2. /\ torn \subseteq torn' /\ torn' \subseteq Lines
        /\ checkpoint' \in {pos', checkpoint} /\ ckFile' \in Inodes
        /\ ckAstray' \in BOOLEAN
    <2>1. pos < Len(log[fd]) => log[fd][pos + 1].line \in Lines
      BY <1>0, <1>1, HalfLines
    <2>2. checkpoint' \in {pos', checkpoint} /\ ckFile' \in Inodes
          /\ ckAstray' \in BOOLEAN
      BY <1>0 DEF WriteCheckpoint, LogTypes
    <2> QED
      BY <1>0, <2>1, <2>2 DEF LogTypes
  <1>3. LogTypes' /\ LogInv'
    BY <1>0, <1>1, <1>2 DEF LogTypes, LogInv
  <1>4. ~astray => DealtWith(fd, pos)'
    BY <1>0, <1>1, <1>2 DEF TailInv, DealtWith
  <1>5. ~ckAstray' => DealtWith(ckFile, checkpoint)'
    <2>1. CASE /\ checkpoint' = pos' /\ ckFile' = fd
               /\ ckAstray' = (pos' > 0 /\ astray)
      <3>1. CASE pos' = 0
        BY <1>0, <1>1, <2>1, <3>1 DEF DealtWith
      <3>2. CASE pos' > 0
        BY <1>0, <1>4, <2>1, <3>2 DEF DealtWith
      <3> QED
        BY <1>1, <3>1, <3>2
    <2>2. CASE UNCHANGED <<checkpoint, ckFile, ckAstray>>
      BY <1>0, <1>2, <2>2 DEF TailInv, DealtWith
    <2> QED
      BY <1>0, <2>1, <2>2 DEF WriteCheckpoint
  <1>6. TailInv'
    BY <1>0, <1>4, <1>5 DEF TailInv
  <1> QED
    BY <1>3, <1>6

\* The tailer waits for more.
LEMMA TailWaitLog ==
  ASSUME LogPart, TailWait
  PROVE  LogPart'
  <1> USE DEF LogPart
  <1>0. /\ tpc = "wait" /\ fd \in Inodes
        /\ UNCHANGED <<log, about, path, pos, handled, torn, astray>>
        /\ \/ tpc' = "open" /\ fd' = 0 /\ size0' = size0
           \/ path \in Inodes /\ tpc' = "read" /\ fd' = fd /\ size0' = Len(log[path])
        /\ \/ path \in Inodes /\ WriteCheckpoint(0, path)
           \/ UNCHANGED <<checkpoint, ckFile, ckAstray>>
    BY DEF TailWait, TailInv, LogTypes
  <1>6. \/ /\ path \in Inodes /\ checkpoint' = 0 /\ ckFile' = path
           /\ ckAstray' \in BOOLEAN
        \/ UNCHANGED <<checkpoint, ckFile, ckAstray>>
    BY <1>0 DEF WriteCheckpoint
  <1>1. \A k \in Inodes : Len(log[k]) \in Nat
    BY DEF LogTypes
  <1>2. LogTypes'
    <2>1. /\ log' \in [Inodes -> Seq(HalfLine)]
          /\ about' \in [Lines -> Ids \cup {NoId}]
          /\ handled' \subseteq Lines /\ torn' \subseteq Lines
      BY <1>0 DEF LogTypes
    <2>2. /\ path' \in Inodes \cup {0} /\ fd' \in Inodes \cup {0}
          /\ pos' \in Nat /\ size0' \in Nat /\ tpc' \in {"open", "read", "wait"}
          /\ astray' \in BOOLEAN
      BY <1>0, <1>1 DEF LogTypes
    <2>3. checkpoint' \in Nat /\ ckFile' \in Inodes /\ ckAstray' \in BOOLEAN
      BY <1>6 DEF LogTypes
    <2> QED
      BY <2>1, <2>2, <2>3 DEF LogTypes
  <1>3. LogInv'
    BY <1>0 DEF LogInv
  <1>5. TailInv'
    BY <1>0, <1>1, <1>6 DEF TailInv, DealtWith
  <1> QED
    BY <1>2, <1>3, <1>5

-----------------------------------------------------------------------------
(***************************************************************************)
(* Bumps                                                                   *)
(***************************************************************************)
\* A caller reads the clock for the bump it is about to write.
LEMMA ReadClockPart ==
  ASSUME ClockPart, NEW s \in Sources, NEW i \in Ids, ReadClock(s, i),
         s = "exec_end" => execs[i] = 1, UNCHANGED <<now, lastActive, keepalive, execs>>
  PROVE  ClockPart'
  <1>1. /\ pending' \in [Sources -> [id : Ids \cup {NoId}, at : 0 .. MaxTime]]
        /\ pending'[s].id = i /\ \A o \in Sources : o # s => pending'[o] = pending[o]
    BY DEF ReadClock, ClockPart
  <1> QED
    BY <1>1 DEF ClockPart

\* A bump of s is committed or dropped.
Bumped(s) ==
  /\ pending[s].id \in Ids /\ pending[s].at \in 0 .. MaxTime
  /\ pending' \in [Sources -> [id : Ids \cup {NoId}, at : 0 .. MaxTime]]
  /\ pending'[s] = NoBump /\ \A o \in Sources : o # s => pending'[o] = pending[o]
  /\ lastActive' \in [Ids -> 0 .. MaxTime]
  /\ \A i \in Ids : lastActive'[i] >= lastActive[i]

\* The bump is written, or fails.
LEMMA BumpDone ==
  ASSUME ClockPart, NEW s \in Sources, BumpLastActive(s) \/ BumpFails(s)
  PROVE  Bumped(s)
  <1>1. /\ pending[s] # NoBump /\ pending' = [pending EXCEPT ![s] = NoBump]
        /\ pending[s].id \in Ids /\ pending[s].at \in 0 .. MaxTime
    BY DEF BumpLastActive, BumpFails, ClockPart
  <1>2. NoBump \in [id : Ids \cup {NoId}, at : 0 .. MaxTime]
    BY DEF NoBump
  <1>3. /\ lastActive' \in [Ids -> 0 .. MaxTime]
        /\ \A i \in Ids : lastActive'[i] >= lastActive[i]
    <2>1. CASE UNCHANGED lastActive
      BY <2>1 DEF ClockPart
    <2>2. CASE lastActive' = [lastActive EXCEPT ![pending[s].id] =
                      IF @ < pending[s].at THEN pending[s].at ELSE @]
      BY <1>1, <2>2 DEF ClockPart
    <2> QED
      BY <2>1, <2>2 DEF BumpLastActive, BumpFails
  <1> QED
    BY <1>1, <1>2, <1>3 DEF Bumped, ClockPart

\* Activity that is put on record is not ahead of last_active_at.
LEMMA TouchRecord ==
  ASSUME RecordPart, NEW i \in Ids, NEW t \in 0 .. MaxTime, Touch(i, t),
         lastActive \in [Ids -> 0 .. MaxTime], lastActive' \in [Ids -> 0 .. MaxTime],
         \A j \in Ids : lastActive'[j] >= lastActive[j]
  PROVE  RecordPart'
  <1>1. CASE touched' = touched
    BY <1>1 DEF RecordPart
  <1>2. CASE touched' = [touched EXCEPT ![i] = t] /\ lastActive'[i] >= t
    BY <1>2 DEF RecordPart
  <1> QED
    BY <1>1, <1>2 DEF Touch

\* Steps that record no activity keep the part about the record.
LEMMA RecordStays ==
  ASSUME RecordPart, UNCHANGED <<touched, lastActive>>
  PROVE  RecordPart'
BY DEF RecordPart

\* Steps of others keep the part about the users.
LEMMA UserStays ==
  ASSUME UserPart, UNCHANGED <<users, refused>>
  PROVE  UserPart'
BY DEF UserPart

\* An exec call ends: no tick counts it any more.
LEMMA ExecExitInv ==
  ASSUME ReapingInv, ExecExit, Touch(pending["exec_end"].id, pending["exec_end"].at),
         tick' = [r \in Reapers |->
                    [tick[r] EXCEPT !.exec = @ \ {pending["exec_end"].id}]],
         UNCHANGED users, Quiet
  PROVE  ReapingInv'
  <1> USE DEF ReapingInv
  <1> DEFINE e == pending["exec_end"].id
  <1>1. Bumped("exec_end") /\ execs[e] = 1 /\ execs \in [Ids -> 0 .. 1]
    BY BumpDone DEF ExecExit, ClockPart
  <1>2. /\ execs' \in [Ids -> 0 .. 1]
        /\ \A i \in Ids : i # e => execs'[i] = execs[i]
        /\ UNCHANGED <<now, keepalive, logVars, tailer, scenario, refused>>
    <2>1. execs' = [execs EXCEPT ![e] = @ - 1]
      BY DEF ExecExit
    <2> QED
      BY <1>1, <2>1 DEF ExecExit, Quiet, Bumped
  <1>3. ClockPart'
    <2>1. \A s \in Sources : pending'[s] # NoBump => pending'[s].id \in Ids
      BY <1>1 DEF Bumped, ClockPart
    <2> QED
      BY <1>1, <1>2, <2>1 DEF Bumped, ClockPart
  <1>4. RecordPart'
    BY <1>1, TouchRecord DEF Bumped, ClockPart
  <1>5. TickPart'
    <2>1. \A r \in Reapers :
            /\ tick'[r] \in Tick
            /\ tick'[r].exec = tick[r].exec \ {e}
            /\ tick'[r].pc = tick[r].pc /\ tick'[r].band = tick[r].band
            /\ tick'[r].at = tick[r].at /\ tick'[r].queue = tick[r].queue
            /\ tick'[r].victim = tick[r].victim /\ tick'[r].known = tick[r].known
            /\ tick'[r].task = tick[r].task /\ tick'[r].keep = tick[r].keep
      BY DEF TickPart, Tick
    <2>2. tick' \in [Reapers -> Tick]
      BY <2>1
    <2>3. ASSUME NEW r \in Reapers
          PROVE  TickInv(r, tick[r])'
      <3>1. TickInv(r, tick[r]) /\ tick[r].exec \subseteq Ids
        BY DEF TickPart, Tick
      <3>2. UNCHANGED <<now, tasks, scenario>>
        BY <1>2
      <3> HIDE DEF e
      <3>3. \A i \in tick'[r].exec : execs'[i] > 0
        BY <1>2, <2>1, <3>1 DEF TickInv
      <3>4. tick'[r].exec \subseteq tick[r].exec
        BY <2>1
      <3> QED
        BY <2>1, <3>1, <3>2, <3>3, <3>4 DEF TickInv, MayStop
    <2> QED
      BY <2>2, <2>3 DEF TickPart
  <1> QED
    BY <1>2, <1>3, <1>4, <1>5, LogStays, UserStays

\* A signal of activity arrives at one of its sources.
LEMMA SignalInv ==
  ASSUME ReapingInv, Signal
  PROVE  ReapingInv'
  <1> USE DEF ReapingInv
  <1>0. /\ UNCHANGED <<users, refused, scenario>> /\ now \in Nat
        /\ execs \in [Ids -> 0 .. 1]
    BY DEF Signal, Quiet, ClockPart
  <1>1. ASSUME NEW i \in Ids, ExecBegin(i) \/ ExecEnd(i), UNCHANGED <<touched, tick>>
        PROVE  ReapingInv'
    <2>1. UNCHANGED <<now, lastActive, keepalive, logVars, tailer>>
      BY <1>1 DEF ExecBegin, ExecEnd
    <2>2. /\ execs' \in [Ids -> 0 .. 1]
          /\ \A j \in Ids : execs[j] > 0 => execs'[j] > 0 /\ execs'[j] = execs[j]
      BY <1>0, <1>1 DEF ExecBegin, ExecEnd
    <2>3. ClockPart'
      <3>1. CASE ExecBegin(i)
        <4>1. /\ pending' \in [Sources -> [id : Ids \cup {NoId}, at : 0 .. MaxTime]]
              /\ pending'["exec_begin"].id = i
              /\ \A o \in Sources : o # "exec_begin" => pending'[o] = pending[o]
          BY <3>1 DEF ExecBegin, ReadClock, ClockPart
        <4> QED
          BY <2>1, <2>2, <4>1 DEF ClockPart
      <3>2. CASE ExecEnd(i)
        <4>1. execs[i] = 1 /\ UNCHANGED execs /\ ReadClock("exec_end", i)
          BY <1>0, <3>2 DEF ExecEnd
        <4> QED
          BY <2>1, <4>1, ReadClockPart
      <3> QED
        BY <1>1, <3>1, <3>2
    <2>4. TickPart'
      BY <1>0, <1>1, <2>1, <2>2, TickStays
    <2> QED
      BY <1>0, <1>1, <2>1, <2>3, <2>4, LogStays, RecordStays, UserStays
  <1>2. ASSUME NEW i \in Ids, Poll(i), UNCHANGED <<touched, tick>>
        PROVE  ReapingInv'
    <2>1. UNCHANGED <<now, lastActive, keepalive, execs, logVars, tailer>>
      BY <1>2 DEF Poll
    <2>2. ClockPart'
      BY <1>2, <2>1, ReadClockPart DEF Poll
    <2>3. TickPart'
      BY <1>0, <1>2, <2>1, TickStays
    <2> QED
      BY <1>0, <1>2, <2>1, <2>2, <2>3, LogStays, RecordStays, UserStays
  <1>3. ASSUME NEW s \in {"tailer", "poller", "exec_begin"}, Commit(s),
               Touch(pending[s].id, pending[s].at), UNCHANGED tick
        PROVE  ReapingInv'
    <2>1. Bumped(s) /\ UNCHANGED <<now, keepalive, execs, logVars, tailer>>
      BY <1>3, BumpDone DEF Commit
    <2>2. ClockPart'
      BY <2>1 DEF Bumped, ClockPart
    <2>3. RecordPart'
      BY <1>3, <2>1, TouchRecord DEF Bumped, ClockPart
    <2>4. TickPart'
      BY <1>0, <1>3, <2>1, TickStays
    <2> QED
      BY <1>0, <1>3, <2>1, <2>2, <2>3, <2>4, LogStays, UserStays
  <1>4. ASSUME NEW i \in Ids, NEW u \in Nat, Keepalive(i, u, KeepMax),
               UNCHANGED <<touched, tick>>
        PROVE  ReapingInv'
    <2>1. UNCHANGED <<now, lastActive, execs, pending, logVars, tailer>>
      BY <1>4 DEF Keepalive
    <2>2. keepalive' \in [Ids -> Nat]
      BY <1>0, <1>4 DEF Keepalive, ClockPart
    <2>3. ClockPart'
      BY <2>1, <2>2 DEF ClockPart
    <2>4. TickPart'
      BY <1>0, <1>4, <2>1, TickStays
    <2> QED
      BY <1>0, <1>4, <2>1, <2>3, <2>4, LogStays, RecordStays, UserStays
  <1>5. ASSUME LogStep, UNCHANGED <<touched, tick>>
        PROVE  ReapingInv'
    <2>1. UNCHANGED <<now, lastActive, keepalive, execs>>
      BY <1>5 DEF LogStep, WriteHead, WriteTail, RotateAway, NewFile, Truncate,
                  TailOpen, TailLine, TailEof, TailWait
    <2>2. LogPart'
      BY <1>5, WriteHeadLog, WriteTailLog, RotateLog, TruncateLog, TailOpenLog,
         TailLineLog, TailEofLog, TailWaitLog DEF LogStep
    <2>3. UNCHANGED pending \/ \E i \in Ids : ReadClock("tailer", i)
      BY <1>5, TailLineLog DEF LogStep, WriteHead, WriteTail, RotateAway, NewFile,
                  Truncate, TailOpen, TailEof, TailWait
    <2>4. ClockPart'
      BY <2>1, <2>3, ReadClockPart, ClockStays
    <2>5. TickPart'
      BY <1>0, <1>5, <2>1, TickStays
    <2> QED
      BY <1>0, <1>5, <2>1, <2>2, <2>4, <2>5, RecordStays, UserStays
  <1>6. now + 1 \in Nat /\ now + KeepMax + 1 \in Nat
    BY <1>0
  <1> QED
    BY <1>0, <1>1, <1>2, <1>3, <1>4, <1>5, <1>6, ExecExitInv DEF Signal

-----------------------------------------------------------------------------
(***************************************************************************)
(* Users, the clock and a restart                                          *)
(***************************************************************************)
\* The steps of a user of a sandbox.
LEMMA UserStepInv ==
  ASSUME ReapingInv, UserStep
  PROVE  ReapingInv'
  <1> USE DEF ReapingInv
  <1>0. PICK i \in Ids :
          \/ CreateInsert(i) \/ CreateRun(i) \/ CreateMark(i) \/ CreateSeed(i)
          \/ WakeStart(i) \/ WakeClock(i) \/ MarkRunningWoke(i)
          \/ TaskStart(i) \/ TaskEnd(i)
    BY DEF UserStep
  <1>1. now \in Nat /\ now \in 0 .. MaxTime
    BY DEF ClockPart
  <1>2. CASE CreateInsert(i) \/ CreateRun(i) \/ CreateMark(i) \/ WakeStart(i)
             \/ WakeClock(i) \/ TaskStart(i)
    <2>1. /\ UNCHANGED <<actVars, touched, tick, refused, scenario>>
          /\ tasks \subseteq tasks'
      BY <1>2 DEF CreateInsert, CreateRun, CreateMark, WakeStart, WakeClock,
                  TaskStart, Quiet
    <2>2. UserPart'
      BY <1>1, <1>2, <2>1 DEF UserPart, CreateInsert, CreateRun, CreateMark,
                              WakeStart, WakeClock, TaskStart
    <2>3. TickPart'
      BY <1>1, <2>1, TickStays
    <2> QED
      BY <2>1, <2>2, <2>3, LogStays, ClockStays, RecordStays
  <1>3. CASE CreateSeed(i)
    <2>1. /\ UNCHANGED <<row, up, waking, tasks, tick, now, keepalive, execs, pending,
                         logVars, tailer, scenario, refused>>
          /\ creator' = [creator EXCEPT ![i] = "none"]
      BY <1>3 DEF CreateSeed, Quiet
    <2>2. /\ lastActive' \in [Ids -> 0 .. MaxTime]
          /\ \A j \in Ids : lastActive'[j] >= lastActive[j]
      <3>1. lastActive \in [Ids -> 0 .. MaxTime]
        BY DEF ClockPart
      <3>2. \/ UNCHANGED lastActive
            \/ lastActive' = [lastActive EXCEPT ![i] = IF @ < now THEN now ELSE @]
        BY <1>3 DEF CreateSeed
      <3> QED
        BY <1>1, <3>1, <3>2
    <2>3. ClockPart' /\ UserPart'
      BY <2>1, <2>2 DEF ClockPart, UserPart
    <2>4. RecordPart'
      <3>1. CASE Touch(i, now)
        BY <1>1, <2>2, <3>1, TouchRecord DEF ClockPart
      <3>2. CASE UNCHANGED <<lastActive, touched>>
        BY <3>2, RecordStays
      <3> QED
        BY <1>3, <3>1, <3>2 DEF CreateSeed
    <2>5. TickPart'
      BY <1>1, <2>1, TickStays
    <2> QED
      BY <2>1, <2>3, <2>4, <2>5, LogStays
  <1>4. CASE MarkRunningWoke(i)
    <2>1. /\ UNCHANGED <<up, creator, tasks, tick, now, keepalive, execs, pending,
                         logVars, tailer, scenario, refused>>
          /\ waking' = [waking EXCEPT ![i] = 0]
          /\ \/ /\ row' = [row EXCEPT ![i] = "running"]
                /\ lastActive' = [lastActive EXCEPT ![i] = waking[i]]
                /\ touched' = [touched EXCEPT ![i] = waking[i]]
             \/ UNCHANGED <<row, lastActive, touched>>
      BY <1>4 DEF MarkRunningWoke, Quiet
    <2>2. waking[i] \in 0 .. MaxTime
      BY DEF UserPart
    <2>3. ClockPart'
      BY <2>1, <2>2 DEF ClockPart
    <2>4. RecordPart'
      BY <2>1, <2>2 DEF RecordPart, ClockPart
    <2>5. UserPart'
      BY <2>1 DEF UserPart
    <2>6. TickPart'
      BY <1>1, <2>1, TickStays
    <2> QED
      BY <2>1, <2>3, <2>4, <2>5, <2>6, LogStays
  <1>5. CASE TaskEnd(i)
    <2>1. /\ UNCHANGED <<row, up, creator, waking, touched, actVars, refused, scenario>>
          /\ tasks' = tasks \ {i}
          /\ tick' = [r \in Reapers |-> [tick[r] EXCEPT !.task = @ \ {i}]]
      BY <1>5 DEF TaskEnd, Quiet
    <2>2. \A r \in Reapers :
            /\ tick'[r] \in Tick
            /\ tick'[r].task = tick[r].task \ {i}
            /\ tick'[r].pc = tick[r].pc /\ tick'[r].band = tick[r].band
            /\ tick'[r].at = tick[r].at /\ tick'[r].queue = tick[r].queue
            /\ tick'[r].victim = tick[r].victim /\ tick'[r].known = tick[r].known
            /\ tick'[r].exec = tick[r].exec /\ tick'[r].keep = tick[r].keep
      BY <2>1 DEF TickPart, Tick
    <2>3. tick' \in [Reapers -> Tick]
      BY <2>1, <2>2
    <2>4. ASSUME NEW r \in Reapers
          PROVE  TickInv(r, tick[r])'
      <3>1. TickInv(r, tick[r])
        BY DEF TickPart
      <3> QED
        BY <2>1, <2>2, <3>1 DEF TickInv, MayStop
    <2>5. TickPart' /\ UserPart'
      BY <2>1, <2>3, <2>4 DEF TickPart, UserPart
    <2> QED
      BY <2>1, <2>5, LogStays, ClockStays, RecordStays
  <1> QED
    BY <1>0, <1>2, <1>3, <1>4, <1>5

\* Time passes.
LEMMA ClockInv ==
  ASSUME ReapingInv, Clock
  PROVE  ReapingInv'
  <1> USE DEF ReapingInv
  <1>1. /\ now \in Nat /\ now' = now + 1 /\ now' \in Moments
        /\ UNCHANGED <<lastActive, keepalive, execs, pending, logVars, tailer, users,
                       touched, tick, scenario, refused>>
    BY DEF Clock, Quiet, ClockPart
  <1>2. ClockPart'
    BY <1>1 DEF ClockPart
  <1>3. TickPart'
    BY <1>1, TickStays
  <1> QED
    BY <1>1, <1>2, <1>3, LogStays, RecordStays, UserStays

\* The empty tick has read nothing yet.
LEMMA NoTickInv ==
  ASSUME now \in Nat, NEW r \in Reapers
  PROVE  NoTick \in Tick /\ TickInv(r, NoTick)
  <1>1. NoTick \in Tick
    BY DEF NoTick, Tick, Bands
  <1>2. TickInv(r, NoTick)
    BY DEF NoTick, TickInv
  <1> QED
    BY <1>1, <1>2

\* sandboxd restarts.
LEMMA RestartInv ==
  ASSUME ReapingInv, Restart
  PROVE  ReapingInv'
  <1> USE DEF ReapingInv
  <1>1. /\ execs' = [i \in Ids |-> 0] /\ pending' = [s \in Sources |-> NoBump]
        /\ fd' = 0 /\ pos' = 0 /\ size0' = 0 /\ tpc' = "open" /\ astray' = FALSE
        /\ UNCHANGED <<now, keepalive, log, about, path, checkpoint, handled, torn,
                       ckFile, ckAstray, scenario, up, tasks>>
        /\ creator' = [i \in Ids |-> "none"] /\ waking' = [i \in Ids |-> 0]
        /\ touched' = [i \in Ids |-> IF row'[i] = "running" THEN lastActive'[i]
                                     ELSE 0]
        /\ refused' = FALSE /\ tick' = [r \in Reapers |-> NoTick]
    BY DEF Restart, ActForget
  <1>2. lastActive' \in [Ids -> 0 .. MaxTime]
    <2>1. PICK updated \in 1 .. now :
            lastActive' = [i \in Ids |-> IF row[i] = "running" /\ lastActive[i] = 0
                                         THEN updated ELSE lastActive[i]]
      BY DEF Restart
    <2>2. updated \in 0 .. MaxTime
      BY DEF ClockPart
    <2> QED
      BY <2>1, <2>2 DEF ClockPart
  <1>3. row' \in [Ids -> {"none", "creating", "running", "stopped", "error"}]
    BY DEF Restart, UserPart
  <1>4. ClockPart'
    BY <1>1, <1>2 DEF ClockPart, NoBump
  <1>5. RecordPart'
    BY <1>1, <1>2 DEF RecordPart
  <1>6. UserPart'
    <2>1. creator' \in [Ids -> {"none", "run", "mark", "seed"}]
          /\ waking' \in [Ids -> 0 .. MaxTime]
      BY <1>1
    <2>2. up' \subseteq Ids /\ tasks' \subseteq Ids /\ refused' \in BOOLEAN
      BY <1>1 DEF UserPart
    <2> QED
      BY <1>3, <2>1, <2>2 DEF UserPart
  <1>7. LogPart'
    BY <1>1 DEF LogPart, LogTypes, LogInv, TailInv, DealtWith
  <1>8. TickPart'
    <2>1. now' \in Nat
      BY <1>1 DEF ClockPart
    <2>2. ASSUME NEW r \in Reapers
          PROVE  tick'[r] \in Tick /\ TickInv(r, tick[r])'
      <3>1. tick'[r] = NoTick
        BY <1>1
      <3>2. NoTick \in Tick
        BY <1>1, <2>1, NoTickInv
      <3>3. TickInv(r, tick[r])'
        BY <2>1, <3>1 DEF TickInv, NoTick
      <3> QED
        BY <3>1, <3>2, <3>3
    <2> QED
      BY <1>1, <2>2 DEF TickPart
  <1> QED
    BY <1>4, <1>5, <1>6, <1>7, <1>8

-----------------------------------------------------------------------------
(***************************************************************************)
(* Ticks                                                                   *)
(***************************************************************************)
\* A step of reaper r that only makes its tick q.
LEMMA TickSteps ==
  ASSUME ReapingInv, NEW r \in Reapers, NEW q \in Tick, TickInv(r, q),
         tick' = [tick EXCEPT ![r] = q], refused' \in BOOLEAN, Outside
  PROVE  ReapingInv'
  <1> USE DEF ReapingInv
  <1>1. UNCHANGED <<scenario, users, touched, actVars>>
    BY DEF Outside
  <1>2. TickPart'
    BY <1>1, TickBecomes
  <1>3. UserPart'
    BY <1>1 DEF UserPart
  <1> QED
    BY <1>1, <1>2, <1>3, LogStays, ClockStays, RecordStays

\* A tick ends.
LEMMA TickEndsInv ==
  ASSUME ReapingInv, NEW r \in Reapers, TickEnds(r), refused' \in BOOLEAN, Outside
  PROVE  ReapingInv'
  <1>1. NoTick \in Tick /\ TickInv(r, NoTick)
    BY NoTickInv DEF ReapingInv, ClockPart
  <1> QED
    BY <1>1, TickSteps DEF TickEnds

\* A tick begins.
LEMMA TickBeginInv ==
  ASSUME ReapingInv,
         IdleTick \/ LoopTick \/ \E a \in Percents : AdmitTick(a)
  PROVE  ReapingInv'
  <1>0. /\ tick \in [Reapers -> Tick] /\ \A r \in Reapers : TickInv(r, tick[r])
        /\ now \in 0 .. MaxTime /\ refused \in BOOLEAN
    BY DEF ReapingInv, TickPart, ClockPart, UserPart
  <1>1. CASE IdleTick
    <2> DEFINE q == [tick["idle"] EXCEPT !.pc = "list", !.band = "idle", !.at = now]
    <2>1. /\ q \in Tick /\ q.pc = "list" /\ q.band = "idle" /\ q.at = now
          /\ q.exec = tick["idle"].exec /\ q.task = tick["idle"].task
      BY <1>0 DEF Tick, Bands
    <2>2. tick' = [tick EXCEPT !["idle"] = q] /\ refused' \in BOOLEAN /\ Outside
      BY <1>0, <1>1 DEF IdleTick
    <2> HIDE DEF q
    <2>3. TickInv("idle", q)
      BY <1>0, <2>1 DEF TickInv
    <2> QED
      BY <2>1, <2>2, <2>3, TickSteps
  <1>2. ASSUME NEW r \in {"loop", "admit"}, TickGoto(r, "mem"), UNCHANGED refused,
               Outside
        PROVE  ReapingInv'
    <2> DEFINE q == [tick[r] EXCEPT !.pc = "mem"]
    <2>1. /\ q \in Tick /\ q.pc = "mem" /\ q.at = tick[r].at
          /\ q.exec = tick[r].exec /\ q.task = tick[r].task
      BY <1>0 DEF Tick
    <2>2. tick' = [tick EXCEPT ![r] = q] /\ refused' \in BOOLEAN
      BY <1>0, <1>2 DEF TickGoto
    <2> HIDE DEF q
    <2>3. TickInv(r, q)
      BY <1>0, <2>1 DEF TickInv
    <2> QED
      BY <1>2, <2>1, <2>2, <2>3, TickSteps
  <1> QED
    BY <1>1, <1>2 DEF LoopTick, AdmitTick

\* A pressure tick reads the memory state.
LEMMA ReadMemoryInv ==
  ASSUME ReapingInv, NEW r \in Reapers, NEW a \in Percents, ReadMemory(r, a)
  PROVE  ReapingInv'
  <1>0. /\ tick[r] \in Tick /\ TickInv(r, tick[r]) /\ tick[r].pc = "mem"
        /\ refused' \in BOOLEAN /\ Outside
    BY DEF ReapingInv, TickPart, UserPart, ReadMemory
  <1>1. CASE tick' = [tick EXCEPT ![r].pc = "flag", ![r].seen = a]
    <2> DEFINE q == [tick[r] EXCEPT !.pc = "flag", !.seen = a]
    <2>1. /\ q \in Tick /\ q.pc = "flag" /\ q.at = tick[r].at
          /\ q.exec = tick[r].exec /\ q.task = tick[r].task
      BY <1>0 DEF Tick
    <2>2. tick' = [tick EXCEPT ![r] = q]
      BY <1>1 DEF ReapingInv, TickPart
    <2> HIDE DEF q
    <2>3. TickInv(r, q)
      BY <1>0, <2>1 DEF TickInv
    <2> QED
      BY <1>0, <2>1, <2>2, <2>3, TickSteps
  <1> QED
    BY <1>0, <1>1, TickEndsInv DEF ReadMemory

\* A pressure tick sets or clears the refusal flag.
LEMMA SetFlagInv ==
  ASSUME ReapingInv, NEW r \in Reapers, SetFlag(r)
  PROVE  ReapingInv'
  <1>0. /\ tick[r] \in Tick /\ TickInv(r, tick[r]) /\ tick[r].pc = "flag" /\ Outside
        /\ now \in 0 .. MaxTime
    BY DEF ReapingInv, TickPart, ClockPart, SetFlag
  <1>1. refused' \in BOOLEAN
    BY DEF SetFlag, ReapingInv, UserPart
  <1>2. CASE TickEnds(r)
    BY <1>0, <1>1, <1>2, TickEndsInv
  <1>3. CASE tick' = [tick EXCEPT ![r].pc = "list", ![r].seen = 0, ![r].at = now,
                                  ![r].band = BandOf(tick[r].seen)]
    <2> DEFINE b == BandOf(tick[r].seen)
               q == [tick[r] EXCEPT !.pc = "list", !.seen = 0, !.at = now, !.band = b]
    <2>0. b \in Bands
      BY DEF BandOf, Bands
    <2> HIDE DEF b
    <2>1. /\ q \in Tick /\ q.pc = "list" /\ q.at = now
          /\ q.exec = tick[r].exec /\ q.task = tick[r].task
      BY <1>0, <2>0 DEF Tick
    <2>2. tick' = [tick EXCEPT ![r] = q]
      BY <1>3 DEF ReapingInv, TickPart, b
    <2> HIDE DEF q
    <2>3. TickInv(r, q)
      BY <1>0, <2>1 DEF TickInv
    <2> QED
      BY <1>0, <1>1, <2>1, <2>2, <2>3, TickSteps
  <1> QED
    BY <1>2, <1>3 DEF SetFlag

\* Whatever a tick lists as a candidate it may stop.
LEMMA CandidatesDue ==
  ASSUME ReapingInv, NEW r \in Reapers
  PROVE  /\ Candidates(r) \subseteq (0 .. MaxTime) \X Ids
         /\ \A c \in Candidates(r) : MayStop(r, Listed(r), c[2])
  <1>1. /\ tick[r] \in Tick /\ tick[r].at \in Nat /\ now \in Nat /\ tick[r].at <= now
        /\ lastActive \in [Ids -> 0 .. MaxTime] /\ keepalive \in [Ids -> Nat]
        /\ touched \in [Ids -> 0 .. MaxTime]
        /\ \A i \in Ids : touched[i] <= lastActive[i]
    BY DEF ReapingInv, TickPart, Tick, TickInv, ClockPart, RecordPart
  <1>2. Candidates(r) \subseteq (0 .. MaxTime) \X Ids
    BY <1>1 DEF Candidates
  <1>3. ASSUME NEW i \in Ids \ AlwaysOn, lastActive[i] < Cutoff(r),
               keepalive[i] <= tick[r].at
        PROVE  MayStop(r, Listed(r), i)
    <2>1. /\ Listed(r).keep = {j \in Ids : keepalive[j] > now}
          /\ Listed(r).known = touched /\ Listed(r).at = tick[r].at
      BY <1>1 DEF Listed, Tick
    <2>2. keepalive[i] \in Nat /\ lastActive[i] \in Nat /\ touched[i] \in Nat
          /\ Threshold \in Nat
      BY <1>1
    <2>3. i \notin {j \in Ids : keepalive[j] > now}
      BY <1>1, <1>3, <2>2
    <2>4. r = "idle" => touched[i] + Threshold < tick[r].at
      BY <1>1, <1>3, <2>2 DEF Cutoff
    <2> QED
      BY <1>3, <2>1, <2>3, <2>4 DEF MayStop
  <1> QED
    BY <1>2, <1>3 DEF Candidates

\* A tick lists its candidates.
LEMMA ListInv ==
  ASSUME ReapingInv, NEW r \in Reapers, List(r)
  PROVE  ReapingInv'
  <1>0. /\ tick[r] \in Tick /\ TickInv(r, tick[r]) /\ tick[r].pc = "list" /\ Outside
        /\ refused' \in BOOLEAN
    BY DEF ReapingInv, TickPart, UserPart, List
  <1> DEFINE l == Listed(r)
  <1>1. /\ l \in Tick /\ l.band = tick[r].band /\ l.at = tick[r].at
        /\ l.exec = {i \in Ids : execs[i] > 0} /\ l.task = tasks
        /\ l.keep = {i \in Ids : keepalive[i] > now}
    BY <1>0 DEF Listed, Tick, ReapingInv, RecordPart, UserPart
  <1>2. /\ Candidates(r) \subseteq (0 .. MaxTime) \X Ids
        /\ \A c \in Candidates(r) : MayStop(r, l, c[2])
    BY CandidatesDue
  <1> HIDE DEF l
  <1>3. CASE tick[r].band # "<5" /\ tick' = [tick EXCEPT ![r] =
                [l EXCEPT !.pc = "next", !.queue = Candidates(r)]]
    <2> DEFINE q == [l EXCEPT !.pc = "next", !.queue = Candidates(r)]
    <2>1. /\ q \in Tick /\ q.pc = "next" /\ q.band = l.band /\ q.at = l.at
          /\ q.exec = l.exec /\ q.task = l.task /\ q.keep = l.keep
          /\ q.known = l.known /\ q.queue = Candidates(r)
      BY <1>1, <1>2 DEF Tick
    <2>2. tick' = [tick EXCEPT ![r] = q]
      BY <1>3
    <2> HIDE DEF q
    <2>3. \A c \in q.queue : MayStop(r, q, c[2])
      BY <1>2, <2>1 DEF MayStop
    <2>4. TickInv(r, q)
      BY <1>0, <1>1, <2>1, <2>3 DEF TickInv
    <2> QED
      BY <1>0, <2>1, <2>2, <2>4, TickSteps
  <1>4. ASSUME tick[r].band = "<5", NEW i \in Killable,
               tick' = [tick EXCEPT ![r] = [l EXCEPT !.pc = "stop", !.victim = i]]
        PROVE  ReapingInv'
    <2> DEFINE q == [l EXCEPT !.pc = "stop", !.victim = i]
    <2>0. i \in Ids
      BY DEF Killable, Running
    <2>1. /\ q \in Tick /\ q.pc = "stop" /\ q.band = "<5" /\ q.at = l.at
          /\ q.exec = l.exec /\ q.task = l.task /\ q.victim = i
      BY <1>1, <1>4, <2>0 DEF Tick
    <2>2. tick' = [tick EXCEPT ![r] = q]
      BY <1>4
    <2> HIDE DEF q
    <2>3. TickInv(r, q)
      BY <1>0, <1>1, <1>4, <2>0, <2>1 DEF TickInv
    <2> QED
      BY <1>0, <2>1, <2>2, <2>3, TickSteps
  <1>5. CASE TickEnds(r)
    BY <1>0, <1>5, TickEndsInv
  <1> QED
    BY <1>3, <1>4, <1>5 DEF List, l

\* A tick takes its next candidate, and skips it or goes on to stop it.
LEMMA NextCandidateInv ==
  ASSUME ReapingInv, NEW r \in Reapers, NextCandidate(r)
  PROVE  ReapingInv'
  <1> DEFINE t == tick[r]
  <1>0. /\ t \in Tick /\ TickInv(r, t) /\ t.pc = "next" /\ Outside
        /\ tick \in [Reapers -> Tick] /\ refused' \in BOOLEAN
        /\ execs \in [Ids -> 0 .. 1]
    BY DEF ReapingInv, TickPart, UserPart, ClockPart, NextCandidate
  <1>1. CASE TickEnds(r)
    BY <1>0, <1>1, TickEndsInv
  <1>2. ASSUME NEW c \in Oldest(r),
               tick' = [tick EXCEPT ![r].queue = @ \ {c}]
        PROVE  ReapingInv'
    <2> DEFINE q == [t EXCEPT !.queue = @ \ {c}]
    <2>1. /\ q \in Tick /\ q.pc = "next" /\ q.band = t.band /\ q.at = t.at
          /\ q.exec = t.exec /\ q.task = t.task /\ q.keep = t.keep
          /\ q.known = t.known /\ q.queue = t.queue \ {c}
      BY <1>0 DEF Tick
    <2>2. tick' = [tick EXCEPT ![r] = q]
      BY <1>0, <1>2
    <2> HIDE DEF q, t
    <2>3. TickInv(r, q)
      BY <1>0, <2>1 DEF TickInv, MayStop
    <2> QED
      BY <1>0, <2>1, <2>2, <2>3, TickSteps
  <1>3. ASSUME NEW c \in Oldest(r),
               ~Skip(r, c[2]) \/ (scenario.fails /\ execs[c[2]] = 0),
               tick' = [tick EXCEPT ![r].queue = @ \ {c}, ![r].pc = "stop",
                                    ![r].victim = c[2]]
        PROVE  ReapingInv'
    <2> DEFINE q == [t EXCEPT !.queue = @ \ {c}, !.pc = "stop", !.victim = c[2]]
    <2>0. c \in t.queue /\ c[2] \in Ids
      BY <1>0 DEF Oldest, Tick
    <2>1. /\ q \in Tick /\ q.pc = "stop" /\ q.band = t.band /\ q.at = t.at
          /\ q.exec = t.exec /\ q.task = t.task /\ q.keep = t.keep
          /\ q.known = t.known /\ q.queue = t.queue \ {c} /\ q.victim = c[2]
      BY <1>0, <2>0 DEF Tick
    <2>2. tick' = [tick EXCEPT ![r] = q]
      BY <1>0, <1>3
    <2>3. /\ ~(execs[c[2]] > 0)
          /\ r = "idle" /\ ~scenario.fails => c[2] \notin tasks
      BY <1>0, <1>3, <2>0 DEF Skip
    <2> HIDE DEF q, t
    <2>4. /\ c[2] \notin q.exec
          /\ r = "idle" /\ ~scenario.fails => c[2] \notin q.task
      BY <1>0, <2>1, <2>3 DEF TickInv
    <2>5. TickInv(r, q)
      BY <1>0, <2>0, <2>1, <2>4 DEF TickInv, MayStop
    <2> QED
      BY <1>0, <2>1, <2>2, <2>5, TickSteps
  <1> QED
    BY <1>1, <1>2, <1>3 DEF NextCandidate

\* docker stop, and the row: the tick goes to mark, on, or it ends.
LEMMA StopInv ==
  ASSUME ReapingInv, NEW r \in Reapers, DockerStop(r) \/ MarkStoppedAt(r)
  PROVE  ReapingInv'
  <1> DEFINE t == tick[r]
  <1>0. /\ t \in Tick /\ TickInv(r, t) /\ t.pc \in {"stop", "mark"}
        /\ tick \in [Reapers -> Tick] /\ t.victim \in Ids /\ now \in Nat
        /\ UNCHANGED <<scenario, refused, creator, waking, tasks, touched, actVars>>
    BY DEF ReapingInv, TickPart, TickInv, ClockPart, DockerStop, MarkStoppedAt
  <1>1. UserPart'
    <2>1. up' \subseteq Ids
      BY DEF ReapingInv, UserPart, DockerStop, MarkStoppedAt
    <2>2. row' \in [Ids -> {"none", "creating", "running", "stopped", "error"}]
      BY DEF ReapingInv, UserPart, DockerStop, MarkStoppedAt
    <2> QED
      BY <1>0, <2>1, <2>2 DEF ReapingInv, UserPart
  <1>2. \E q \in Tick : TickInv(r, q) /\ tick' = [tick EXCEPT ![r] = q]
    <2>1. CASE TickGoto(r, "mark")
      <3> DEFINE q == [t EXCEPT !.pc = "mark"]
      <3>1. /\ q \in Tick /\ q.pc = "mark" /\ q.band = t.band /\ q.at = t.at
            /\ q.exec = t.exec /\ q.task = t.task /\ q.keep = t.keep
            /\ q.known = t.known /\ q.queue = t.queue /\ q.victim = t.victim
        BY <1>0 DEF Tick
      <3>2. tick' = [tick EXCEPT ![r] = q]
        BY <2>1 DEF TickGoto
      <3> HIDE DEF q, t
      <3>3. TickInv(r, q)
        BY <1>0, <3>1 DEF TickInv, MayStop
      <3> QED
        BY <3>1, <3>2, <3>3
    <2>2. CASE tick' = [tick EXCEPT ![r].pc = "next", ![r].victim = NoId]
      <3> DEFINE q == [t EXCEPT !.pc = "next", !.victim = NoId]
      <3>1. /\ q \in Tick /\ q.pc = "next" /\ q.band = t.band /\ q.at = t.at
            /\ q.exec = t.exec /\ q.task = t.task /\ q.keep = t.keep
            /\ q.known = t.known /\ q.queue = t.queue
        BY <1>0 DEF Tick
      <3>2. tick' = [tick EXCEPT ![r] = q]
        BY <1>0, <2>2
      <3> HIDE DEF q, t
      <3>3. TickInv(r, q)
        BY <1>0, <3>1 DEF TickInv, MayStop
      <3> QED
        BY <3>1, <3>2, <3>3
    <2>3. CASE TickEnds(r)
      BY <1>0, <2>3, NoTickInv DEF TickEnds
    <2> QED
      BY <2>1, <2>2, <2>3 DEF DockerStop, MarkStoppedAt, Onward
  <1>3. TickPart'
    BY <1>0, <1>2, TickBecomes DEF ReapingInv
  <1> QED
    BY <1>0, <1>1, <1>3, LogStays, ClockStays, RecordStays DEF ReapingInv

-----------------------------------------------------------------------------
(***************************************************************************)
(* The invariant holds                                                     *)
(***************************************************************************)
\* Every step preserves the invariant.
LEMMA ReapingInductive == ReapingInv /\ [Next]_allVars => ReapingInv'
  <1> SUFFICES ASSUME ReapingInv, [Next]_allVars
               PROVE  ReapingInv'
    OBVIOUS
  <1>1. CASE UNCHANGED allVars
    <2>1. UNCHANGED <<scenario, users, refused, tick, touched, clocks, logVars, tailer>>
      BY <1>1 DEF allVars, reapVars
    <2>2. now \in Nat
      BY DEF ReapingInv, ClockPart
    <2> QED
      BY <2>1, <2>2, LogStays, ClockStays, RecordStays, UserStays, TickStays
      DEF ReapingInv
  <1> QED
    BY <1>1, UserStepInv, SignalInv, ClockInv, RestartInv, TickBeginInv,
       ReadMemoryInv, SetFlagInv, ListInv, NextCandidateInv, StopInv
    DEF Next, TickStep

\* The invariant holds initially.
LEMMA ReapingInitial == Init => ReapingInv
  <1> SUFFICES ASSUME Init
               PROVE  ReapingInv
    OBVIOUS
  <1>1. LogPart
    <2>1. LogTypes
      <3>1. log \in [Inodes -> Seq(HalfLine)] /\ about \in [Lines -> Ids \cup {NoId}]
        BY DEF Init, ActInit
      <3>2. /\ path \in Inodes /\ fd = 0 /\ pos \in Nat /\ size0 \in Nat
            /\ checkpoint \in Nat /\ ckFile \in Inodes
        BY DEF Init, ActInit
      <3>3. /\ tpc \in {"open", "read", "wait"} /\ handled \subseteq Lines
            /\ torn \subseteq Lines
        BY DEF Init, ActInit
      <3>4. astray \in BOOLEAN /\ ckAstray \in BOOLEAN
        BY DEF Init, ActInit
      <3> QED
        BY <3>1, <3>2, <3>3, <3>4 DEF LogTypes
    <2>2. LogInv /\ TailInv
      BY DEF Init, ActInit, LogInv, TailInv, DealtWith
    <2> QED
      BY <2>1, <2>2 DEF LogPart
  <1>2. lastActive \in [Ids -> 0 .. MaxTime]
    BY DEF Init
  <1>3. ClockPart
    BY <1>2 DEF Init, ActInit, ClockPart, NoBump
  <1>4. RecordPart
    BY <1>2 DEF Init, RecordPart
  <1>5. UserPart
    <2>1. row \in [Ids -> {"none", "creating", "running", "stopped", "error"}]
      BY DEF Init
    <2>2. creator \in [Ids -> {"none", "run", "mark", "seed"}]
          /\ waking \in [Ids -> 0 .. MaxTime]
      BY DEF Init
    <2>3. up \subseteq Ids /\ tasks \subseteq Ids /\ refused \in BOOLEAN
      BY DEF Init
    <2> QED
      BY <2>1, <2>2, <2>3 DEF UserPart
  <1>6. TickPart
    BY <1>3, NoTickInv DEF Init, TickPart, ClockPart
  <1> QED
    BY <1>1, <1>3, <1>4, <1>5, <1>6 DEF ReapingInv

\* The inductive invariant.
THEOREM ReapingInvariant == Spec => []ReapingInv
BY ReapingInitial, ReapingInductive, PTL DEF Spec

-----------------------------------------------------------------------------
(***************************************************************************)
(* The properties                                                          *)
(***************************************************************************)
\* Every variable keeps its type.
THEOREM TypeCorrect == Spec => []TypeOK
BY InvTypes, ReapingInvariant, PTL

\* tailer.go: unless it went astray, the saved offset is behind no line that was
\* neither handled nor read in two halves, whichever files were truncated or
\* read at another's offset before.
THEOREM SavedOffsetHonest == Spec => []CheckpointBehindHandled
  <1>1. ReapingInv => CheckpointBehindHandled
    BY DEF ReapingInv, LogPart, LogTypes, TailInv, DealtWith, CheckpointBehindHandled
  <1> QED
    BY <1>1, ReapingInvariant, PTL

\* The idle reaper stops only what was idle for longer than Threshold when
\* its tick began.
THEOREM IdleStopDue == Spec => []IdleStopWasDue
  <1>1. ReapingInv => IdleStopWasDue
    BY DEF ReapingInv, TickPart, TickInv, MayStop, Stops, IdleStopWasDue
  <1> QED
    BY <1>1, ReapingInvariant, PTL

\* Below an emergency no tick stops work, a keepalive or an always_on sandbox
\* that it found.
THEOREM WorkSpared == Spec => []StopSparesWork
  <1>1. ReapingInv => StopSparesWork
    BY DEF ReapingInv, TickPart, TickInv, MayStop, Stops, StopSparesWork
  <1> QED
    BY <1>1, ReapingInvariant, PTL

=============================================================================
