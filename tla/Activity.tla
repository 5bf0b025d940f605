------------------------------ MODULE Activity ------------------------------
(***************************************************************************)
(* What counts as activity of a sandbox (internal/activity) and how it     *)
(* reaches last_active_at: Traefik's access log and the tailer that reads  *)
(* it, the connection poller, exec calls, keepalive.  Every source reads   *)
(* the clock first and commits its bump later, and the log is rotated,     *)
(* truncated and written in pieces under the tailer.                       *)
(*                                                                         *)
(* Simplifications.  A log file is a sequence of half lines: the head of   *)
(* line n, then its tail with the newline.  An inode is a number; Traefik  *)
(* moves to a new file as soon as it is rotated.  One moment is long       *)
(* compared with a second; a timestamp of 0 is the column's default.       *)
(***************************************************************************)
EXTENDS Naturals, Sequences

CONSTANTS
  Ids,        \* sandboxes
  NoId,
  MaxTime,    \* bound: the last moment
  MaxLines,   \* bound: lines Traefik writes
  MaxInodes   \* bound: log files

ASSUME ActivityAssumption ==
  /\ NoId \notin Ids
  /\ MaxTime \in Nat \ {0} /\ MaxLines \in Nat /\ MaxInodes \in Nat \ {0}

Lines   == 1 .. MaxLines
Inodes  == 1 .. MaxInodes
Moments == 1 .. MaxTime
Sources == {"tailer", "poller", "exec_begin", "exec_end"}

VARIABLES
  now,         \* the clock
  lastActive,  \* lastActive[i]: the row's last_active_at
  keepalive,   \* keepalive[i]: the row's keepalive_until
  execs,       \* execs[i]: exec calls in flight (InflightExec)
  pending,     \* pending[s]: the bump source s has read the clock for
  log,         \* log[k]: the half lines in file k
  about,       \* about[n]: the sandbox line n is about
  path,        \* the inode LogPath names, 0 while the file is away
  fd,          \* the file the tailer has open, 0 for none
  pos,         \* how much of it the tailer has consumed
  size0,       \* its size at the tailer's last Stat
  checkpoint,  \* the offset on disk
  tpc,         \* the tailer's next step
  handled,     \* history: lines the tailer bumped for
  torn,        \* history: lines of which the tailer saw a half at a time
  ckFile,      \* history: the file the checkpoint is about
  astray,      \* history: pos counts half lines that are not in the file
  ckAstray     \* history: checkpoint does

clocks  == <<now, lastActive, keepalive, execs, pending>>
logVars == <<log, about, path>>
tailer  == <<fd, pos, size0, checkpoint, tpc, handled, torn, ckFile,
             astray, ckAstray>>
actVars == <<now, lastActive, keepalive, execs, pending, log, about, path, fd,
             pos, size0, checkpoint, tpc, handled, torn, ckFile, astray,
             ckAstray>>

NoBump == [id |-> NoId, at |-> 0]

-----------------------------------------------------------------------------
(***************************************************************************)
(* Bumps                                                                   *)
(***************************************************************************)
\* A source reads the clock on behalf of i.
ReadClock(s, i) ==
  /\ pending[s] = NoBump
  /\ pending' = [pending EXCEPT ![s] = [id |-> i, at |-> now]]

\* Mutant of BumpLastActive: the column is simply set.
BumpLastActiveSet(s) ==
  /\ pending[s] # NoBump
  /\ lastActive' = [lastActive EXCEPT ![pending[s].id] = pending[s].at]
  /\ pending' = [pending EXCEPT ![s] = NoBump]

\* last_active_at = MAX(last_active_at, t).
BumpLastActive(s) ==
  /\ pending[s] # NoBump
  /\ lastActive' = [lastActive EXCEPT ![pending[s].id] =
                      IF @ < pending[s].at THEN pending[s].at ELSE @]
  /\ pending' = [pending EXCEPT ![s] = NoBump]

\* The store fails: the bump is dropped with a warning.
BumpFails(s) ==
  /\ pending[s] # NoBump
  /\ pending' = [pending EXCEPT ![s] = NoBump]
  /\ UNCHANGED lastActive

Commit(s) ==
  /\ BumpLastActive(s) \/ BumpFails(s)
  /\ UNCHANGED <<now, keepalive, execs, logVars, tailer>>

\* pollOnce finds an open connection of i.
Poll(i) ==
  /\ ReadClock("poller", i)
  /\ UNCHANGED <<now, lastActive, keepalive, execs, logVars, tailer>>

\* handleExec counts the call before it bumps.
ExecBegin(i) ==
  /\ execs[i] = 0
  /\ execs' = [execs EXCEPT ![i] = @ + 1]
  /\ ReadClock("exec_begin", i)
  /\ UNCHANGED <<now, lastActive, keepalive, logVars, tailer>>

\* Its deferred calls run in reverse order: the second bump is committed,
\* then the counter goes down.
ExecEnd(i) ==
  /\ execs[i] > 0
  /\ pending["exec_begin"].id # i
  /\ ReadClock("exec_end", i)
  /\ UNCHANGED <<now, lastActive, keepalive, execs, logVars, tailer>>

\* Mutant of ExecExit: the deferred calls run once more.
ExecExitAgain ==
  /\ pending["exec_end"] # NoBump
  /\ execs' = [execs EXCEPT ![pending["exec_end"].id] = @ - 1]
  /\ UNCHANGED <<now, lastActive, keepalive, pending, logVars, tailer>>

ExecExit ==
  /\ pending["exec_end"] # NoBump
  /\ BumpLastActive("exec_end") \/ BumpFails("exec_end")
  /\ execs' = [execs EXCEPT ![pending["exec_end"].id] = @ - 1]
  /\ UNCHANGED <<now, keepalive, logVars, tailer>>

\* handleKeepalive, clamped to the maximum offset.
Keepalive(i, until, max) ==
  /\ until >= now
  /\ keepalive' = [keepalive EXCEPT ![i] =
                     IF until > now + max THEN now + max ELSE until]
  /\ UNCHANGED <<now, lastActive, execs, pending, logVars, tailer>>

-----------------------------------------------------------------------------
(***************************************************************************)
(* Traefik and logrotate                                                   *)
(***************************************************************************)
Half(n, part) == [line |-> n, part |-> part]

\* Lines Traefik has yet to write.
Unwritten == {n \in Lines : about[n] = NoId}

\* The current file ends with a newline.
LineDone == log[path] # <<>> => log[path][Len(log[path])].part = "tail"

\* Traefik starts a line in the current file.
WriteHead(i) ==
  /\ path # 0 /\ LineDone
  /\ \E n \in Unwritten :
       /\ \A m \in Unwritten : n <= m
       /\ about' = [about EXCEPT ![n] = i]
       /\ log' = [log EXCEPT ![path] = Append(@, Half(n, "head"))]
  /\ UNCHANGED <<path, clocks, tailer>>

WriteTail ==
  /\ path # 0 /\ ~LineDone
  /\ log' = [log EXCEPT ![path] = Append(@, Half(@[Len(@)].line, "tail"))]
  /\ UNCHANGED <<about, path, clocks, tailer>>

\* logrotate moves the file away; later Traefik opens a new one.
RotateAway ==
  /\ path # 0 /\ path < MaxInodes /\ LineDone
  /\ path' = 0
  /\ UNCHANGED <<log, about, clocks, tailer>>

NewFile ==
  /\ path = 0
  /\ \E k \in Inodes :
       /\ log[k] = <<>> /\ k # fd
       /\ \A j \in Inodes : log[j] = <<>> /\ j # fd => k <= j
       /\ path' = k
  /\ UNCHANGED <<log, about, clocks, tailer>>

\* copytruncate.
Truncate ==
  /\ path # 0 /\ LineDone
  /\ log[path] # <<>>
  /\ log' = [log EXCEPT ![path] = <<>>]
  /\ astray' = (astray \/ (path = fd /\ pos > 0))
  /\ ckAstray' = (ckAstray \/ (path = ckFile /\ checkpoint > 0))
  /\ UNCHANGED <<about, path, clocks, fd, pos, size0, checkpoint, tpc, handled,
                 torn, ckFile>>

-----------------------------------------------------------------------------
(***************************************************************************)
(* The tailer (tailer.go runOnce)                                          *)
(***************************************************************************)
\* Mutant of TailOpen: the checkpoint is saved when the file is opened, for
\* everything in it.
TailOpenAhead ==
  /\ tpc = "open" /\ path # 0
  /\ fd' = path
  /\ size0' = Len(log[path])
  /\ pos' = IF checkpoint > Len(log[path]) THEN 0 ELSE checkpoint
  /\ checkpoint' = Len(log[path])
  /\ ckFile' = path
  /\ tpc' = "read"
  /\ UNCHANGED <<handled, torn, astray, ckAstray, clocks, logVars>>

\* Open, and seek to the checkpoint if the file is that long.
TailOpen ==
  /\ tpc = "open" /\ path # 0
  /\ fd' = path
  /\ size0' = Len(log[path])
  /\ pos' = IF checkpoint > Len(log[path]) THEN 0 ELSE checkpoint
  /\ tpc' = "read"
  /\ astray' = (pos' > 0 /\ (ckAstray \/ path # ckFile))
  /\ UNCHANGED <<checkpoint, handled, torn, ckFile, ckAstray, clocks, logVars>>

\* What ReadString returns is a whole line when the two halves come
\* together; a tail on its own does not parse and is skipped.
TailLine ==
  /\ tpc = "read"
  /\ pending["tailer"] = NoBump
  /\ pos < Len(log[fd])
  /\ LET next == log[fd][pos + 1] IN
       \/ /\ next.part = "head"
          /\ pos + 1 < Len(log[fd])
          /\ pos' = pos + 2
          /\ handled' = handled \cup {next.line}
          /\ ReadClock("tailer", about[next.line])
          /\ UNCHANGED torn
       \/ /\ next.part = "tail"
          /\ pos' = pos + 1
          /\ torn' = torn \cup {next.line}
          /\ UNCHANGED <<handled, pending>>
  /\ UNCHANGED <<now, lastActive, keepalive, execs, fd, size0, checkpoint, tpc,
                 ckFile, astray, ckAstray, logVars>>

\* writeCheckpoint: a failure is ignored and the old offset stays.
WriteCheckpoint(off, file) ==
  \/ /\ checkpoint' = off /\ ckFile' = file
     /\ ckAstray' = (off > 0 /\ astray)
  \/ UNCHANGED <<checkpoint, ckFile, ckAstray>>

\* End of file: a half line that was there is consumed and dropped, and the
\* position behind it becomes the checkpoint.
AtEnd ==
  \/ pos >= Len(log[fd])
  \/ pos + 1 = Len(log[fd]) /\ log[fd][pos + 1].part = "head"

TailEof ==
  /\ tpc = "read"
  /\ pending["tailer"] = NoBump
  /\ AtEnd
  /\ pos' = IF pos < Len(log[fd]) THEN pos + 1 ELSE pos
  /\ torn' = IF pos < Len(log[fd]) THEN torn \cup {log[fd][pos + 1].line}
             ELSE torn
  /\ WriteCheckpoint(pos', fd)
  /\ tpc' = "wait"
  /\ UNCHANGED <<fd, size0, handled, astray, clocks, logVars>>

\* The tick: another inode, or the file is shorter than at the last Stat.
Rotated == path # fd \/ Len(log[path]) < size0

TailWait ==
  /\ tpc = "wait"
  /\ \/ /\ path = 0
        /\ tpc' = "open" /\ fd' = 0
        /\ UNCHANGED <<size0, checkpoint, ckFile, ckAstray>>
     \/ /\ path # 0 /\ Rotated
        /\ tpc' = "open" /\ fd' = 0
        /\ WriteCheckpoint(0, path)
        /\ UNCHANGED size0
     \/ /\ path # 0 /\ ~Rotated
        /\ tpc' = "read"
        /\ size0' = Len(log[path])
        /\ UNCHANGED <<fd, checkpoint, ckFile, ckAstray>>
  /\ UNCHANGED <<pos, handled, torn, astray, clocks, logVars>>

-----------------------------------------------------------------------------
ActInit ==
  /\ now = 1
  /\ keepalive = [i \in Ids |-> 0]
  /\ execs = [i \in Ids |-> 0]
  /\ pending = [s \in Sources |-> NoBump]
  /\ log = [k \in Inodes |-> <<>>]
  /\ about = [n \in Lines |-> NoId]
  /\ path = 1
  /\ fd = 0 /\ pos = 0 /\ size0 = 0 /\ checkpoint = 0
  /\ tpc = "open"
  /\ handled = {} /\ torn = {} /\ astray = FALSE /\ ckAstray = FALSE
  /\ ckFile = 1

LogStep ==
  \/ \E i \in Ids : WriteHead(i)
  \/ WriteTail \/ RotateAway \/ NewFile \/ Truncate
  \/ TailOpen \/ TailLine \/ TailEof \/ TailWait

\* What sandboxd forgets when it goes down.
ActForget ==
  /\ execs' = [i \in Ids |-> 0]
  /\ pending' = [s \in Sources |-> NoBump]
  /\ fd' = 0 /\ pos' = 0 /\ size0' = 0 /\ tpc' = "open" /\ astray' = FALSE
  /\ UNCHANGED <<now, keepalive, log, about, path, checkpoint, handled, torn,
                 ckFile, ckAstray>>

ActTypeOK ==
  /\ now \in Moments
  /\ lastActive \in [Ids -> 0 .. MaxTime]
  /\ keepalive \in [Ids -> Nat]
  /\ execs \in [Ids -> 0 .. 1]
  /\ pending \in [Sources -> [id : Ids \cup {NoId}, at : 0 .. MaxTime]]
  /\ log \in [Inodes -> Seq([line : Lines, part : {"head", "tail"}])]
  /\ about \in [Lines -> Ids \cup {NoId}]
  /\ path \in Inodes \cup {0} /\ fd \in Inodes \cup {0}
  /\ pos \in Nat /\ size0 \in Nat /\ checkpoint \in Nat
  /\ tpc \in {"open", "read", "wait"}
  /\ handled \subseteq Lines /\ torn \subseteq Lines
  /\ ckFile \in Inodes /\ astray \in BOOLEAN /\ ckAstray \in BOOLEAN

\* The saved offset passes no line that was lost, but for those the tailer read
\* in two halves: whatever lies whole before it, in the file as it is, has been
\* handled.  After a truncation, or when a failed stat or write left the offset
\* of the file before (tailer.go:157), the offset is astray and the code does
\* lose lines; it has recovered at the first offset it saves from a read that
\* began at 0, or by the reset on a rotation it noticed (tailer.go:167).
CheckpointBehindHandled ==
  ~ckAstray =>
    \A p \in 1 .. checkpoint :
      p \in DOMAIN log[ckFile] => log[ckFile][p].line \in handled \cup torn
=============================================================================
