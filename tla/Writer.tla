------------------------------- MODULE Writer -------------------------------
(***************************************************************************)
(* The store's single writer (internal/store): submit, the queue and the   *)
(* write loop, Close, and a sandboxd that is killed and started again.     *)
(* Every write method of the store is a submit of its SQL, which runs in   *)
(* one transaction under the caller's context.                             *)
(*                                                                         *)
(* Simplifications.  What a write changes is left out: it has taken effect *)
(* or not.  SQLite commits a transaction whole and durably.                *)
(***************************************************************************)
EXTENDS Naturals, Sequences

CONSTANTS
  Clients,    \* goroutines that call the store's write methods
  MaxWrites,  \* bound: writes of one client
  Capacity,   \* of the writes channel (64)
  NoWrite

Write == [by : Clients, nr : 1 .. MaxWrites]

ASSUME WriterAssumption ==
  /\ MaxWrites \in Nat /\ Capacity \in Nat \ {0}
  /\ NoWrite \notin Write

VARIABLES
  asked,     \* asked[c]: how many times c has called submit
  answer,    \* answer[w]: what submit returned: "ok", "err", "ctx"; "none"
  db,        \* the database: the writes that have taken effect
  pc,        \* pc[c]: "idle", "send" (first select) or "wait" (second)
  ended,     \* ended[c]: the context of c's current call has ended
  result,    \* result[c]: what its done channel holds
  queue,     \* the writes channel
  loop,      \* writeLoop: "select", "drain" or "exit"
  cur,       \* the op the loop has taken
  begun,     \* its fn has got past the look at the context
  closed,    \* closeCh is closed
  before,    \* history: what was queued when Close was called
  left       \* history: writes whose caller left while they were queued

vars == <<asked, answer, db, pc, ended, result, queue, loop, cur, begun,
          closed, before, left>>
callVars == <<asked, answer, pc, ended>>
loopVars == <<loop, cur, begun>>

Current(c) == [by |-> c, nr |-> asked[c]]
Queued == {queue[i] : i \in 1 .. Len(queue)}

\* The caller has left: its context had ended.
Abandoned(w) == w.nr < asked[w.by] \/ pc[w.by] # "wait"
CtxEnded(w)  == Abandoned(w) \/ ended[w.by]

-----------------------------------------------------------------------------
(***************************************************************************)
(* submit                                                                  *)
(***************************************************************************)
\* The context may have ended before the call.
SubmitCall(c) ==
  /\ pc[c] = "idle" /\ asked[c] < MaxWrites
  /\ asked' = [asked EXCEPT ![c] = @ + 1]
  /\ pc' = [pc EXCEPT ![c] = "send"]
  /\ \E e \in BOOLEAN : ended' = [ended EXCEPT ![c] = e]
  /\ UNCHANGED <<answer, db, result, queue, loopVars, closed, before, left>>

SubmitSend(c) ==
  /\ pc[c] = "send" /\ Len(queue) < Capacity
  /\ queue' = Append(queue, Current(c))
  /\ pc' = [pc EXCEPT ![c] = "wait"]
  /\ UNCHANGED <<asked, answer, db, ended, result, loopVars, closed, before, left>>

\* submit returns a; its context and its done channel are gone.
Return(c, a) ==
  /\ answer' = [answer EXCEPT ![Current(c)] = a]
  /\ pc' = [pc EXCEPT ![c] = "idle"]
  /\ ended' = [ended EXCEPT ![c] = FALSE]
  /\ result' = [result EXCEPT ![c] = "none"]

\* Mutant of SubmitDone: an ended context is reported as success.
SubmitDoneAny(c) ==
  /\ pc[c] = "wait" /\ (result[c] # "none" \/ ended[c])
  /\ Return(c, "ok")
  /\ UNCHANGED <<asked, db, queue, loopVars, closed, before, left>>

SubmitDone(c) ==
  /\ pc[c] = "wait" /\ result[c] # "none"
  /\ Return(c, result[c])
  /\ UNCHANGED <<asked, db, queue, loopVars, closed, before, left>>

\* ctx.Done in either select; the queued op stays in the queue.
SubmitCtx(c) ==
  /\ pc[c] \in {"send", "wait"} /\ ended[c]
  /\ Return(c, "ctx")
  /\ left' = IF Current(c) \in Queued THEN left \cup {Current(c)} ELSE left
  /\ UNCHANGED <<asked, db, queue, loopVars, closed, before>>

\* A timeout, or the client of the HTTP request goes away.
CtxEnds(c) ==
  /\ pc[c] # "idle" /\ ~ended[c]
  /\ ended' = [ended EXCEPT ![c] = TRUE]
  /\ UNCHANGED <<asked, answer, db, pc, result, queue, loopVars, closed, before,
                 left>>

-----------------------------------------------------------------------------
(***************************************************************************)
(* writeLoop                                                               *)
(***************************************************************************)
LoopTake ==
  /\ loop \in {"select", "drain"} /\ cur = NoWrite /\ queue # <<>>
  /\ cur' = Head(queue)
  /\ queue' = Tail(queue)
  /\ UNCHANGED <<callVars, db, result, loop, begun, closed, before, left>>

\* Mutant of Deliver: op.done has no buffer.
DeliverBlocks(w, r) ==
  ~Abandoned(w) /\ result' = [result EXCEPT ![w.by] = r]

\* op.done has room for one result: a caller that has left blocks nobody.
Deliver(w, r) ==
  result' = IF Abandoned(w) THEN result ELSE [result EXCEPT ![w.by] = r]

\* Mutant of FnBegin: the SQL runs under a context of its own.
FnBeginAlways ==
  /\ cur # NoWrite /\ ~begun
  /\ begun' = TRUE
  /\ UNCHANGED <<callVars, db, result, queue, loop, cur, closed, before, left>>

\* BeginTx or ExecContext looks at the context before anything else.
FnBegin ==
  /\ cur # NoWrite /\ ~begun
  /\ ~CtxEnded(cur)
  /\ begun' = TRUE
  /\ UNCHANGED <<callVars, db, result, queue, loop, cur, closed, before, left>>

FnCommit ==
  /\ cur # NoWrite /\ begun
  /\ db' = db \cup {cur}
  /\ Deliver(cur, "ok")
  /\ cur' = NoWrite /\ begun' = FALSE
  /\ UNCHANGED <<callVars, queue, loop, closed, before, left>>

\* The context ended, a constraint is violated, no row matches.
FnFail ==
  /\ cur # NoWrite
  /\ Deliver(cur, "err")
  /\ cur' = NoWrite /\ begun' = FALSE
  /\ UNCHANGED <<callVars, db, queue, loop, closed, before, left>>

\* Mutant of LoopClose: the loop ends at closeCh.
LoopCloseNow ==
  /\ loop = "select" /\ cur = NoWrite /\ closed
  /\ loop' = "exit"
  /\ UNCHANGED <<callVars, db, result, queue, cur, begun, closed, before, left>>

LoopClose ==
  /\ loop = "select" /\ cur = NoWrite /\ closed
  /\ loop' = "drain"
  /\ UNCHANGED <<callVars, db, result, queue, cur, begun, closed, before, left>>

LoopExit ==
  /\ loop = "drain" /\ cur = NoWrite /\ queue = <<>>
  /\ loop' = "exit"
  /\ UNCHANGED <<callVars, db, result, queue, cur, begun, closed, before, left>>

\* Close, on the way out of main.
Close ==
  /\ ~closed
  /\ closed' = TRUE
  /\ before' = Queued \cup ({cur} \ {NoWrite})
  /\ UNCHANGED <<callVars, db, result, queue, loopVars, left>>

\* The process ends, after Close or killed; the next one opens the database.
Restart ==
  /\ pc' = [c \in Clients |-> "idle"]
  /\ ended' = [c \in Clients |-> FALSE]
  /\ result' = [c \in Clients |-> "none"]
  /\ queue' = <<>>
  /\ loop' = "select" /\ cur' = NoWrite /\ begun' = FALSE
  /\ closed' = FALSE /\ before' = {}
  /\ UNCHANGED <<asked, answer, db, left>>

MainReturns == loop = "exit" /\ Restart

-----------------------------------------------------------------------------
Init ==
  /\ asked = [c \in Clients |-> 0]
  /\ answer = [w \in Write |-> "none"]
  /\ db = {}
  /\ pc = [c \in Clients |-> "idle"]
  /\ ended = [c \in Clients |-> FALSE]
  /\ result = [c \in Clients |-> "none"]
  /\ queue = <<>>
  /\ loop = "select" /\ cur = NoWrite /\ begun = FALSE
  /\ closed = FALSE /\ before = {} /\ left = {}

Submit(c) == SubmitSend(c) \/ SubmitDone(c) \/ SubmitCtx(c)

WriteLoop == LoopTake \/ FnBegin \/ FnCommit \/ FnFail \/ LoopClose \/ LoopExit

Next ==
  \/ \E c \in Clients : SubmitCall(c) \/ Submit(c) \/ CtxEnds(c)
  \/ WriteLoop \/ Close \/ Restart

Spec == Init /\ [][Next]_vars

\* Go serves a blocked sender in its turn: strong fairness of the send.  SQL
\* ends.  Nobody is obliged to close, to be killed or to end a context.
FairSpec ==
  /\ Spec
  /\ WF_vars(WriteLoop) /\ WF_vars(MainReturns)
  /\ \A c \in Clients : WF_vars(Submit(c)) /\ SF_vars(SubmitSend(c))

-----------------------------------------------------------------------------
(***************************************************************************)
(* Properties                                                              *)
(***************************************************************************)
\* Every variable has its type.
TypeOK ==
  /\ asked \in [Clients -> 0 .. MaxWrites]
  /\ answer \in [Write -> {"none", "ok", "err", "ctx"}]
  /\ db \subseteq Write
  /\ pc \in [Clients -> {"idle", "send", "wait"}]
  /\ ended \in [Clients -> BOOLEAN]
  /\ result \in [Clients -> {"none", "ok", "err"}]
  /\ queue \in Seq(Write) /\ Len(queue) <= Capacity
  /\ loop \in {"select", "drain", "exit"}
  /\ cur \in Write \cup {NoWrite} /\ begun \in BOOLEAN /\ closed \in BOOLEAN
  /\ before \subseteq Write /\ left \subseteq Write

\* The store keeps its promise through abandoned calls, failing SQL, a full
\* queue, Close and kills: "ok" is committed, "err" never is, and a caller's
\* writes take effect in its order even when it gave up on an earlier one.
Atomic == INSTANCE AtomicStore WITH Clients <- Clients, MaxWrites <- MaxWrites,
                                  asked <- asked, answer <- answer, db <- db
ImplementsAtomicStore == Atomic!Spec

\* store.go:81: Close drains.  What was queued when it was called has been
\* executed by the time the loop ends.
CloseDrains == loop = "exit" => before \cap Queued = {}

\* A write whose caller had left while it was queued is never done behind its
\* back; only one that was already running can still take effect.
LeftIsNotDone == left \cap db = {}

\* Every submit returns: no abandoned op, full queue or Close blocks the
\* writer for good.  (After Close the process ends.)
SubmitReturns == \A c \in Clients : pc[c] # "idle" ~> pc[c] = "idle"
=============================================================================
