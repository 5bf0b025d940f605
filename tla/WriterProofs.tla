---------------------------- MODULE WriterProofs ----------------------------
(***************************************************************************)
(* Writer implements AtomicStore for any clients, any number of writes and *)
(* any capacity; with it CloseDrains and LeftIsNotDone.  The inductive     *)
(* invariant says where a write can be: one that is queued or being run    *)
(* (Pending) has been asked for, has not taken effect, has not been        *)
(* answered "ok" or "err", and comes after every write of its caller that  *)
(* has taken effect.                                                       *)
(***************************************************************************)
EXTENDS Writer, TLAPS

Pending == Queued \cup ({cur} \ {NoWrite})

\* Queued or running writes are asked for, undone and unanswered.
PendingInv ==
  \A w \in Pending :
    /\ w.nr <= asked[w.by] /\ w \notin db
    /\ answer[w] \in {"none", "ctx"}

\* The queue holds each caller's writes in its order, the running one first.
QueueOrder ==
  /\ \A i, j \in 1 .. Len(queue) :
       i < j /\ queue[i].by = queue[j].by => queue[i].nr < queue[j].nr
  /\ cur # NoWrite =>
       \A i \in 1 .. Len(queue) : queue[i].by = cur.by => cur.nr < queue[i].nr

\* What has taken effect was asked for and comes before what is pending.
DbOrder ==
  \A v \in db :
    /\ v.nr <= asked[v.by]
    /\ \A w \in Pending : v.by = w.by => v.nr < w.nr

\* A call under way has no answer; what its done channel holds is true; and
\* before it is sent its write is nowhere.
CallInv ==
  /\ \A c \in Clients :
       /\ pc[c] # "idle" => asked[c] > 0 /\ answer[Current(c)] = "none"
       /\ pc[c] # "wait" => result[c] = "none"
       /\ pc[c] = "send" => Current(c) \notin Pending \cup db \cup before
       /\ result[c] = "ok" => Current(c) \in db
       /\ result[c] = "err" => Current(c) \notin Pending \cup db
  /\ \A w \in Write : answer[w] # "none" => w.nr <= asked[w.by]

\* A write left in the queue stays abandoned.
LeftInv ==
  \A w \in left : answer[w] = "ctx" /\ w \notin db /\ ~(cur = w /\ begun)

\* Only a running write has begun.
BegunInv == cur = NoWrite => ~begun

\* The loop ends after Close only.
CloseInv ==
  /\ \A w \in before : w.nr <= asked[w.by]
  /\ ~closed => loop = "select"

IInv ==
  /\ TypeOK /\ PendingInv /\ QueueOrder /\ DbOrder /\ CallInv /\ LeftInv
  /\ BegunInv /\ CloseInv /\ CloseDrains

-----------------------------------------------------------------------------
(***************************************************************************)
(* Lemmas on writes and on the queue                                       *)
(***************************************************************************)
\* A write is its caller and its number.
LEMMA SameWrite ==
  ASSUME NEW v \in Write, NEW w \in Write, v.by = w.by, v.nr = w.nr
  PROVE  v = w
BY DEF Write

\* The current write of a caller that has made a call is a write.
LEMMA CurrentIsWrite ==
  ASSUME TypeOK, NEW c \in Clients, asked[c] > 0
  PROVE  Current(c) \in Write /\ Current(c).by = c /\ Current(c).nr = asked[c]
BY WriterAssumption DEF TypeOK, Current, Write

\* Sending adds one write to what is queued.
LEMMA QueueAppend ==
  ASSUME TypeOK, NEW w \in Write, queue' = Append(queue, w)
  PROVE  /\ Queued' = Queued \cup {w}
         /\ Len(queue') = Len(queue) + 1
         /\ queue' \in Seq(Write)
         /\ \A i \in 1 .. Len(queue) : queue'[i] = queue[i]
         /\ queue'[Len(queue) + 1] = w
<1>1. /\ Len(queue') = Len(queue) + 1 /\ queue' \in Seq(Write)
      /\ \A i \in 1 .. Len(queue) : queue'[i] = queue[i]
      /\ queue'[Len(queue) + 1] = w
      /\ Len(queue) \in Nat
  BY DEF TypeOK
<1>2. Queued' = Queued \cup {w}
  BY <1>1 DEF Queued
<1> QED BY <1>1, <1>2

\* Taking the head leaves the rest in its order.
LEMMA QueueTake ==
  ASSUME TypeOK, queue # <<>>, queue' = Tail(queue)
  PROVE  /\ Head(queue) \in Write /\ Head(queue) = queue[1]
         /\ Len(queue') = Len(queue) - 1 /\ Len(queue) \in Nat \ {0}
         /\ queue' \in Seq(Write)
         /\ \A i \in 1 .. Len(queue') : queue'[i] = queue[i + 1]
         /\ Queued = Queued' \cup {Head(queue)}
<1>1. /\ Head(queue) \in Write /\ Head(queue) = queue[1]
      /\ Len(queue') = Len(queue) - 1 /\ Len(queue) \in Nat \ {0}
      /\ queue' \in Seq(Write)
      /\ \A i \in 1 .. Len(queue') : queue'[i] = queue[i + 1]
  BY DEF TypeOK
<1>2. Queued' \subseteq Queued
  BY <1>1 DEF Queued
<1>3. Head(queue) \in Queued
  BY <1>1 DEF Queued
<1>4. ASSUME NEW i \in 1 .. Len(queue)
      PROVE  queue[i] \in Queued' \cup {Head(queue)}
  <2>1. CASE i = 1
    BY <2>1, <1>1
  <2>2. CASE i # 1
    <3>1. i - 1 \in 1 .. Len(queue') /\ queue'[i - 1] = queue[i]
      BY <2>2, <1>1
    <3> QED BY <3>1 DEF Queued
  <2> QED BY <2>1, <2>2
<1> QED BY <1>1, <1>2, <1>3, <1>4 DEF Queued

\* What is queued or running is a write.
LEMMA PendingIsWrite == ASSUME TypeOK PROVE Pending \subseteq Write
BY DEF TypeOK, Pending, Queued

-----------------------------------------------------------------------------
(***************************************************************************)
(* IInv is inductive                                                       *)
(***************************************************************************)
\* It holds when the store is opened for the first time.
LEMMA InitInv == Init => IInv
<1> SUFFICES ASSUME Init PROVE IInv
  OBVIOUS
<1>1. TypeOK
  <2>1. queue \in Seq(Write) /\ Len(queue) = 0
    BY DEF Init
  <2>2. Len(queue) <= Capacity
    BY <2>1, WriterAssumption
  <2>3. /\ pc \in [Clients -> {"idle", "send", "wait"}]
        /\ ended \in [Clients -> BOOLEAN]
        /\ result \in [Clients -> {"none", "ok", "err"}]
        /\ answer \in [Write -> {"none", "ok", "err", "ctx"}]
    BY DEF Init
  <2>4. asked \in [Clients -> 0 .. MaxWrites]
    BY WriterAssumption DEF Init
  <2> QED BY <2>1, <2>2, <2>3, <2>4 DEF Init, TypeOK
<1>2. Pending = {} /\ Queued = {}
  BY DEF Init, Pending, Queued
<1>3. PendingInv /\ QueueOrder /\ DbOrder /\ LeftInv /\ BegunInv /\ CloseInv /\ CloseDrains
  BY <1>2 DEF Init, PendingInv, QueueOrder, DbOrder, LeftInv, BegunInv, CloseInv, CloseDrains
<1>4. CallInv
  BY <1>2 DEF Init, CallInv
<1> QED BY <1>1, <1>3, <1>4 DEF IInv

\* A call of submit is numbered after everything its caller has asked for.
LEMMA SubmitCallInv ==
  ASSUME IInv, NEW c \in Clients, SubmitCall(c) PROVE IInv'
<1> USE DEF IInv, SubmitCall, loopVars
<1>1. TypeOK'
  BY WriterAssumption DEF TypeOK
<1>2. Pending' = Pending /\ Queued' = Queued /\ Pending \subseteq Write
  BY PendingIsWrite DEF Pending, Queued
<1>3. PendingInv' /\ QueueOrder' /\ DbOrder' /\ LeftInv' /\ BegunInv' /\ CloseInv' /\ CloseDrains'
  BY <1>2 DEF TypeOK, PendingInv, QueueOrder, DbOrder, LeftInv, BegunInv,
              CloseInv, CloseDrains, Write
<1>4. Current(c)' \in Write /\ Current(c)'.by = c /\ Current(c)'.nr = asked[c] + 1
  BY <1>1 DEF TypeOK, Current, Write
<1>5. \A d \in Clients : d # c => Current(d)' = Current(d)
  BY DEF TypeOK, Current
<1>6. answer[Current(c)'] = "none"
  BY <1>4 DEF TypeOK, CallInv
<1>7. Current(c)' \notin Pending \cup db \cup before
  BY <1>4 DEF TypeOK, PendingInv, DbOrder, CloseInv
<1>8. CallInv'
  BY <1>2, <1>4, <1>5, <1>6, <1>7 DEF TypeOK, CallInv, Write
<1> QED BY <1>1, <1>3, <1>8

\* A sent write goes behind the earlier ones of its caller.
LEMMA SubmitSendInv ==
  ASSUME IInv, NEW c \in Clients, SubmitSend(c) PROVE IInv'
<1> USE DEF IInv, SubmitSend, loopVars
<1> DEFINE w == Current(c)
<1>1. w \in Write /\ w.by = c /\ w.nr = asked[c]
  BY CurrentIsWrite DEF CallInv
<1> HIDE DEF w
<1>2. /\ Queued' = Queued \cup {w}
      /\ Len(queue') = Len(queue) + 1 /\ Len(queue) \in Nat
      /\ queue' \in Seq(Write)
      /\ \A i \in 1 .. Len(queue) : queue'[i] = queue[i]
      /\ queue'[Len(queue) + 1] = w
  BY <1>1, QueueAppend DEF w, TypeOK
<1>3. TypeOK'
  BY <1>2, WriterAssumption DEF TypeOK
<1>4. Pending' = Pending \cup {w} /\ Pending \subseteq Write
  BY <1>2, PendingIsWrite DEF Pending
<1>5. w \notin Pending \cup db \cup before /\ answer[w] = "none"
  BY DEF CallInv, w
<1>6. \A v \in Pending \cup db : v.by = c => v.nr < w.nr
  <2> TAKE v \in Pending \cup db
  <2>1. v \in Write /\ v.nr <= asked[v.by]
    BY <1>4 DEF PendingInv, DbOrder, TypeOK
  <2>2. v.by = c => v.nr # w.nr
    BY <2>1, <1>1, <1>5, SameWrite
  <2> QED BY <2>1, <2>2, <1>1 DEF TypeOK, Write
<1>7. PendingInv'
  BY <1>1, <1>4, <1>5 DEF PendingInv, TypeOK
<1>8. QueueOrder'
  <2>1. \A i \in 1 .. Len(queue) : queue[i] \in Pending
    BY DEF Pending, Queued
  <2>2. cur # NoWrite => cur \in Pending
    BY DEF Pending
  <2> QED BY <1>1, <1>2, <1>6, <2>1, <2>2 DEF QueueOrder
<1>9. DbOrder'
  BY <1>1, <1>4, <1>6 DEF DbOrder
<1>10. CallInv'
  <2>1. \A d \in Clients : Current(d)' = Current(d)
    BY DEF Current
  <2>2. \A d \in Clients : d # c => Current(d) # w
    BY DEF Current, w
  <2> QED BY <1>1, <1>4, <1>5, <2>1, <2>2 DEF CallInv, TypeOK, w
<1>11. LeftInv' /\ BegunInv' /\ CloseInv' /\ CloseDrains'
  BY <1>2, <1>5 DEF LeftInv, BegunInv, CloseInv, CloseDrains
<1> QED BY <1>3, <1>7, <1>8, <1>9, <1>10, <1>11

\* An answer that submit may give keeps the invariant.
LEMMA ReturnInv ==
  ASSUME IInv, NEW c \in Clients, pc[c] # "idle", NEW a \in {"ok", "err", "ctx"},
         a # "ctx" => Current(c) \notin Pending,
         Return(c, a),
         UNCHANGED <<asked, db, queue, loopVars, closed, before>>,
         left' = left \/ (a = "ctx" /\ Current(c) \in Queued
                            /\ left' = left \cup {Current(c)})
  PROVE  IInv'
<1> USE DEF IInv, Return, loopVars
<1> DEFINE w == Current(c)
<1>1. w \in Write /\ w.by = c /\ w.nr = asked[c]
  BY CurrentIsWrite DEF CallInv
<1> HIDE DEF w
<1>2. /\ Pending' = Pending /\ Queued' = Queued /\ Pending \subseteq Write
      /\ answer' = [answer EXCEPT ![w] = a]
      /\ answer[w] = "none"
  BY PendingIsWrite DEF Pending, Queued, w, CallInv
<1>3. TypeOK'
  BY <1>1, <1>2 DEF TypeOK
<1>4. PendingInv' /\ QueueOrder' /\ DbOrder'
  BY <1>1, <1>2 DEF PendingInv, QueueOrder, DbOrder, TypeOK, w
<1>5. CallInv'
  <2>1. \A d \in Clients : Current(d)' = Current(d) /\ (d # c => Current(d) # w)
    BY DEF Current, w
  <2>2. ASSUME NEW d \in Clients, d # c PROVE answer'[Current(d)] = answer[Current(d)]
                                               \/ asked[d] = 0
    BY <2>1, <2>2, <1>2, CurrentIsWrite DEF TypeOK
  <2> QED BY <1>1, <1>2, <2>1, <2>2 DEF CallInv, TypeOK
<1>6. LeftInv'
  <2>1. w \in Queued => w \notin db /\ cur # w
    <3>1. SUFFICES ASSUME w \in Queued PROVE w \notin db /\ cur # w
      OBVIOUS
    <3>2. w \in Pending
      BY <3>1 DEF Pending
    <3>3. PICK i \in 1 .. Len(queue) : queue[i] = w
      BY <3>1 DEF Queued
    <3>4. cur # w
      BY <3>3, <1>1, WriterAssumption DEF QueueOrder, Write, TypeOK
    <3> QED BY <3>2, <3>4 DEF PendingInv
  <2> QED BY <1>1, <1>2, <2>1 DEF LeftInv, TypeOK, w
<1>7. BegunInv' /\ CloseInv' /\ CloseDrains'
  BY <1>2 DEF BegunInv, CloseInv, CloseDrains
<1> QED BY <1>3, <1>4, <1>5, <1>6, <1>7

\* submit returns what its done channel held.
LEMMA SubmitDoneInv ==
  ASSUME IInv, NEW c \in Clients, SubmitDone(c) PROVE IInv'
<1>1. result[c] \in {"ok", "err"} /\ pc[c] # "idle"
  BY DEF SubmitDone, IInv, TypeOK
<1>2. Current(c) \notin Pending
  BY <1>1 DEF IInv, CallInv, PendingInv
<1> QED BY <1>1, <1>2, ReturnInv DEF SubmitDone

\* submit returns because its context has ended.
LEMMA SubmitCtxInv ==
  ASSUME IInv, NEW c \in Clients, SubmitCtx(c) PROVE IInv'
BY ReturnInv DEF SubmitCtx

\* The end of a context changes nothing else.
LEMMA CtxEndsInv ==
  ASSUME IInv, NEW c \in Clients, CtxEnds(c) PROVE IInv'
<1> USE DEF IInv, CtxEnds, loopVars
<1>1. Pending' = Pending /\ Queued' = Queued /\ \A d \in Clients : Current(d)' = Current(d)
  BY DEF Pending, Queued, Current
<1> QED BY <1>1 DEF TypeOK, PendingInv, QueueOrder, DbOrder, CallInv, LeftInv,
                    BegunInv, CloseInv, CloseDrains

\* The head of the queue becomes the running write.
LEMMA LoopTakeInv ==
  ASSUME IInv, LoopTake PROVE IInv'
<1> USE DEF IInv, LoopTake, callVars
<1>1. /\ cur' \in Write /\ cur' = queue[1]
      /\ Len(queue') = Len(queue) - 1 /\ Len(queue) \in Nat \ {0}
      /\ queue' \in Seq(Write)
      /\ \A i \in 1 .. Len(queue') : queue'[i] = queue[i + 1]
      /\ Queued = Queued' \cup {cur'}
  BY QueueTake
<1>2. TypeOK'
  BY <1>1, WriterAssumption DEF TypeOK
<1>3. Pending' = Pending
  BY <1>1, WriterAssumption DEF Pending
<1>4. PendingInv' /\ DbOrder'
  BY <1>3 DEF PendingInv, DbOrder
<1>5. QueueOrder'
  <2>1. \A i \in 1 .. Len(queue') : i + 1 \in 1 .. Len(queue) /\ 1 < i + 1
    BY <1>1
  <2>2. 1 \in 1 .. Len(queue)
    BY <1>1
  <2> QED BY <1>1, <2>1, <2>2 DEF QueueOrder
<1>6. CallInv'
  <2>1. \A d \in Clients : Current(d)' = Current(d)
    BY DEF Current
  <2> QED BY <1>3, <2>1 DEF CallInv
<1>7. LeftInv'
  <2>1. begun = FALSE
    BY DEF BegunInv
  <2> QED BY <2>1 DEF LeftInv
<1>8. BegunInv' /\ CloseInv' /\ CloseDrains'
  BY <1>1, WriterAssumption DEF BegunInv, CloseInv, CloseDrains
<1> QED BY <1>2, <1>4, <1>5, <1>6, <1>7, <1>8

\* fn goes ahead for a caller that is still there.
LEMMA FnBeginInv ==
  ASSUME IInv, FnBegin PROVE IInv'
<1> USE DEF IInv, FnBegin, callVars
<1>1. Pending' = Pending /\ Queued' = Queued /\ \A d \in Clients : Current(d)' = Current(d)
  BY DEF Pending, Queued, Current
<1>2. cur \in Write /\ cur \in Pending
  BY DEF TypeOK, Pending
<1>3. answer[cur] = "none"
  <2>1. ~(cur.nr < asked[cur.by]) /\ pc[cur.by] = "wait" /\ cur.by \in Clients
    BY <1>2 DEF CtxEnded, Abandoned, Write
  <2>2. cur.nr = asked[cur.by]
    BY <1>2, <2>1 DEF PendingInv, TypeOK, Write
  <2>3. cur = Current(cur.by)
    BY <1>2, <2>2 DEF Current, Write
  <2> QED BY <2>1, <2>3 DEF CallInv
<1>4. LeftInv'
  BY <1>3 DEF LeftInv
<1> QED BY <1>1, <1>4 DEF TypeOK, PendingInv, QueueOrder, DbOrder, CallInv, BegunInv,
                    CloseInv, CloseDrains

\* The end of fn: the running write leaves Pending, with or without effect.
LEMMA FnEndInv ==
  ASSUME IInv, cur # NoWrite, NEW r \in {"ok", "err"}, Deliver(cur, r),
         db' = IF r = "ok" THEN db \cup {cur} ELSE db,
         r = "ok" => begun,
         cur' = NoWrite, begun' = FALSE,
         UNCHANGED <<callVars, queue, loop, closed, before, left>>
  PROVE  IInv'
<1> USE DEF IInv, callVars
<1>1. cur \in Write /\ cur \in Pending /\ cur.by \in Clients
  BY DEF TypeOK, Pending, Write
<1>2. Queued' = Queued /\ Pending' = Queued
  BY WriterAssumption DEF TypeOK, Pending, Queued
<1>3. cur \notin Queued /\ \A w \in Queued : w.by = cur.by => cur.nr < w.nr
  BY <1>1 DEF QueueOrder, Queued, TypeOK, Write
<1>4. TypeOK'
  BY <1>1 DEF TypeOK, Deliver
<1>5. PendingInv' /\ QueueOrder'
  BY <1>2, <1>3 DEF PendingInv, QueueOrder, Pending
<1>6. DbOrder'
  BY <1>1, <1>2, <1>3 DEF DbOrder, PendingInv, Pending
<1>7. CallInv'
  <2>1. \A d \in Clients : Current(d)' = Current(d)
    BY DEF Current
  <2>2. Abandoned(cur) \/ cur = Current(cur.by)
    BY <1>1 DEF Abandoned, PendingInv, TypeOK, Write, Current
  <2>3. \A d \in Clients : pc[d] = "send" => Current(d) # cur
    BY <1>1 DEF CallInv
  <2>4. \A d \in Clients : result[d] = "err" => Current(d) # cur
    BY <1>1 DEF CallInv
  <2>5. CASE Abandoned(cur)
    BY <1>1, <1>2, <2>1, <2>3, <2>4, <2>5 DEF CallInv, Deliver, Pending
  <2>6. CASE ~Abandoned(cur)
    <3>1. cur = Current(cur.by) /\ pc[cur.by] = "wait"
      BY <2>2, <2>6 DEF Abandoned
    <3>2. \A d \in Clients : d # cur.by => Current(d) # cur
      BY DEF Current
    <3>3. result' = [result EXCEPT ![cur.by] = r]
      BY <2>6 DEF Deliver
    <3>4. cur \notin db
      BY <1>1 DEF PendingInv
    <3> QED BY <1>1, <1>2, <1>3, <2>1, <2>3, <3>1, <3>2, <3>3, <3>4
            DEF CallInv, TypeOK, Pending
  <2> QED BY <2>5, <2>6
<1>8. LeftInv' /\ BegunInv' /\ CloseInv' /\ CloseDrains'
  BY <1>2, WriterAssumption, <1>1 DEF LeftInv, BegunInv, CloseInv, CloseDrains
<1> QED BY <1>4, <1>5, <1>6, <1>7, <1>8

\* closeCh and the end of the drain.
LEMMA LoopEndInv ==
  ASSUME IInv, LoopClose \/ LoopExit PROVE IInv'
<1> USE DEF IInv, LoopClose, LoopExit, callVars
<1>1. Pending' = Pending /\ Queued' = Queued /\ \A d \in Clients : Current(d)' = Current(d)
  BY DEF Pending, Queued, Current
<1>2. CloseDrains'
  <2>1. CASE LoopClose
    BY <2>1 DEF CloseDrains
  <2>2. CASE LoopExit
    <3>1. Queued = {}
      BY <2>2 DEF Queued
    <3> QED BY <3>1, <1>1 DEF CloseDrains
  <2> QED BY <2>1, <2>2
<1>3. TypeOK' /\ CloseInv'
  BY DEF TypeOK, CloseInv
<1> QED BY <1>1, <1>2, <1>3 DEF PendingInv, QueueOrder, DbOrder, CallInv, LeftInv,
                    BegunInv

\* Close takes note of what is queued.
LEMMA CloseKeepsInv ==
  ASSUME IInv, Close PROVE IInv'
<1> USE DEF IInv, Close, callVars, loopVars
<1>1. Pending' = Pending /\ Queued' = Queued /\ \A d \in Clients : Current(d)' = Current(d)
  BY DEF Pending, Queued, Current
<1>2. before' = Pending /\ Pending \subseteq Write
  BY PendingIsWrite DEF Pending
<1>3. loop # "exit"
  BY DEF CloseInv
<1>4. TypeOK' /\ CloseInv' /\ CloseDrains'
  BY <1>2, <1>3 DEF TypeOK, CloseInv, CloseDrains, PendingInv
<1>5. CallInv'
  BY <1>1, <1>2 DEF CallInv
<1> QED BY <1>1, <1>4, <1>5 DEF PendingInv, QueueOrder, DbOrder, LeftInv, BegunInv

\* The next process starts with an empty queue and the same database.
LEMMA RestartInv ==
  ASSUME IInv, Restart PROVE IInv'
<1> USE DEF IInv, Restart
<1>1. Pending' = {} /\ Queued' = {} /\ \A d \in Clients : Current(d)' = Current(d)
  BY DEF Pending, Queued, Current
<1>2. queue' \in Seq(Write) /\ Len(queue') = 0
  OBVIOUS
<1>3. TypeOK'
  <2>1. Len(queue') <= Capacity
    BY <1>2, WriterAssumption
  <2>2. /\ pc' \in [Clients -> {"idle", "send", "wait"}]
        /\ ended' \in [Clients -> BOOLEAN]
        /\ result' \in [Clients -> {"none", "ok", "err"}]
    OBVIOUS
  <2> QED BY <1>2, <2>1, <2>2 DEF TypeOK
<1>4. PendingInv' /\ QueueOrder' /\ DbOrder' /\ LeftInv' /\ BegunInv' /\ CloseInv'
      /\ CloseDrains'
  BY <1>1, <1>2 DEF PendingInv, QueueOrder, DbOrder, LeftInv, BegunInv, CloseInv,
                    CloseDrains
<1>5. CallInv'
  BY <1>1 DEF CallInv
<1> QED BY <1>3, <1>4, <1>5

\* A step that changes nothing.
LEMMA StutterInv ==
  ASSUME IInv, UNCHANGED vars PROVE IInv'
BY DEF IInv, vars, TypeOK, PendingInv, QueueOrder, DbOrder, CallInv, LeftInv,
       BegunInv, CloseInv, CloseDrains, Pending, Queued, Current

\* Every step keeps the invariant.
LEMMA NextInv == IInv /\ [Next]_vars => IInv'
<1> SUFFICES ASSUME IInv, [Next]_vars PROVE IInv'
  OBVIOUS
<1>1. ASSUME NEW c \in Clients, SubmitCall(c) PROVE IInv'
  BY <1>1, SubmitCallInv
<1>2. ASSUME NEW c \in Clients, Submit(c) PROVE IInv'
  BY <1>2, SubmitSendInv, SubmitDoneInv, SubmitCtxInv DEF Submit
<1>3. ASSUME NEW c \in Clients, CtxEnds(c) PROVE IInv'
  BY <1>3, CtxEndsInv
<1>4. CASE LoopTake
  BY <1>4, LoopTakeInv
<1>5. CASE FnBegin
  BY <1>5, FnBeginInv
<1>6. CASE FnCommit
  BY <1>6, FnEndInv DEF FnCommit
<1>7. CASE FnFail
  BY <1>7, FnEndInv DEF FnFail
<1>8. CASE LoopClose \/ LoopExit
  BY <1>8, LoopEndInv
<1>9. CASE Close
  BY <1>9, CloseKeepsInv
<1>10. CASE Restart
  BY <1>10, RestartInv
<1>11. CASE UNCHANGED vars
  BY <1>11, StutterInv
<1> QED BY <1>1, <1>2, <1>3, <1>4, <1>5, <1>6, <1>7, <1>8, <1>9, <1>10, <1>11
        DEF Next, WriteLoop

-----------------------------------------------------------------------------
(***************************************************************************)
(* Theorems                                                                *)
(***************************************************************************)
\* The invariant holds in every reachable state.
THEOREM Invariance == Spec => []IInv
BY InitInv, NextInv, PTL DEF Spec

\* Every variable of the writer has its type, the queue its capacity.
THEOREM TypeCorrect == Spec => []TypeOK
<1>1. IInv => TypeOK
  BY DEF IInv
<1> QED BY <1>1, Invariance, PTL

\* Close drains the queue, whatever is sent while it does.
THEOREM Drains == Spec => []CloseDrains
<1>1. IInv => CloseDrains
  BY DEF IInv
<1> QED BY <1>1, Invariance, PTL

\* A write whose caller left while it was queued never takes effect.
THEOREM LeftUndone == Spec => []LeftIsNotDone
<1>1. IInv => LeftIsNotDone
  BY DEF IInv, LeftInv, LeftIsNotDone
<1> QED BY <1>1, Invariance, PTL

\* A step of the writer is a step of the atomic store or changes nothing of it.
LEMMA StepRefines ==
  IInv /\ [Next]_vars => [Atomic!Next]_<<asked, answer, db>>
<1> SUFFICES ASSUME IInv, [Next]_vars, ~UNCHANGED <<asked, answer, db>>
             PROVE  Atomic!Next
  OBVIOUS
<1>1. Atomic!Write = Write /\ Atomic!Asked = {w \in Write : w.nr <= asked[w.by]}
  BY DEF Write, Atomic!Write, Atomic!Asked
<1>2. ASSUME NEW c \in Clients, SubmitCall(c) PROVE Atomic!Next
  BY <1>2 DEF SubmitCall, Atomic!Ask, Atomic!Next
<1>3. ASSUME NEW c \in Clients, pc[c] # "idle"
      PROVE  Current(c) \in Atomic!Asked /\ answer[Current(c)] = "none"
  BY <1>1, <1>3, CurrentIsWrite DEF IInv, CallInv, TypeOK
<1>4. ASSUME NEW c \in Clients, SubmitDone(c) PROVE Atomic!Next
  <2>1. result[c] \in {"ok", "err"} /\ pc[c] # "idle"
    BY <1>4 DEF SubmitDone, IInv, TypeOK
  <2>2. Atomic!Answer(Current(c), result[c])
    BY <1>4, <2>1, <1>3 DEF SubmitDone, Return, Atomic!Answer, IInv, CallInv
  <2> QED BY <2>1, <2>2, <1>1, <1>3 DEF Atomic!Next
<1>5. ASSUME NEW c \in Clients, SubmitCtx(c) PROVE Atomic!Next
  <2>1. pc[c] # "idle"
    BY <1>5 DEF SubmitCtx
  <2>2. Atomic!Answer(Current(c), "ctx")
    BY <1>5, <2>1, <1>3 DEF SubmitCtx, Return, Atomic!Answer
  <2> QED BY <2>1, <2>2, <1>1, <1>3 DEF Atomic!Next
<1>6. CASE FnCommit
  <2>1. cur \in Write /\ cur \in Pending
    BY <1>6 DEF FnCommit, IInv, TypeOK, Pending
  <2>2. Atomic!Commit(cur)
    BY <1>1, <1>6, <2>1 DEF FnCommit, callVars, Atomic!Commit, IInv, PendingInv, DbOrder
  <2> QED BY <1>1, <2>1, <2>2 DEF Atomic!Next
<1> QED BY <1>2, <1>4, <1>5, <1>6
        DEF Next, Submit, SubmitSend, CtxEnds, WriteLoop, LoopTake, FnBegin, FnFail,
            LoopClose, LoopExit, Close, Restart, vars, callVars

\* The writer implements the atomic store.
THEOREM Refinement == Spec => ImplementsAtomicStore
<1>1. Init => Atomic!Init
  BY DEF Init, Atomic!Init, Write, Atomic!Write
<1> QED BY <1>1, StepRefines, Invariance, PTL DEF Spec, ImplementsAtomicStore, Atomic!Spec

=============================================================================
