---------------------------- MODULE ImagesProofs ----------------------------
(***************************************************************************)
(* Proofs about Images for any number of workers, moments and versions,    *)
(* any retention and any kind of crash.  The results rest on the id lock:  *)
(* whoever is inside its section is alone there, so what it has read or    *)
(* moved stays as it left it.                                              *)
(***************************************************************************)
EXTENDS Images, TLAPS

\* A take that has found the image and may still read it.
ReadSteps == {"t_sync", "t_zstd", "t_zstd_end", "t_rename"}

\* The steps of a restore between moving the image aside and its end.
Replacing == WritesLive \cup {"r_zstd", "r_back"}

\* Inside its section a worker holds the lock, and nobody is inside during
\* the boot sweep.
LockInv ==
  /\ \A w \in Workers : pc[w] \in Locked => lock = w
  /\ phase = "boot" => \A w \in Workers : pc[w] = "idle"

\* A take past its check: unless the row misled it, nothing runs, zstd reads the
\* image as it is, and the finished .tmp equals it.
TakeInv ==
  \A w \in Workers :
    /\ pc[w] \in {"t_zstd", "t_zstd_end", "t_rename", "t_undo"} => ts[w] \in Moments
    /\ pc[w] \in ReadSteps => img # NoFile
    /\ pc[w] = "t_zstd_end" => src[w] # NoFile
    /\ pc[w] = "t_rename" => tmp[ts[w]] # NoFile
    /\ pc[w] \in TakeSteps \ {"t_check"} /\ w \notin misled =>
         /\ Still
         /\ pc[w] = "t_zstd_end" => src[w] = img
         /\ pc[w] = "t_rename" => tmp[ts[w]] = img

\* A restore past its rename: the original is in its .bak.  Without one
\* under way the original is the live image, if there is a live image.
RestoreInv ==
  /\ \A w \in Workers :
       /\ pc[w] \in RestoreSteps => ts[w] \in Moments
       /\ pc[w] \in RestoreSteps \ {"r_check", "r_umount"} => ctr # "up"
       /\ pc[w] = "r_zstd" => img = NoFile
       /\ pc[w] = "r_back" => img = NoFile \/ cut
       /\ pc[w] \notin Replacing => aside[w] = NoTime
       /\ pc[w] \in Replacing /\ aside[w] # NoTime => bak[aside[w]] = orig
       /\ pc[w] \in Replacing /\ orig # NoFile /\ ~cut
            => \E t \in Moments : bak[t] = orig
  /\ \/ \E w \in Workers : pc[w] \in Replacing
     \/ orig # NoFile /\ ~cut =>
          IF img = NoFile THEN \E t \in Moments : bak[t] = orig ELSE orig = img

ImagesInv == TypeOK /\ LockInv /\ TakeInv /\ RestoreInv

USE ImagesAssumption
USE DEF ImagesInv, LockInv, TakeInv, RestoreInv, ReadSteps, Replacing, WritesLive,
        Still, Locked, TakeSteps, RestoreSteps, OtherSteps, Steps, Goto, Step,
        files, sandbox, locals, boot, history

\* What the proofs use of moments and contents.
LEMMA Kinds ==
  /\ NoFile \in Contents
  /\ Damaged \in Contents
  /\ NoTime \notin Moments
  /\ 0 \in Moments
  /\ \A v \in Nat : v < MaxVersion => v + 1 \in Contents /\ v + 1 # NoFile
  /\ \A t \in Moments : t < MaxTime => t + 1 \in Moments
  BY DEF Contents, Moments, NoFile, NoTime, Damaged

\* Every step keeps the types.
LEMMA TypeStep == ASSUME ImagesInv, Next PROVE TypeOK'
  <1> USE Kinds DEF TypeOK
  <1>1. ASSUME NEW w \in Workers, Request(w) PROVE TypeOK'
    BY <1>1 DEF Request, BeginTake, BeginOther, BeginRestore, Begin
  <1>2. ASSUME NEW w \in Workers, TakeStep(w) PROVE TypeOK'
    <2>1. CASE TakeCheck(w) \/ TakeSync(w)
      BY <2>1 DEF TakeCheck, TakeSync
    <2>2. CASE TakeGivesUp(w) \/ TakeDone(w) \/ TakeUndo(w)
      BY <2>2 DEF TakeGivesUp, TakeDone, ReturnOnly, Return, TakeUndo
    <2>3. CASE TakeZstd(w) \/ TakeZstdEnd(w)
      BY <2>3 DEF TakeZstd, TakeZstdEnd
    <2>4. CASE TakeRename(w)
      BY <2>4 DEF TakeRename
    <2>5. CASE PruneList(w) \/ PruneOne(w)
      BY <2>5 DEF PruneList, PruneOne, PastRetention, Snapshots
    <2> QED
      BY <1>2, <2>1, <2>2, <2>3, <2>4, <2>5 DEF TakeStep
  <1>3. ASSUME NEW w \in Workers, RestoreStep(w) PROVE TypeOK'
    <2>1. CASE \/ RestoreCheck(w) \/ RestoreUmount(w) \/ RestoreFsck(w)
               \/ RestoreMount(w) \/ RestoreSanity(w)
      BY <2>1 DEF RestoreCheck, RestoreUmount, RestoreFsck, RestoreMount,
                  RestoreSanity
    <2>2. CASE RestoreGivesUp(w) \/ RestoreDrop(w) \/ AbortBack(w)
      BY <2>2 DEF RestoreGivesUp, ReturnOnly, Return, RestoreDrop, AbortBack
    <2>3. CASE RestoreAside(w) \/ RestoreZstd(w)
      BY <2>3 DEF RestoreAside, RestoreZstd
    <2>5. CASE AbortRemove(w)
      <3>1. img' \in Contents /\ pc' \in [Workers -> Steps]
        BY <2>5 DEF AbortRemove
      <3>2. cut' \in BOOLEAN
        BY <2>5, Zenon DEF AbortRemove
      <3> QED
        BY <2>5, <3>1, <3>2 DEF AbortRemove
    <2>4. CASE RestoreZstdEnd(w)
      BY <2>4 DEF RestoreZstdEnd
    <2> QED
      BY <1>3, <2>1, <2>2, <2>3, <2>4, <2>5 DEF RestoreStep
  <1>4. ASSUME NEW w \in Workers, OtherStep(w) PROVE TypeOK'
    BY <1>4 DEF OtherStep, RemoveContainer, PurgeFiles, RemoveRow, WakeStart,
                WakeMark, OtherFails, ReturnOnly, Return
  <1>5. CASE Environment
    <2>1. CASE ContainerWrites \/ Tick \/ Listen
      BY <2>1 DEF ContainerWrites, Tick, Listen
    <2>4. CASE ContainerStops
      <3>1. halted' \in BOOLEAN
        BY <2>4, Zenon DEF ContainerStops
      <3> QED
        BY <2>4, <3>1 DEF ContainerStops
    <2>5. CASE MarkStopped
      BY <2>5 DEF MarkStopped
    <2>2. ASSUME NEW kind \in {"sandboxd", "host"}, Crash(kind) PROVE TypeOK'
      <3>1. cut' \in BOOLEAN
        BY <2>2, Zenon DEF Crash
      <3>2. unswept' \in SUBSET ({"tmp", "bak"} \X Moments)
        BY <2>2 DEF Crash, Debris
      <3>3. /\ mounted' \in BOOLEAN /\ row' \in {"none", "stopped", "running"}
            /\ ctr' \in {"gone", "down", "up", "apart"} /\ halted' \in BOOLEAN
        BY <2>2 DEF Crash
      <3> QED
        BY <2>2, <3>1, <3>2, <3>3 DEF Crash, Forget
    <2>3. ASSUME NEW t \in Moments, SweepTmp(t) \/ SweepBak(t) PROVE TypeOK'
      BY <2>3 DEF SweepTmp, SweepBak
    <2> QED
      BY <1>5, <2>1, <2>2, <2>3, <2>4, <2>5 DEF Environment
  <1> QED
    BY <1>1, <1>2, <1>3, <1>4, <1>5 DEF Next

\* A new request has the lock to itself.
LEMMA RequestInv ==
  ASSUME ImagesInv, NEW w \in Workers, Request(w), TypeOK'
  PROVE  ImagesInv'
  BY Kinds DEF TypeOK, Request, BeginTake, BeginOther, BeginRestore, Begin

\* A take and its prune.
LEMMA TakeInvStep ==
  ASSUME ImagesInv, NEW w \in Workers, TakeStep(w), TypeOK'
  PROVE  ImagesInv'
  <1> USE Kinds DEF TypeOK
  <1>1. CASE TakeCheck(w)
    BY <1>1 DEF TakeCheck
  <1>2. CASE TakeSync(w)
    BY <1>2 DEF TakeSync
  <1>3. CASE TakeGivesUp(w) \/ TakeDone(w) \/ TakeUndo(w)
    BY <1>3 DEF TakeGivesUp, TakeDone, ReturnOnly, Return, TakeUndo
  <1>4. CASE TakeZstd(w)
    BY <1>4 DEF TakeZstd
  <1>5. CASE TakeZstdEnd(w)
    <2>1. \A v \in Workers : v # w => pc[v] \notin Locked
      BY <1>5 DEF TakeZstdEnd
    <2>2. LockInv' /\ RestoreInv'
      BY <1>5, <2>1 DEF TakeZstdEnd
    <2>3. CASE pc'[w] = "t_rename"
      <3>1. ts[w] \in Moments /\ img # NoFile /\ src[w] # NoFile /\ Damaged # NoFile
        BY <1>5 DEF TakeZstdEnd, Damaged, NoFile
      <3>2. tmp' = [tmp EXCEPT ![ts[w]] = IF img = src[w] THEN img ELSE Damaged]
        BY <1>5, <2>3 DEF TakeZstdEnd
      <3>3. tmp'[ts[w]] # NoFile /\ (img = src[w] => tmp'[ts[w]] = img)
        BY <3>1, <3>2
      <3> QED
        BY <1>5, <2>1, <2>2, <2>3, <3>1, <3>3 DEF TakeZstdEnd
    <2>4. CASE pc'[w] = "t_undo"
      BY <1>5, <2>1, <2>2, <2>4 DEF TakeZstdEnd
    <2> QED
      BY <1>5, <2>3, <2>4 DEF TakeZstdEnd
  <1>6. CASE TakeRename(w)
    BY <1>6 DEF TakeRename
  <1>7. CASE PruneList(w) \/ PruneOne(w)
    BY <1>7 DEF PruneList, PruneOne
  <1> QED
    BY <1>1, <1>2, <1>3, <1>4, <1>5, <1>6, <1>7 DEF TakeStep

\* A restore: the rename puts the original into the .bak, an abort takes it
\* back, and only a validated image replaces it.
LEMMA RestoreInvStep ==
  ASSUME ImagesInv, NEW w \in Workers, RestoreStep(w), TypeOK'
  PROVE  ImagesInv'
  <1> USE Kinds DEF TypeOK
  <1>1. CASE RestoreUmount(w)
    BY <1>1 DEF RestoreUmount
  <1>2. CASE \/ RestoreCheck(w) \/ RestoreFsck(w) \/ RestoreMount(w)
             \/ RestoreSanity(w)
    BY <1>2 DEF RestoreCheck, RestoreFsck, RestoreMount, RestoreSanity
  <1>3. CASE RestoreGivesUp(w)
    BY <1>3 DEF RestoreGivesUp, ReturnOnly, Return
  <1>4. CASE RestoreAside(w)
    <2>1. \A v \in Workers : v # w => pc[v] \notin Locked
      BY <1>4 DEF RestoreAside
    <2>2. LockInv' /\ TakeInv'
      BY <1>4, <2>1 DEF RestoreAside
    <2>3. CASE img # NoFile
      BY <1>4, <2>1, <2>2, <2>3 DEF RestoreAside
    <2>4. CASE img = NoFile
      BY <1>4, <2>1, <2>2, <2>4 DEF RestoreAside
    <2> QED
      BY <2>3, <2>4
  <1>5. CASE RestoreZstd(w) \/ RestoreZstdEnd(w)
    BY <1>5 DEF RestoreZstd, RestoreZstdEnd
  <1>6. CASE RestoreDrop(w)
    BY <1>6 DEF RestoreDrop, Return
  <1>7. CASE AbortRemove(w)
    BY <1>7 DEF AbortRemove
  <1>8. CASE AbortBack(w)
    BY <1>8 DEF AbortBack, Return
  <1> QED
    BY <1>1, <1>2, <1>3, <1>4, <1>5, <1>6, <1>7, <1>8 DEF RestoreStep

\* Purge, delete and wake.
LEMMA OtherInvStep ==
  ASSUME ImagesInv, NEW w \in Workers, OtherStep(w), TypeOK'
  PROVE  ImagesInv'
  <1> USE Kinds DEF TypeOK
  <1>1. CASE RemoveContainer(w) \/ WakeStart(w)
    BY <1>1 DEF RemoveContainer, WakeStart
  <1>2. CASE PurgeFiles(w)
    BY <1>2 DEF PurgeFiles
  <1>3. CASE RemoveRow(w) \/ WakeMark(w) \/ OtherFails(w)
    BY <1>3 DEF RemoveRow, WakeMark, OtherFails, ReturnOnly, Return
  <1> QED
    BY <1>1, <1>2, <1>3 DEF OtherStep

\* The container, the clock, crashes and the boot sweep.
LEMMA EnvironmentInv ==
  ASSUME ImagesInv, Environment, TypeOK'
  PROVE  ImagesInv'
  <1> USE Kinds DEF TypeOK
  <1>1. CASE ContainerStops \/ MarkStopped \/ Tick \/ Listen
    BY <1>1 DEF ContainerStops, MarkStopped, Tick, Listen
  <1>2. CASE ContainerWrites
    BY <1>2 DEF ContainerWrites
  <1>3. ASSUME NEW kind \in {"sandboxd", "host"}, Crash(kind) PROVE ImagesInv'
    BY <1>3 DEF Crash, Forget
  <1>4. ASSUME NEW t \in Moments, SweepTmp(t) PROVE ImagesInv'
    BY <1>4 DEF SweepTmp
  <1>5. ASSUME NEW t \in Moments, SweepBak(t) PROVE ImagesInv'
    BY <1>5 DEF SweepBak
  <1> QED
    BY <1>1, <1>2, <1>3, <1>4, <1>5 DEF Environment

\* The inductive invariant.
LEMMA InvHolds == Spec => []ImagesInv
  <1>1. Init => ImagesInv
    <2> SUFFICES ASSUME Init PROVE ImagesInv
      OBVIOUS
    <2>1. ver \in Contents /\ ver \in Nat
      BY DEF Init, Contents, Versions
    <2>2. TypeOK
      BY <2>1, Kinds DEF Init, TypeOK
    <2>3. LockInv /\ TakeInv /\ RestoreInv
      BY Kinds DEF Init
    <2> QED
      BY <2>2, <2>3
  <1>2. ImagesInv /\ [Next]_vars => ImagesInv'
    <2> SUFFICES ASSUME ImagesInv, [Next]_vars PROVE ImagesInv'
      OBVIOUS
    <2>1. CASE Next
      BY <2>1, TypeStep, RequestInv, TakeInvStep, RestoreInvStep,
         OtherInvStep, EnvironmentInv DEF Next
    <2>2. CASE UNCHANGED vars
      BY <2>2 DEF vars, TypeOK
    <2> QED
      BY <2>1, <2>2
  <1> QED
    BY <1>1, <1>2, PTL DEF Spec

\* Every reachable state of the files, the row and the workers is well typed
\* (the check's TypeOK, for any constants).
THEOREM TypeCorrect == Spec => []TypeOK
  BY InvHolds, PTL DEF ImagesInv

\* A restore that has not put a validated image in place loses nothing, for
\* any interleaving and any crash except one that leaves a partial image live
\* (restore.go's move aside, abort and SweepStale together).
THEOREM OriginalIsKept == Spec => []OriginalKept
  <1>1. ImagesInv => OriginalKept
    BY DEF OriginalKept
  <1> QED
    BY <1>1, InvHolds, PTL

\* The steps that touch snapshots under their final names.
LEMMA FewTouchSnapshots ==
  ASSUME Next
  PROVE  \/ UNCHANGED zst
         \/ \E w \in Workers : TakeRename(w) \/ PruneOne(w) \/ PurgeFiles(w)
  BY DEF Next, Request, TakeStep, RestoreStep, OtherStep,
         Environment, BeginTake, BeginOther, BeginRestore, Begin, TakeGivesUp,
         ReturnOnly, TakeCheck, TakeSync, TakeZstd, TakeZstdEnd, TakeUndo,
         PruneList, TakeDone, RestoreGivesUp, RestoreCheck, RestoreUmount,
         RestoreAside, RestoreZstd, RestoreZstdEnd, RestoreFsck, RestoreMount,
         RestoreSanity, RestoreDrop, AbortRemove, AbortBack, RemoveContainer,
         RemoveRow, WakeStart, WakeMark, OtherFails, ContainerStops,
         MarkStopped, ContainerWrites, Tick, Listen, Crash, SweepTmp, SweepBak

\* A snapshot never shows anything but the image it was taken of, whatever is
\* woken, stopped, restored or crashes around it, unless the container was running
\* behind its row already when the take looked.
THEOREM SnapshotsFaithful == Spec => SnapshotHoldsLiveImage
  <1> DEFINE Same == \A t \in Moments :
                       \/ zst'[t] \in {zst[t], NoFile, img}
                       \/ \E w \in misled : pc[w] = "t_rename" /\ ts[w] = t
  <1>1. ASSUME ImagesInv, [Next]_vars PROVE [Same]_vars
    <2>1. CASE UNCHANGED zst
      BY <2>1
    <2>2. ASSUME NEW w \in Workers,
                 TakeRename(w) \/ PruneOne(w) \/ PurgeFiles(w)
          PROVE  Same
      <3>1. CASE TakeRename(w)
        BY <1>1, <3>1 DEF TakeRename, TypeOK
      <3>2. CASE PruneOne(w)
        BY <1>1, <3>2 DEF PruneOne, TypeOK
      <3>3. CASE PurgeFiles(w)
        BY <3>3 DEF PurgeFiles
      <3> QED
        BY <2>2, <3>1, <3>2, <3>3
    <2>3. CASE Next
      BY <2>1, <2>2, <2>3, FewTouchSnapshots
    <2> QED
      BY <1>1, <2>1, <2>3 DEF vars
  <1> QED
    BY <1>1, InvHolds, PTL DEF Spec, SnapshotHoldsLiveImage
-----------------------------------------------------------------------------
(***************************************************************************)
(* The newest snapshot                                                     *)
(***************************************************************************)
\* Whatever a prune has still to remove is followed by a later snapshot.  This
\* lasts because a prune goes from the newest to the oldest.
PruneInv ==
  \A w \in Workers :
    pc[w] = "t_prune" => \A t \in doomed[w] : \E u \in Snapshots : u > t

NewestInv == ImagesInv /\ PruneInv

\* Steps that take no worker to its prune, and leave the snapshots alone or find
\* nobody there.
LEMMA PruneKept ==
  ASSUME PruneInv,
         \A v \in Workers :
           pc'[v] = "t_prune" => pc[v] = "t_prune" /\ doomed'[v] = doomed[v],
         \/ UNCHANGED zst
         \/ \A v \in Workers : pc'[v] # "t_prune"
  PROVE  PruneInv'
  BY DEF PruneInv, Snapshots

\* A take and its prune.
LEMMA TakePrune ==
  ASSUME NewestInv, NEW w \in Workers, TakeStep(w), TypeOK'
  PROVE  PruneInv'
  <1> USE DEF NewestInv, TypeOK
  <1>1. CASE TakeSync(w)
    BY <1>1, PruneKept DEF TakeSync
  <1>2. CASE TakeGivesUp(w) \/ TakeDone(w) \/ TakeUndo(w)
    BY <1>2, PruneKept DEF TakeGivesUp, TakeDone, ReturnOnly, Return, TakeUndo
  <1>3. CASE TakeZstd(w) \/ TakeZstdEnd(w)
    BY <1>3, PruneKept DEF TakeZstd, TakeZstdEnd
  <1>4. CASE TakeCheck(w)
    BY <1>4 DEF TakeCheck, PruneInv, Snapshots
  <1>5. CASE TakeRename(w)
    <2>1. \A v \in Workers : v # w => pc[v] \notin Locked
      BY <1>5 DEF TakeRename
    <2> QED
      BY <1>5, <2>1 DEF TakeRename, PruneInv, Snapshots
  <1>6. CASE PruneList(w)
    BY <1>6 DEF PruneList, PruneInv, PastRetention, Snapshots
  <1>7. CASE PruneOne(w)
    <2>1. \A v \in Workers : v # w => pc[v] \notin Locked
      BY <1>7 DEF PruneOne
    <2>2. PICK t \in doomed[w] :
            /\ \A u \in doomed[w] : u <= t
            /\ doomed' = [doomed EXCEPT ![w] = @ \ {t}]
            /\ zst' = [zst EXCEPT ![t] = NoFile] \/ UNCHANGED zst
      BY <1>7 DEF PruneOne
    <2>3. PICK u \in Snapshots : u > t
      BY <1>7, <2>2 DEF PruneOne, PruneInv
    <2>4. t \in Nat /\ u \in Nat /\ doomed[w] \subseteq Nat
      BY <2>2, <2>3 DEF Moments, Snapshots
    <2>5. u \in Snapshots'
      BY <2>2, <2>3, <2>4 DEF Snapshots
    <2>6. \A s \in doomed'[w] : s \in Nat /\ u > s
      BY <2>2, <2>3, <2>4
    <2> QED
      BY <1>7, <2>1, <2>5, <2>6 DEF PruneOne, PruneInv
  <1> QED
    BY <1>1, <1>2, <1>3, <1>4, <1>5, <1>6, <1>7 DEF TakeStep

\* Restores, purges, deletes and wakes: the lock keeps takes out.
LEMMA OthersPrune ==
  ASSUME NewestInv, NEW w \in Workers, RestoreStep(w) \/ OtherStep(w), TypeOK'
  PROVE  PruneInv'
  <1> USE DEF NewestInv, TypeOK
  <1>2. ASSUME pc[w] \in RestoreSteps \cup OtherSteps
        PROVE  \A v \in Workers : v # w => pc[v] \notin Locked
    BY <1>2
  <1>3. CASE RestoreStep(w)
    <2>1. pc[w] \in RestoreSteps /\ pc'[w] \notin TakeSteps
          /\ \A v \in Workers : v # w => pc'[v] = pc[v]
      BY <1>3 DEF RestoreStep, RestoreGivesUp, RestoreCheck, RestoreUmount,
                  RestoreAside, RestoreZstd, RestoreZstdEnd, RestoreFsck,
                  RestoreMount, RestoreSanity, RestoreDrop, AbortRemove,
                  AbortBack, ReturnOnly, Return
    <2> QED
      BY <1>2, <2>1 DEF PruneInv
  <1>4. CASE OtherStep(w)
    <2>1. pc[w] \in OtherSteps /\ pc'[w] \notin TakeSteps
          /\ \A v \in Workers : v # w => pc'[v] = pc[v]
      BY <1>4 DEF OtherStep, RemoveContainer, PurgeFiles, RemoveRow, WakeStart,
                  WakeMark, OtherFails, ReturnOnly, Return
    <2> QED
      BY <1>2, <2>1 DEF PruneInv
  <1> QED
    BY <1>3, <1>4

\* The container, the clock, crashes and the boot sweep.
LEMMA EnvironmentPrune ==
  ASSUME NewestInv, Environment, TypeOK'
  PROVE  PruneInv'
  <1> USE DEF NewestInv, TypeOK
  <1>1. CASE ContainerStops \/ MarkStopped \/ Tick \/ Listen
    BY <1>1, PruneKept DEF ContainerStops, MarkStopped, Tick, Listen
  <1>2. CASE ContainerWrites
    <2>1. img' # NoFile
      BY <1>2, Kinds DEF ContainerWrites
    <2> QED
      BY <1>2, <2>1 DEF ContainerWrites, PruneInv, Snapshots
  <1>3. ASSUME NEW kind \in {"sandboxd", "host"}, Crash(kind) PROVE PruneInv'
    BY <1>3 DEF Crash, Forget, PruneInv
  <1>4. ASSUME NEW t \in Moments, SweepTmp(t) \/ SweepBak(t) PROVE PruneInv'
    BY <1>4, PruneKept DEF SweepTmp, SweepBak
  <1> QED
    BY <1>1, <1>2, <1>3, <1>4 DEF Environment

\* A prune never comes to the last snapshot.
LEMMA NewestHolds == Spec => []NewestInv
  <1>1. Init => PruneInv
    BY DEF Init, PruneInv
  <1>2. NewestInv /\ ImagesInv' /\ [Next]_vars => NewestInv'
    <2> SUFFICES ASSUME NewestInv, ImagesInv', [Next]_vars PROVE PruneInv'
      BY DEF NewestInv
    <2>1. ASSUME NEW w \in Workers, Request(w) PROVE PruneInv'
      BY <2>1, PruneKept DEF NewestInv, TypeOK, Request, BeginTake, BeginOther,
         BeginRestore, Begin
    <2>2. CASE UNCHANGED vars
      BY <2>2 DEF vars, NewestInv, PruneInv, Snapshots
    <2> QED
      BY <2>1, <2>2, TakePrune, OthersPrune, EnvironmentPrune DEF Next
  <1> QED
    BY <1>1, <1>2, InvHolds, PTL DEF Spec, NewestInv

\* prune.go:13: only a purge removes the last snapshot; retention, a failed
\* take, a restore and the boot sweep leave it.
THEOREM NewestStays == Spec => NewestSnapshotStays
  <1> DEFINE Stays == \A t \in Snapshots :
                        \/ zst'[t] # NoFile
                        \/ \E u \in Snapshots : u > t /\ zst'[u] # NoFile
                        \/ \E w \in Workers : pc[w] = "p_files"
  <1>1. ASSUME NewestInv, [Next]_vars PROVE [Stays]_vars
    <2> USE <1>1 DEF NewestInv
    <2>1. CASE UNCHANGED zst
      BY <2>1 DEF Snapshots
    <2>2. ASSUME NEW w \in Workers, TakeRename(w) PROVE Stays
      BY <2>2 DEF TakeRename, PruneInv, TypeOK, Snapshots
    <2>3. ASSUME NEW w \in Workers, PruneOne(w) PROVE Stays
      <3>1. PICK t \in doomed[w] :
              zst' = [zst EXCEPT ![t] = NoFile] \/ UNCHANGED zst
        BY <2>3 DEF PruneOne
      <3>2. PICK u \in Snapshots : u > t
        BY <2>3, <3>1 DEF PruneOne, PruneInv
      <3>3. t \in Nat /\ u \in Nat /\ t \in Moments
        BY <3>1, <3>2 DEF TypeOK, Moments, Snapshots
      <3>4. zst'[u] # NoFile /\ \A s \in Snapshots : s # t => zst'[s] # NoFile
        BY <3>1, <3>2, <3>3 DEF TypeOK, Snapshots
      <3> QED
        BY <3>2, <3>4
    <2>4. ASSUME NEW w \in Workers, PurgeFiles(w) PROVE Stays
      BY <2>4 DEF PurgeFiles
    <2>5. CASE Next
      BY <2>1, <2>2, <2>3, <2>4, <2>5, FewTouchSnapshots
    <2> QED
      BY <1>1, <2>1, <2>5 DEF vars
  <1> QED
    BY <1>1, NewestHolds, PTL DEF Spec, NewestSnapshotStays
=============================================================================
