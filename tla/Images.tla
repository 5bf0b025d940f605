------------------------------- MODULE Images -------------------------------
(***************************************************************************)
(* The files behind one sandbox's snapshots (internal/snapshot): the live  *)
(* image <id>.img, the compressed snapshots <ts>.img.zst with their        *)
(* sidecars, the .tmp a snapshot is written to and the .bak-<time> a       *)
(* restore moves the live image to.  Take, Restore, the auto-snapshotter,  *)
(* wake, delete and purge run in workers (goroutines) that serialise on    *)
(* the id lock; one action is one file operation or one external command,  *)
(* and sandboxd or the host may stop between any two.                      *)
(*                                                                         *)
(* The layout is the one the package is written for: workspaces kept as    *)
(* image files.  The portable build provisions directories and does not    *)
(* start the auto-snapshotter; the manual endpoints and the boot sweep are *)
(* wired in it.                                                            *)
(*                                                                         *)
(* Simplifications.  The content of an image is a version number: the      *)
(* container makes a new version when it writes.  Time is a counter of     *)
(* moments; a snapshot or .bak is named after the moment it is made.  A    *)
(* request that waits for the lock is not shown.  Any number of stoppers   *)
(* is taken as one, which may still have to mark the row of a container it *)
(* has stopped.  A deleted sandbox is not created again (see Lifecycle and *)
(* Ownership).                                                             *)
(***************************************************************************)
EXTENDS Naturals, FiniteSets

CONSTANTS
  Workers,      \* goroutines
  NoWorker,     \* "nobody"
  Retention,    \* RetentionDays, in moments
  MaxTime,      \* bound: the last moment considered
  MaxVersion,   \* bound: versions the container writes
  Crashes       \* what may crash: "sandboxd" (a process), "host" (power)

ASSUME ImagesAssumption ==
  /\ NoWorker \notin Workers
  /\ Retention \in Nat
  /\ MaxTime \in Nat
  /\ MaxVersion \in Nat
  /\ Crashes \subseteq {"sandboxd", "host"}

Moments  == 0 .. MaxTime
Versions == 1 .. MaxVersion
NoTime   == MaxTime + 1
NoFile   == 0                      \* the file does not exist
Damaged  == MaxVersion + 1         \* it exists and holds part of an image
Contents == 0 .. MaxVersion + 1

Whole(c) == c \in Versions

VARIABLES
  now,      \* the clock
  img,      \* the live image
  mounted,  \* img is mounted
  bak,      \* bak[t]: the image moved aside at moment t
  tmp,      \* tmp[t]: <t>.img.zst.tmp
  zst,      \* zst[t]: the snapshot <t>.img.zst
  row,      \* the sandbox's row: "none", "stopped" or "running"
  ctr,      \* the container: "gone", "down", "up", or "apart": it runs, on a
            \* file system that is not, or no longer, the live image
  halted,   \* a stopper has stopped the container and not yet marked the row
  ver,      \* the newest version the container has written
  lock,     \* holder of the id lock
  pc,       \* pc[w]: the next step of worker w
  ts,       \* ts[w]: the snapshot w takes or restores
  src,      \* src[w]: the version zstd reads
  aside,    \* aside[w]: the .bak w made, NoTime for none
  doomed,   \* doomed[w]: snapshots w has still to prune
  misled,   \* history: workers whose take saw a stopped row, or none, while
            \* the container ran
  phase,    \* "up", or "boot" before the listener opens
  unswept,  \* .tmp and .bak files the boot sweep has not looked at
  orig,     \* history: what the last restore not completed moved aside
  cut       \* history: a crash, or a failing remove, left the image a
            \* restore was writing

files  == <<img, mounted, bak, tmp, zst>>
sandbox == <<row, ctr, halted>>
locals == <<ts, src, aside, doomed, misled>>
boot   == <<phase, unswept>>
history == <<orig, cut>>
vars   == <<now, img, mounted, bak, tmp, zst, row, ctr, halted, ver, lock,
            pc, ts, src, aside, doomed, misled, phase, unswept, orig, cut>>

TakeSteps    == {"t_check", "t_sync", "t_zstd", "t_zstd_end", "t_rename",
                 "t_list", "t_prune", "t_undo"}
RestoreSteps == {"r_check", "r_umount", "r_aside", "r_zstd", "r_zstd_end",
                 "r_fsck", "r_mount", "r_sanity", "r_drop", "r_remove",
                 "r_back"}
OtherSteps   == {"p_stop", "p_files", "p_row", "d_stop", "d_row", "w_start",
                 "w_mark"}
Steps  == {"idle"} \cup TakeSteps \cup RestoreSteps \cup OtherSteps
Locked == TakeSteps \cup RestoreSteps \cup OtherSteps

Snapshots == {t \in Moments : zst[t] # NoFile}

Still == ctr \in {"gone", "down"}

-----------------------------------------------------------------------------
Goto(w, step) == pc' = [pc EXCEPT ![w] = step]

\* Return with the deferred Unlock.
Return(w) ==
  /\ lock' = NoWorker
  /\ Goto(w, "idle")
  /\ ts' = [ts EXCEPT ![w] = NoTime]
  /\ src' = [src EXCEPT ![w] = NoFile]
  /\ aside' = [aside EXCEPT ![w] = NoTime]
  /\ doomed' = [doomed EXCEPT ![w] = {}]
  /\ misled' = misled \ {w}

ReturnOnly(w) == Return(w) /\ UNCHANGED <<now, files, sandbox, ver, boot, history>>

Step(w, from, to) == pc[w] = from /\ Goto(w, to)

\* Mutant of Begin: the lock is taken without waiting for its holder.
BeginBarging(w, step, t) ==
  /\ phase = "up"
  /\ pc[w] = "idle"
  /\ lock' = w
  /\ Goto(w, step)
  /\ ts' = [ts EXCEPT ![w] = t]
  /\ UNCHANGED <<now, files, sandbox, ver, src, aside, doomed, misled, boot,
                 history>>

\* A request has waited for the lock, which is the first thing it does.
Begin(w, step, t) ==
  /\ phase = "up"
  /\ pc[w] = "idle"
  /\ lock = NoWorker
  /\ lock' = w
  /\ Goto(w, step)
  /\ ts' = [ts EXCEPT ![w] = t]
  /\ UNCHANGED <<now, files, sandbox, ver, src, aside, doomed, misled, boot,
                 history>>

-----------------------------------------------------------------------------
(***************************************************************************)
(* Take (take.go), with the prune it ends with (prune.go)                  *)
(***************************************************************************)
\* A request, or the hourly tick.  The tick looks for stopped rows without a
\* snapshot of today before it takes the lock, so that by now neither need hold.
BeginTake(w) == Begin(w, "t_check", NoTime)

\* No image, a running row, or an error of the store, of mkdir or of stat.
TakeGivesUp(w) ==
  /\ pc[w] \in {"t_check", "t_zstd", "t_list"}
  /\ ReturnOnly(w)

\* Docker is not asked, so that a row that is behind misleads the take.
TakeCheck(w) ==
  /\ Step(w, "t_check", "t_sync")
  /\ img # NoFile
  /\ row # "running"
  /\ misled' = IF Still THEN misled ELSE misled \cup {w}
  /\ UNCHANGED <<now, files, sandbox, ver, lock, ts, src, aside, doomed, boot,
                 history>>

\* sync(1), and the name of the snapshot.  (What the page cache has not
\* written at a host crash is not modelled.)
TakeSync(w) ==
  /\ Step(w, "t_sync", "t_zstd")
  /\ ts' = [ts EXCEPT ![w] = now]
  /\ UNCHANGED <<now, img, mounted, bak, tmp, zst, sandbox, ver, lock, src,
                 aside, doomed, misled, boot, history>>

\* Mutant of TakeZstd: zstd writes straight to the final name.
TakeZstdInPlace(w) ==
  /\ Step(w, "t_zstd", "t_zstd_end")
  /\ zst' = [zst EXCEPT ![ts[w]] = Damaged]
  /\ src' = [src EXCEPT ![w] = img]
  /\ UNCHANGED <<now, img, mounted, bak, tmp, sandbox, ver, lock,
                 ts, aside, doomed, misled, boot, history>>

\* zstd runs: -f overwrites a .tmp left by a crash.
TakeZstd(w) ==
  /\ Step(w, "t_zstd", "t_zstd_end")
  /\ tmp' = [tmp EXCEPT ![ts[w]] = Damaged]
  /\ src' = [src EXCEPT ![w] = img]
  /\ UNCHANGED <<now, img, mounted, bak, zst, sandbox, ver, lock,
                 ts, aside, doomed, misled, boot, history>>

\* zstd and the fsync of the .tmp end, or either fails.  Had the image changed
\* under zstd, the copy would be a mixture.
TakeZstdEnd(w) ==
  /\ \/ /\ Step(w, "t_zstd_end", "t_rename")
        /\ tmp' = [tmp EXCEPT ![ts[w]] = IF img = src[w] THEN img ELSE Damaged]
     \/ /\ Step(w, "t_zstd_end", "t_undo")
        /\ UNCHANGED tmp
  /\ UNCHANGED <<now, img, mounted, bak, zst, sandbox, ver, lock,
                 locals, boot, history>>

TakeRename(w) ==
  /\ \/ /\ Step(w, "t_rename", "t_list")
        /\ zst' = [zst EXCEPT ![ts[w]] = tmp[ts[w]]]
        /\ tmp' = [tmp EXCEPT ![ts[w]] = NoFile]
     \/ /\ Step(w, "t_rename", "t_undo")
        /\ UNCHANGED <<zst, tmp>>
  /\ UNCHANGED <<now, img, mounted, bak, sandbox, ver, lock, locals,
                 boot, history>>

\* An error removes the .tmp.
TakeUndo(w) ==
  /\ pc[w] = "t_undo"
  /\ tmp' = [tmp EXCEPT ![ts[w]] = NoFile]
  /\ Return(w)
  /\ UNCHANGED <<now, img, mounted, bak, zst, sandbox, ver, boot,
                 history>>

\* Mutant of PastRetention: the newest snapshot is not spared.
PastRetentionAll == {t \in Snapshots : t + Retention < now}

\* tss[1:], the ones before the cutoff.
PastRetention ==
  {t \in Snapshots : t + Retention < now /\ \E u \in Snapshots : u > t}

\* The sidecar is written, which only the listing reads, and the prune begins.
PruneList(w) ==
  /\ Step(w, "t_list", "t_prune")
  /\ doomed' = [doomed EXCEPT ![w] = PastRetention]
  /\ UNCHANGED <<now, files, sandbox, ver, lock, ts, src, aside, misled, boot,
                 history>>

\* One past-retention snapshot with its sidecar, newest first; errors are
\* ignored.
PruneOne(w) ==
  /\ pc[w] = "t_prune"
  /\ \E t \in doomed[w] :
       /\ \A u \in doomed[w] : u <= t
       /\ doomed' = [doomed EXCEPT ![w] = @ \ {t}]
       /\ zst' = [zst EXCEPT ![t] = NoFile] \/ UNCHANGED zst
  /\ UNCHANGED <<now, img, mounted, bak, tmp, sandbox, ver, lock, pc, ts,
                 src, aside, misled, boot, history>>

TakeDone(w) == pc[w] = "t_prune" /\ doomed[w] = {} /\ ReturnOnly(w)

-----------------------------------------------------------------------------
(***************************************************************************)
(* Restore (restore.go)                                                    *)
(***************************************************************************)
BeginRestore(w, t) == Begin(w, "r_check", t)

\* No such snapshot, a running row or a store error; a failing umount; a
\* failing rename.  Nothing has changed on disk but perhaps the mount.
RestoreGivesUp(w) ==
  /\ \/ pc[w] = "r_check"
     \/ pc[w] = "r_umount" /\ mounted
     \/ pc[w] = "r_aside" /\ img # NoFile
  /\ ReturnOnly(w)

RestoreCheck(w) ==
  /\ Step(w, "r_check", "r_umount")
  /\ zst[ts[w]] # NoFile
  /\ row # "running"
  /\ UNCHANGED <<now, files, sandbox, ver, lock, locals, boot, history>>

\* A container still running keeps the file system it has mounted, whatever
\* becomes of its file.
RestoreUmount(w) ==
  /\ Step(w, "r_umount", "r_aside")
  /\ mounted' = FALSE
  /\ ctr' = IF ctr = "up" THEN "apart" ELSE ctr
  /\ UNCHANGED <<now, img, bak, tmp, zst, row, halted, ver, lock,
                 locals, boot, history>>

\* The live image is moved aside, if there is one.
RestoreAside(w) ==
  /\ Step(w, "r_aside", "r_zstd")
  /\ \/ /\ img # NoFile
        /\ bak' = [bak EXCEPT ![now] = img]
        /\ img' = NoFile
        /\ aside' = [aside EXCEPT ![w] = now]
        /\ orig' = img
     \/ /\ img = NoFile
        /\ UNCHANGED <<bak, img, aside, orig>>
  /\ UNCHANGED <<now, mounted, tmp, zst, sandbox, ver, lock, ts, src,
                 doomed, misled, boot, cut>>

RestoreZstd(w) ==
  /\ Step(w, "r_zstd", "r_zstd_end")
  /\ img' = Damaged
  /\ UNCHANGED <<now, mounted, bak, tmp, zst, sandbox, ver, lock, locals,
                 boot, history>>

RestoreZstdEnd(w) ==
  /\ \/ /\ Step(w, "r_zstd_end", "r_fsck")
        /\ img' = zst[ts[w]]
     \/ /\ Step(w, "r_zstd_end", "r_remove")
        /\ UNCHANGED img
  /\ UNCHANGED <<now, mounted, bak, tmp, zst, sandbox, ver, lock,
                 locals, boot, history>>

\* fsck.ext4 -n: only a whole image can pass.
RestoreFsck(w) ==
  /\ \/ Step(w, "r_fsck", "r_mount") /\ Whole(img)
     \/ Step(w, "r_fsck", "r_remove")
  /\ UNCHANGED <<now, files, sandbox, ver, lock, locals, boot, history>>

RestoreMount(w) ==
  /\ \/ Step(w, "r_mount", "r_sanity") /\ mounted' = TRUE
     \/ Step(w, "r_mount", "r_remove") /\ UNCHANGED mounted
  /\ UNCHANGED <<now, img, bak, tmp, zst, sandbox, ver, lock,
                 locals, boot, history>>

\* /opt/sandbox-skel at the mount root: umount, which may fail, and abort.
RestoreSanity(w) ==
  /\ \/ Step(w, "r_sanity", "r_drop") /\ UNCHANGED mounted
     \/ Step(w, "r_sanity", "r_remove") /\ mounted' \in BOOLEAN
  /\ UNCHANGED <<now, img, bak, tmp, zst, sandbox, ver, lock,
                 locals, boot, history>>

\* The image is validated: the .bak goes (or stays, if the remove fails).
RestoreDrop(w) ==
  /\ pc[w] = "r_drop"
  /\ \/ aside[w] # NoTime /\ bak' = [bak EXCEPT ![aside[w]] = NoFile]
     \/ UNCHANGED bak
  /\ orig' = NoFile
  /\ Return(w)
  /\ UNCHANGED <<now, img, mounted, tmp, zst, sandbox, ver, boot,
                 cut>>

\* abort: the partial image is removed, or left if that fails; then the .bak
\* is moved back, if there is one and the rename succeeds.
AbortRemove(w) ==
  /\ Step(w, "r_remove", "r_back")
  /\ \/ img' = NoFile /\ UNCHANGED cut
     \/ UNCHANGED img /\ cut' = TRUE
  /\ UNCHANGED <<now, mounted, bak, tmp, zst, sandbox, ver, lock,
                 locals, boot, orig>>

\* Mutant of AbortBack: the .bak is dropped instead of moved back.
AbortBackForgets(w) ==
  /\ pc[w] = "r_back"
  /\ bak' = IF aside[w] = NoTime THEN bak
            ELSE [bak EXCEPT ![aside[w]] = NoFile]
  /\ Return(w)
  /\ UNCHANGED <<now, img, mounted, tmp, zst, sandbox, ver, boot,
                 history>>

AbortBack(w) ==
  /\ pc[w] = "r_back"
  /\ \/ UNCHANGED <<img, bak>>
     \/ /\ aside[w] # NoTime
        /\ img' = bak[aside[w]]
        /\ bak' = [bak EXCEPT ![aside[w]] = NoFile]
  /\ Return(w)
  /\ UNCHANGED <<now, mounted, tmp, zst, sandbox, ver, boot,
                 history>>

-----------------------------------------------------------------------------
(***************************************************************************)
(* The other operations on the same files and row                          *)
(***************************************************************************)
BeginOther(w) ==
  \/ Begin(w, "p_stop", NoTime)
  \/ Begin(w, "d_stop", NoTime)
  \/ Begin(w, "w_start", NoTime)

\* purgeOne and handleDelete remove the container first.
RemoveContainer(w) ==
  /\ Step(w, "p_stop", "p_files") \/ Step(w, "d_stop", "d_row")
  /\ ctr' = "gone"
  /\ UNCHANGED <<now, files, row, halted, ver, lock, locals, boot, history>>

\* purgeOne: RemoveAll of the snapshots directory; the workspace it removes
\* before that is the directory, not the image.
PurgeFiles(w) ==
  /\ Step(w, "p_files", "p_row")
  /\ zst' = [t \in Moments |-> NoFile]
  /\ tmp' = [t \in Moments |-> NoFile]
  /\ UNCHANGED <<now, img, mounted, bak, sandbox, ver, lock, locals, boot,
                 history>>

\* PurgeSandbox, or the Delete of handleDelete: the row goes.
RemoveRow(w) ==
  /\ pc[w] \in {"p_row", "d_row"}
  /\ row' = "none"
  /\ Return(w)
  /\ UNCHANGED <<now, files, ctr, halted, ver, boot, history>>

\* Wake: docker start of a stopped sandbox, whatever its image holds ...
WakeStart(w) ==
  /\ Step(w, "w_start", "w_mark")
  /\ row = "stopped" /\ ctr # "gone"
  /\ ctr' = IF Still THEN (IF mounted THEN "up" ELSE "apart") ELSE ctr
  /\ UNCHANGED <<now, files, row, halted, ver, lock, locals, boot, history>>

\* Mutant of WakeMark: the row gets a status the schema does not have.
WakeMarkUnknown(w) ==
  /\ pc[w] = "w_mark"
  /\ row' = "waking"
  /\ Return(w)
  /\ UNCHANGED <<now, files, ctr, halted, ver, boot, history>>

\* ... and MarkRunningWoke, several calls later.
WakeMark(w) ==
  /\ pc[w] = "w_mark"
  /\ row' = "running"
  /\ Return(w)
  /\ UNCHANGED <<now, files, ctr, halted, ver, boot, history>>

\* Docker, the file system or the store fails, or the row is not one to wake.
\* What has been done stays done: a container started by a wake that fails
\* afterwards runs behind a stopped row.
OtherFails(w) ==
  /\ pc[w] \in OtherSteps
  /\ ReturnOnly(w)

\* A stopper that once saw the row running, or the container's own end.
\* Neither takes the lock.
ContainerStops ==
  /\ phase = "up"
  /\ ctr' = IF Still THEN ctr ELSE "down"
  /\ halted' \in {halted, row # "none"}
  /\ UNCHANGED <<now, files, row, ver, lock, pc, locals, boot, history>>

\* MarkStoppedAt, still without the lock and whatever has happened since; it
\* may fail, and another stopper may be about to do the same.
MarkStopped ==
  /\ halted
  /\ row' \in {row, IF row = "none" THEN "none" ELSE "stopped"}
  /\ halted' \in BOOLEAN
  /\ UNCHANGED <<now, files, ctr, ver, lock, pc, locals, boot, history>>

\* The container writes to its workspace, the mounted image.
ContainerWrites ==
  /\ ctr = "up" /\ Whole(img)
  /\ ver < MaxVersion
  /\ ver' = ver + 1
  /\ img' = ver + 1
  /\ orig' = NoFile
  /\ UNCHANGED <<now, mounted, bak, tmp, zst, sandbox, lock, pc,
                 locals, boot, cut>>

Tick ==
  /\ now < MaxTime
  /\ now' = now + 1
  /\ UNCHANGED <<files, sandbox, ver, lock, pc, locals, boot, history>>

-----------------------------------------------------------------------------
(***************************************************************************)
(* Crashes and the boot sweep                                              *)
(***************************************************************************)
Forget ==
  /\ lock' = NoWorker
  /\ pc' = [w \in Workers |-> "idle"]
  /\ ts' = [w \in Workers |-> NoTime]
  /\ src' = [w \in Workers |-> NoFile]
  /\ aside' = [w \in Workers |-> NoTime]
  /\ doomed' = [w \in Workers |-> {}]
  /\ misled' = {}

\* Both files of SweepStale that end in .tmp or carry .bak-.
Debris == {<<"tmp", t>> : t \in {u \in Moments : tmp[u] # NoFile}}
            \cup {<<"bak", t>> : t \in {u \in Moments : bak[u] # NoFile}}

\* The steps of a restore whose live image is the one it makes.
WritesLive == {"r_zstd_end", "r_fsck", "r_mount", "r_sanity", "r_drop",
               "r_remove"}

\* sandboxd goes down; with the host, also the container and the mount.  At
\* boot the row is set to what Docker says, unless a call fails.
Crash(kind) ==
  /\ kind \in Crashes
  /\ phase = "up"
  /\ Forget
  /\ phase' = "boot"
  /\ unswept' = Debris
  /\ cut' = (cut \/ \E w \in Workers : pc[w] \in WritesLive)
  /\ \/ kind = "sandboxd" /\ UNCHANGED <<mounted, ctr>>
     \/ /\ kind = "host"
        /\ mounted' = FALSE
        /\ ctr' = IF Still THEN ctr ELSE "down"
  /\ row' \in {row, IF row = "none" THEN "none"
                    ELSE IF Still' THEN "stopped" ELSE "running"}
  /\ halted' = FALSE
  /\ UNCHANGED <<now, img, bak, tmp, zst, ver, orig>>

SweepTmp(t) ==
  /\ phase = "boot"
  /\ <<"tmp", t>> \in unswept
  /\ unswept' = unswept \ {<<"tmp", t>>}
  /\ tmp' = [tmp EXCEPT ![t] = NoFile]
  /\ UNCHANGED <<now, img, mounted, bak, zst, sandbox, ver, lock,
                 pc, locals, phase, history>>

\* Mutant of SweepBak: every .bak is debris.
SweepBakAlways(t) ==
  /\ phase = "boot"
  /\ <<"bak", t>> \in unswept
  /\ unswept' = unswept \ {<<"bak", t>>}
  /\ bak' = [bak EXCEPT ![t] = NoFile]
  /\ UNCHANGED <<now, img, mounted, tmp, zst, sandbox, ver, lock,
                 pc, locals, phase, history>>

\* A .bak is removed when a live image exists, and kept otherwise.
SweepBak(t) ==
  /\ phase = "boot"
  /\ <<"bak", t>> \in unswept
  /\ unswept' = unswept \ {<<"bak", t>>}
  /\ bak' = IF img # NoFile THEN [bak EXCEPT ![t] = NoFile] ELSE bak
  /\ UNCHANGED <<now, img, mounted, tmp, zst, sandbox, ver, lock,
                 pc, locals, phase, history>>

Listen ==
  /\ phase = "boot"
  /\ unswept = {}
  /\ phase' = "up"
  /\ UNCHANGED <<now, files, sandbox, ver, lock, pc, locals, unswept, history>>

-----------------------------------------------------------------------------
\* A stopped sandbox at any moment, whose image holds any version.
Init ==
  /\ now \in Moments
  /\ ver \in Versions
  /\ img = ver /\ mounted = TRUE
  /\ bak = [t \in Moments |-> NoFile]
  /\ tmp = [t \in Moments |-> NoFile]
  /\ zst = [t \in Moments |-> NoFile]
  /\ row = "stopped" /\ ctr = "down" /\ halted = FALSE
  /\ lock = NoWorker
  /\ pc = [w \in Workers |-> "idle"]
  /\ ts = [w \in Workers |-> NoTime]
  /\ src = [w \in Workers |-> NoFile]
  /\ aside = [w \in Workers |-> NoTime]
  /\ doomed = [w \in Workers |-> {}]
  /\ misled = {}
  /\ phase = "up"
  /\ unswept = {}
  /\ orig = NoFile
  /\ cut = FALSE

Request(w) ==
  \/ BeginTake(w) \/ BeginOther(w)
  \/ \E t \in Moments : BeginRestore(w, t)

TakeStep(w) ==
  \/ TakeGivesUp(w) \/ TakeCheck(w) \/ TakeSync(w)
  \/ TakeZstd(w) \/ TakeZstdEnd(w) \/ TakeRename(w)
  \/ TakeUndo(w) \/ PruneList(w) \/ PruneOne(w) \/ TakeDone(w)

RestoreStep(w) ==
  \/ RestoreGivesUp(w) \/ RestoreCheck(w)
  \/ RestoreUmount(w) \/ RestoreAside(w)
  \/ RestoreZstd(w) \/ RestoreZstdEnd(w) \/ RestoreFsck(w) \/ RestoreMount(w)
  \/ RestoreSanity(w) \/ RestoreDrop(w) \/ AbortRemove(w) \/ AbortBack(w)

OtherStep(w) ==
  \/ RemoveContainer(w) \/ PurgeFiles(w) \/ RemoveRow(w)
  \/ WakeStart(w) \/ WakeMark(w) \/ OtherFails(w)

Environment ==
  \/ ContainerStops \/ MarkStopped \/ ContainerWrites \/ Tick \/ Listen
  \/ \E kind \in {"sandboxd", "host"} : Crash(kind)
  \/ \E t \in Moments : SweepTmp(t) \/ SweepBak(t)

Next ==
  \/ \E w \in Workers :
       Request(w) \/ TakeStep(w) \/ RestoreStep(w) \/ OtherStep(w)
  \/ Environment

Spec == Init /\ [][Next]_vars
-----------------------------------------------------------------------------
(***************************************************************************)
(* Properties                                                              *)
(***************************************************************************)
\* Every variable has its type.
TypeOK ==
  /\ now \in Moments
  /\ img \in Contents
  /\ mounted \in BOOLEAN
  /\ bak \in [Moments -> Contents]
  /\ tmp \in [Moments -> Contents]
  /\ zst \in [Moments -> Contents]
  /\ row \in {"none", "stopped", "running"}
  /\ ctr \in {"gone", "down", "up", "apart"}
  /\ halted \in BOOLEAN
  /\ ver \in Nat
  /\ lock \in Workers \cup {NoWorker}
  /\ pc \in [Workers -> Steps]
  /\ ts \in [Workers -> Moments \cup {NoTime}]
  /\ src \in [Workers -> Contents]
  /\ aside \in [Workers -> Moments \cup {NoTime}]
  /\ doomed \in [Workers -> SUBSET Moments]
  /\ misled \subseteq Workers
  /\ phase \in {"up", "boot"}
  /\ unswept \in SUBSET ({"tmp", "bak"} \X Moments)
  /\ orig \in Contents
  /\ cut \in BOOLEAN

\* A snapshot appears under its final name only with exactly what the live
\* image holds then: no mixture of two versions, no half-written file, although
\* wakes, restores and crashes may come at any moment (take.go:23 "so it cannot
\* race a wake").  The one exception is a take that the row misled: the container
\* was already running when the take looked, since a wake had failed after its
\* docker start, a stopper had marked the row late, or the boot had not put it
\* right.
SnapshotHoldsLiveImage ==
  [][\A t \in Moments :
       \/ zst'[t] \in {zst[t], NoFile, img}
       \/ \E w \in misled : pc[w] = "t_rename" /\ ts[w] = t]_vars

\* The newest snapshot disappears only with a purge: neither retention, nor
\* a failed take, nor the boot sweep removes it (prune.go:13 "never delete
\* the last surviving snapshot").
NewestSnapshotStays ==
  [][\A t \in Snapshots :
       \/ zst'[t] # NoFile
       \/ \E u \in Snapshots : u > t /\ zst'[u] # NoFile
       \/ \E w \in Workers : pc[w] = "p_files"]_vars

\* An image a restore has moved aside and not replaced by a validated one
\* is the live image or is kept in a .bak: after every abort, and after any
\* crash, but for one that leaves a partial image live: a crash while the new
\* image is being written, or an abort that cannot remove it.
OriginalKept ==
  orig # NoFile /\ ~cut => orig = img \/ \E t \in Moments : bak[t] = orig

\* restore.go:31: "An interrupted restore is recoverable from the `.bak`."
InterruptedRestoreRecoverable ==
  orig # NoFile => orig = img \/ \E t \in Moments : bak[t] = orig
=============================================================================
