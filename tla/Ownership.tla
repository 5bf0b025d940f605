----------------------------- MODULE Ownership ------------------------------
(***************************************************************************)
(* Who a sandbox id and the files behind it belong to: the sandbox row,    *)
(* the durable workspace_owner row, the workspace directory, the snapshots *)
(* and the container, as handleCreate, v1CreateSandbox, handleDelete,      *)
(* purgeOne, purgeScope and handleClaim change them one call at a time.    *)
(* An id outlives its row: DELETE keeps workspace and owner for a later    *)
(* create, and only a purge removes them.                                  *)
(*                                                                         *)
(* Create takes no per-id lock.  What the code promises of ownership is    *)
(* stated for clients that keep the removals and claims of an id apart     *)
(* from its creates (scenario.apart, see Apart); everything else overlaps. *)
(*                                                                         *)
(* Simplifications.  A directory is absent, empty, half seeded or full,    *)
(* and holds the work of some users; RemoveAll is one step that may stop   *)
(* half way.  Stops and wakes are the subject of Lifecycle.                *)
(***************************************************************************)
EXTENDS Naturals, FiniteSets

CONSTANTS
  Ids, Users, Projects,
  Workers,      \* goroutines serving requests
  NoId, NoUser, NoWorker,
  Scenarios     \* what happens in a behaviour, see MCOwnership

ASSUME OwnershipAssumption ==
  /\ NoId \notin Ids /\ NoUser \notin Users /\ NoWorker \notin Workers

VARIABLES
  scenario,  \* [acts, faults, apart]
  row,       \* row[i]: the sandbox row
  owner,     \* owner[i]: the workspace_owner row
  dir,       \* dir[i]: the workspace directory
  wrote,     \* wrote[i]: users whose work is in it
  snaps,     \* snaps[i]: users whose work is in the snapshots
  ran,       \* ran[i]: the user the container s-i runs for, NoUser without one
  lock,      \* lock[i]: the holder of the per-id lock
  job,       \* job[w]: the request worker w serves
  before,    \* history: before[i], users i was claimed from since its files
             \* were new
  crowded    \* history: projects that a create or a claim has named outright,
             \* that had two v1 creates at a time, or whose lookup has failed

vars == <<scenario, row, owner, dir, wrote, snaps, ran, lock, job, before, crowded>>
files == <<dir, wrote, snaps>>
history == <<before, crowded>>

NoRow   == [status |-> "none", user |-> NoUser, project |-> {}]
NoOwner == [user |-> NoUser, project |-> {}]
NoJob   == [op |-> "none", id |-> NoId, user |-> NoUser, project |-> {},
            pc |-> "none", left |-> {}]

\* A project column holds a project or NULL.
ProjectColumn == {{}} \cup {{p} : p \in Projects}

Acts(a)  == a \in scenario.acts
Fault(f) == f \in scenario.faults

Goto(w, pc) == job' = [job EXCEPT ![w].pc = pc]
Done(w)     == job' = [job EXCEPT ![w] = NoJob]

Creates  == {"create", "v1"}
Removals == {"delete", "purge", "user", "project"}

\* w has i in hand, or on its list.
About(w, i) == job[w].id = i \/ i \in job[w].left

\* No request of the given kinds is about i.
NoneAbout(i, ops) == \A w \in Workers : ~(job[w].op \in ops /\ About(w, i))

\* The client's discipline: an id is not created while it is being removed,
\* nor removed or claimed while it is being created.
Apart(i, ops) == scenario.apart => NoneAbout(i, ops)

-----------------------------------------------------------------------------
(***************************************************************************)
(* handleCreate                                                            *)
(***************************************************************************)
CreateBegin(w, i, u, p) ==
  /\ Acts("create")
  /\ job[w] = NoJob
  /\ Apart(i, Removals)
  /\ job' = [job EXCEPT ![w] = [NoJob EXCEPT !.op = "create", !.id = i,
                                  !.user = u, !.project = p, !.pc = "row"]]
  /\ crowded' = crowded \cup p
  /\ UNCHANGED <<scenario, row, owner, files, ran, lock, before>>

\* v1CreateSandbox for project p.
V1Begin(w, u, p) ==
  /\ Acts("v1")
  /\ job[w] = NoJob
  /\ job' = [job EXCEPT ![w] = [NoJob EXCEPT !.op = "v1", !.user = u,
                                  !.project = {p}, !.pc = "list"]]
  /\ crowded' = IF \E o \in Workers : job[o].op = "v1" /\ job[o].project = {p}
                THEN crowded \cup {p} ELSE crowded
  /\ UNCHANGED <<scenario, row, owner, files, ran, lock, before>>

\* newULID: an id nobody has used.
Fresh(i) ==
  /\ row[i] = NoRow /\ owner[i] = NoOwner /\ dir[i] = "absent"
  /\ ran[i] = NoUser /\ snaps[i] = {}
  /\ NoneAbout(i, Creates \cup Removals)

\* Sandboxes of the project that count as existing.
Existing(p) == {i \in Ids : row[i].project = p /\ row[i].status \notin {"none", "error"}}

\* Mutant of V1List: an unfinished sandbox does not count.
V1ListRunning(w) ==
  /\ job[w].pc = "list"
  /\ \/ /\ \E i \in Existing(job[w].project) : row[i].status # "creating"
        /\ Done(w)
     \/ /\ \A i \in Existing(job[w].project) : row[i].status = "creating"
        /\ \E i \in Ids :
             Fresh(i) /\ job' = [job EXCEPT ![w].pc = "row", ![w].id = i]
  /\ UNCHANGED <<scenario, row, owner, files, ran, lock, history>>

\* An existing sandbox is returned as it is; a lookup that fails is taken for
\* "none".
V1List(w) ==
  /\ job[w].pc = "list"
  /\ \/ Existing(job[w].project) # {} /\ Done(w)
     \/ /\ Existing(job[w].project) = {} \/ Fault("read")
        /\ \E i \in Ids :
             Fresh(i) /\ job' = [job EXCEPT ![w].pc = "row", ![w].id = i]
  /\ crowded' = IF Existing(job[w].project) # {} /\ job'[w].pc = "row"
                THEN crowded \cup job[w].project ELSE crowded
  /\ UNCHANGED <<scenario, row, owner, files, ran, lock, before>>

CheckRow(w) ==
  /\ job[w].pc = "row"
  /\ \/ /\ row[job[w].id] # NoRow \/ Fault("read")
        /\ Done(w)
     \/ row[job[w].id] = NoRow /\ Goto(w, "owner")
  /\ UNCHANGED <<scenario, row, owner, files, ran, lock, history>>

\* Mutant of CheckOwner: a durable owner is not compared.
CheckOwnerNot(w) ==
  /\ job[w].pc = "owner"
  /\ Goto(w, "insert")
  /\ UNCHANGED <<scenario, row, owner, files, ran, lock, history>>

CheckOwner(w) ==
  /\ job[w].pc = "owner"
  /\ \/ /\ owner[job[w].id].user \in {NoUser, job[w].user}
        /\ Goto(w, "insert")
     \/ /\ owner[job[w].id].user \notin {NoUser, job[w].user} \/ Fault("read")
        /\ Done(w)
  /\ UNCHANGED <<scenario, row, owner, files, ran, lock, history>>

\* Store.Create: both rows in one transaction, the owner's unless there is
\* one.  A request that ends after the write was queued reports a failure
\* that was none.
Insert(w) ==
  LET i == job[w].id IN
  /\ job[w].pc = "insert"
  /\ \/ /\ row[i] # NoRow \/ Fault("store")
        /\ Done(w)
        /\ UNCHANGED <<row, owner>>
     \/ /\ row[i] = NoRow
        /\ row' = [row EXCEPT ![i] = [status |-> "creating", user |-> job[w].user,
                                      project |-> job[w].project]]
        /\ owner' = IF owner[i] # NoOwner THEN owner
                    ELSE [owner EXCEPT ![i] = [user |-> job[w].user,
                                               project |-> job[w].project]]
        /\ Goto(w, "provision") \/ (Fault("store") /\ Done(w))
  /\ UNCHANGED <<scenario, files, ran, lock, history>>

\* Provision: mkdir, then the seed container or the template's copy, only
\* into an empty directory.
Provision(w) ==
  LET i == job[w].id IN
  /\ job[w].pc = "provision"
  /\ \/ dir[i] \in {"partial", "full"} /\ Goto(w, "run") /\ UNCHANGED dir
     \/ /\ dir[i] \in {"absent", "empty"}
        /\ dir' = [dir EXCEPT ![i] = "partial"]
        /\ Goto(w, "seed")
     \/ /\ Fault("files")
        /\ dir' = [dir EXCEPT ![i] = IF @ = "absent" THEN "empty" ELSE @]
        /\ Goto(w, "abort")
  /\ UNCHANGED <<scenario, row, owner, wrote, snaps, ran, lock, history>>

Seed(w) ==
  /\ job[w].pc = "seed"
  /\ \/ dir' = [dir EXCEPT ![job[w].id] = "full"] /\ Goto(w, "run")
     \/ Fault("files") /\ Goto(w, "abort") /\ UNCHANGED dir
  /\ UNCHANGED <<scenario, row, owner, wrote, snaps, ran, lock, history>>

\* A bad entry of env is refused here, with the row left as it is; v1 sends
\* no env.
RefuseEnv(w) ==
  /\ job[w].pc = "run" /\ job[w].op = "create"
  /\ Fault("env")
  /\ Done(w)
  /\ UNCHANGED <<scenario, row, owner, files, ran, lock, history>>

\* docker run, which fails while a container has the name.
DockerRun(w) ==
  LET i == job[w].id IN
  /\ job[w].pc = "run"
  /\ \/ ran[i] = NoUser /\ ran' = [ran EXCEPT ![i] = job[w].user] /\ Goto(w, "mark")
     \/ /\ ran[i] # NoUser \/ Fault("docker")
        /\ Goto(w, "abort")
        /\ UNCHANGED ran
  /\ UNCHANGED <<scenario, row, owner, files, lock, history>>

MarkRunning(w) ==
  LET i == job[w].id IN
  /\ job[w].pc = "mark"
  /\ \/ /\ row' = IF row[i] = NoRow THEN row ELSE [row EXCEPT ![i].status = "running"]
        /\ Done(w)
     \/ Fault("store") /\ Goto(w, "abort") /\ UNCHANGED row
  /\ UNCHANGED <<scenario, owner, files, ran, lock, history>>

\* abort: docker rm and MarkError, both best effort.
AbortRemove(w) ==
  /\ job[w].pc = "abort"
  /\ ran' = [ran EXCEPT ![job[w].id] = NoUser] \/ (Fault("docker") /\ UNCHANGED ran)
  /\ Goto(w, "error")
  /\ UNCHANGED <<scenario, row, owner, files, lock, history>>

\* Mutant of AbortMark: a status the schema does not know.
AbortMarkFailed(w) ==
  LET i == job[w].id IN
  /\ job[w].pc = "error"
  /\ row' = IF row[i] = NoRow THEN row ELSE [row EXCEPT ![i].status = "failed"]
  /\ Done(w)
  /\ UNCHANGED <<scenario, owner, files, ran, lock, history>>

AbortMark(w) ==
  LET i == job[w].id IN
  /\ job[w].pc = "error"
  /\ \/ row' = IF row[i] = NoRow THEN row ELSE [row EXCEPT ![i].status = "error"]
     \/ Fault("store") /\ UNCHANGED row
  /\ Done(w)
  /\ UNCHANGED <<scenario, owner, files, ran, lock, history>>

-----------------------------------------------------------------------------
(***************************************************************************)
(* Delete and purge                                                        *)
(***************************************************************************)
RemoveBegin(w, op, i) ==
  /\ Acts(op) /\ op \in {"delete", "purge"}
  /\ job[w] = NoJob
  /\ Apart(i, Creates)
  /\ job' = [job EXCEPT ![w] = [NoJob EXCEPT !.op = op, !.id = i, !.pc = "lock"]]
  /\ UNCHANGED <<scenario, row, owner, files, ran, lock, history>>

\* WorkspaceOwnerSandboxIDs.
Owned(scope, u, p) ==
  {i \in Ids : IF scope = "user" THEN owner[i].user = u ELSE owner[i].project = {p}}

\* purgeScope lists the ids once and purges them one after the other.
ScopeBegin(w, scope, u, p) ==
  /\ Acts(scope)
  /\ job[w] = NoJob
  /\ \A i \in Owned(scope, u, p) : Apart(i, Creates)
  /\ job' = [job EXCEPT ![w] = [NoJob EXCEPT !.op = scope, !.user = u,
                                  !.project = {p}, !.pc = "next",
                                  !.left = Owned(scope, u, p)]]
  /\ UNCHANGED <<scenario, row, owner, files, ran, lock, history>>

ScopeNext(w) ==
  /\ job[w].pc = "next"
  /\ \/ job[w].left = {} /\ Done(w)
     \/ \E i \in job[w].left :
          job' = [job EXCEPT ![w].id = i, ![w].left = @ \ {i}, ![w].pc = "lock"]
  /\ UNCHANGED <<scenario, row, owner, files, ran, lock, history>>

TakeLock(w) ==
  /\ job[w].pc = "lock"
  /\ lock[job[w].id] = NoWorker
  /\ lock' = [lock EXCEPT ![job[w].id] = w]
  /\ Goto(w, IF job[w].op = "delete" THEN "get" ELSE "rm")
  /\ UNCHANGED <<scenario, row, owner, files, ran, history>>

\* The deferred Unlock, on success and on every error.
Return(w, ok) ==
  /\ lock' = [lock EXCEPT ![job[w].id] = NoWorker]
  /\ IF ok /\ job[w].op \in {"user", "project"}
     THEN job' = [job EXCEPT ![w].pc = "next", ![w].id = NoId] ELSE Done(w)

DeleteGet(w) ==
  /\ job[w].pc = "get"
  /\ \/ row[job[w].id] # NoRow /\ Goto(w, "rm") /\ UNCHANGED lock
     \/ (row[job[w].id] = NoRow \/ Fault("read")) /\ Return(w, FALSE)
  /\ UNCHANGED <<scenario, row, owner, files, ran, history>>

\* docker rm -f: fine without a container.
RemoveContainer(w) ==
  /\ job[w].pc = "rm"
  /\ \/ /\ ran' = [ran EXCEPT ![job[w].id] = NoUser]
        /\ Goto(w, IF job[w].op = "delete" THEN "drop" ELSE "dir")
        /\ UNCHANGED lock
     \/ Fault("docker") /\ Return(w, FALSE) /\ UNCHANGED ran
  /\ UNCHANGED <<scenario, row, owner, files, history>>

\* Store.Delete: the row alone.
DeleteRow(w) ==
  /\ job[w].pc = "drop"
  /\ \/ row' = [row EXCEPT ![job[w].id] = NoRow]
     \/ Fault("store") /\ UNCHANGED row
  /\ Return(w, TRUE)
  /\ UNCHANGED <<scenario, owner, files, ran, history>>

\* Mutant of RemoveDir: a failure is not returned.
RemoveDirAnyway(w) ==
  LET i == job[w].id IN
  /\ job[w].pc = "dir"
  /\ \/ dir' = [dir EXCEPT ![i] = "absent"] /\ wrote' = [wrote EXCEPT ![i] = {}]
     \/ Fault("files") /\ UNCHANGED <<dir, wrote>>
  /\ Goto(w, "snaps")
  /\ UNCHANGED <<scenario, row, owner, snaps, ran, lock, history>>

RemoveDir(w) ==
  LET i == job[w].id IN
  /\ job[w].pc = "dir"
  /\ \/ /\ dir' = [dir EXCEPT ![i] = "absent"]
        /\ wrote' = [wrote EXCEPT ![i] = {}]
        /\ Goto(w, "snaps")
        /\ UNCHANGED lock
     \/ /\ Fault("files")
        /\ dir' = [dir EXCEPT ![i] = IF @ = "full" THEN "partial" ELSE @]
        /\ Return(w, FALSE)
        /\ UNCHANGED wrote
  /\ UNCHANGED <<scenario, row, owner, snaps, ran, history>>

RemoveSnaps(w) ==
  /\ job[w].pc = "snaps"
  /\ \/ /\ snaps' = [snaps EXCEPT ![job[w].id] = {}]
        /\ Goto(w, "rows")
        /\ UNCHANGED lock
     \/ Fault("files") /\ Return(w, FALSE) /\ UNCHANGED snaps
  /\ UNCHANGED <<scenario, row, owner, dir, wrote, ran, history>>

\* PurgeSandbox: both rows in one transaction.
PurgeRows(w) ==
  LET i == job[w].id IN
  /\ job[w].pc = "rows"
  /\ \/ /\ row' = [row EXCEPT ![i] = NoRow]
        /\ owner' = [owner EXCEPT ![i] = NoOwner]
        /\ before' = [before EXCEPT ![i] = {}]
        /\ Return(w, TRUE) \/ (Fault("store") /\ Return(w, FALSE))
     \/ Fault("store") /\ Return(w, FALSE) /\ UNCHANGED <<row, owner, before>>
  /\ UNCHANGED <<scenario, files, ran, crowded>>

-----------------------------------------------------------------------------
(***************************************************************************)
(* Claim, the containers, and a restart                                    *)
(***************************************************************************)
\* Mutant of Claim: the durable row is not updated.
ClaimRowOnly(i, u, p) ==
  /\ Acts("claim") /\ row[i] # NoRow
  /\ Apart(i, Creates)
  /\ row' = [row EXCEPT ![i].user = u, ![i].project = p]
  /\ ran' = IF ran[i] = NoUser THEN ran ELSE [ran EXCEPT ![i] = u]
  /\ before' = [before EXCEPT ![i] = @ \cup {row[i].user}]
  /\ crowded' = crowded \cup p
  /\ UNCHANGED <<scenario, owner, files, lock, job>>

\* handleClaim is one transaction over both rows.  It takes no lock: the id may
\* be on the list of a purge by its former user, or half purged.
Claim(i, u, p) ==
  /\ Acts("claim") /\ row[i] # NoRow
  /\ Apart(i, Creates)
  /\ row' = [row EXCEPT ![i].user = u, ![i].project = p]
  /\ owner' = [owner EXCEPT ![i] = [user |-> u, project |-> p]]
  /\ ran' = IF ran[i] = NoUser THEN ran ELSE [ran EXCEPT ![i] = u]
  /\ before' = [before EXCEPT ![i] = @ \cup {row[i].user}]
  /\ crowded' = crowded \cup p
  /\ UNCHANGED <<scenario, files, lock, job>>

\* The container writes to the mounted workspace.
Work(i) ==
  /\ ran[i] # NoUser /\ dir[i] # "absent"
  /\ wrote' = [wrote EXCEPT ![i] = @ \cup {ran[i]}]
  /\ UNCHANGED <<scenario, row, owner, dir, snaps, ran, lock, job, history>>

\* A snapshot, under the per-id lock, of a sandbox that has a row.
Snapshot(i) ==
  /\ Acts("snapshot")
  /\ row[i] # NoRow /\ lock[i] = NoWorker /\ wrote[i] # {}
  /\ snaps' = [snaps EXCEPT ![i] = @ \cup wrote[i]]
  /\ UNCHANGED <<scenario, row, owner, dir, wrote, ran, lock, job, history>>

\* sandboxd stops and comes back: the reconciler goes by the containers; a
\* creating row that is old becomes an error.
Restart ==
  /\ Acts("restart")
  /\ job' = [w \in Workers |-> NoJob]
  /\ lock' = [i \in Ids |-> NoWorker]
  /\ \E stale \in SUBSET {i \in Ids : row[i].status = "creating"} :
       row' = [i \in Ids |->
         IF row[i].status \in {"none", "error"} THEN row[i]
         ELSE [row[i] EXCEPT !.status = IF i \in stale THEN "error"
                 ELSE IF ran[i] # NoUser THEN "running" ELSE "stopped"]]
  /\ UNCHANGED <<scenario, owner, files, ran, history>>

-----------------------------------------------------------------------------
Init ==
  /\ scenario \in Scenarios
  /\ row = [i \in Ids |-> NoRow]
  /\ owner = [i \in Ids |-> NoOwner]
  /\ dir = [i \in Ids |-> "absent"]
  /\ wrote = [i \in Ids |-> {}]
  /\ snaps = [i \in Ids |-> {}]
  /\ ran = [i \in Ids |-> NoUser]
  /\ lock = [i \in Ids |-> NoWorker]
  /\ job = [w \in Workers |-> NoJob]
  /\ before = [i \in Ids |-> {}]
  /\ crowded = {}

CreateStep(w) ==
  \/ V1List(w) \/ CheckRow(w) \/ CheckOwner(w) \/ Insert(w) \/ Provision(w)
  \/ Seed(w) \/ RefuseEnv(w) \/ DockerRun(w) \/ MarkRunning(w)
  \/ AbortRemove(w) \/ AbortMark(w)

RemoveStep(w) ==
  \/ ScopeNext(w) \/ TakeLock(w) \/ DeleteGet(w) \/ RemoveContainer(w)
  \/ DeleteRow(w) \/ RemoveDir(w) \/ RemoveSnaps(w) \/ PurgeRows(w)

Begin(w) ==
  \/ \E i \in Ids, u \in Users, p \in ProjectColumn : CreateBegin(w, i, u, p)
  \/ \E u \in Users, p \in Projects : V1Begin(w, u, p)
  \/ \E i \in Ids, op \in {"delete", "purge"} : RemoveBegin(w, op, i)
  \/ \E u \in Users, p \in Projects, scope \in {"user", "project"} :
       ScopeBegin(w, scope, u, p)

Next ==
  \/ \E w \in Workers : Begin(w) \/ CreateStep(w) \/ RemoveStep(w)
  \/ \E i \in Ids, u \in Users, p \in ProjectColumn : Claim(i, u, p)
  \/ \E i \in Ids : Work(i) \/ Snapshot(i)
  \/ Restart

Spec == Init /\ [][Next]_vars

-----------------------------------------------------------------------------
(***************************************************************************)
(* Properties                                                              *)
(***************************************************************************)
Row   == [status : {"none", "creating", "running", "stopped", "error"},
          user : Users \cup {NoUser}, project : ProjectColumn]
Owner == [user : Users \cup {NoUser}, project : ProjectColumn]
Job   == [op : {"none"} \cup Creates \cup Removals, id : Ids \cup {NoId},
          user : Users \cup {NoUser}, project : ProjectColumn,
          pc : {"none", "list", "row", "owner", "insert", "provision", "seed",
                "run", "mark", "abort", "error", "lock", "get", "rm", "drop",
                "dir", "snaps", "rows", "next"},
          left : SUBSET Ids]

\* Every variable has its type.
TypeOK ==
  /\ row \in [Ids -> Row] /\ owner \in [Ids -> Owner]
  /\ dir \in [Ids -> {"absent", "empty", "partial", "full"}]
  /\ wrote \in [Ids -> SUBSET Users] /\ snaps \in [Ids -> SUBSET Users]
  /\ ran \in [Ids -> Users \cup {NoUser}]
  /\ lock \in [Ids -> Workers \cup {NoWorker}]
  /\ before \in [Ids -> SUBSET Users]
  /\ crowded \subseteq Projects
  /\ job \in [Workers -> Job]

\* handlers.go:426: whoever an id is created for again, the work found in its
\* workspace is that user's own, or came with a claim; whatever failed or was
\* cut short on the way.
ContentStaysWithOwner ==
  scenario.apart =>
    \A i \in Ids : row[i] # NoRow => wrote[i] \subseteq {row[i].user} \cup before[i]

\* external_purge.go:17: a purge can be repeated until it is through.  As
\* long as any work of a user is left in a workspace or a snapshot, the
\* workspace_owner row by which the next purge finds it is there.
ContentHasOwner ==
  scenario.apart =>
    \A i \in Ids : wrote[i] \cup snaps[i] # {} => owner[i] # NoOwner

\* v1.go:178: one durable sandbox per project, across failed creates,
\* restarts, deletes and purges.  A project gets a second one only through two v1
\* creates that overlap, a lookup that fails, or a create or claim that names the
\* project: never from a v1 create that looked and found none.
OneSandboxPerProject ==
  scenario.apart =>
    \A p \in Projects \ crowded : Cardinality(Existing({p})) <= 1
=============================================================================
