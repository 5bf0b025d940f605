-------------------------- MODULE OwnershipProofs ---------------------------
(***************************************************************************)
(* What Ownership promises holds for any ids, users, projects and requests *)
(* under way.  The argument: row, owner row and container of an id name    *)
(* one user (RowInv), because a create that has passed the owner check can *)
(* rely on it until its INSERT and owns the row after it (CreateInv), no   *)
(* removal being about the same id meanwhile (ApartInv); and a purge that  *)
(* has removed files finds them still removed when it deletes the rows     *)
(* (RemoveInv), because the container is gone and the id lock keeps        *)
(* snapshots out (LockInv).                                                *)
(*                                                                         *)
(* The steps fall into a few kinds (CreateMove, Inserts, TakesUp, ...),    *)
(* each saying field by field what may change; one lemma shows that every  *)
(* action is of its kind, another that the kind keeps the invariant.       *)
(***************************************************************************)
EXTENDS Ownership, FiniteSetTheorems, TLAPS

CreateSteps == {"row", "owner", "insert", "provision", "seed", "run", "mark",
                "abort", "error"}
AfterInsert == {"provision", "seed", "run", "mark", "abort", "error"}
LockedSteps == {"get", "rm", "drop", "dir", "snaps", "rows"}
Steps       == {"none", "list", "lock", "next"} \cup CreateSteps \cup LockedSteps

HasRow(i)   == row[i].status # "none"
HasOwner(i) == owner[i].user # NoUser

\* What a step tells of its job.
JobsFit ==
  \A w \in Workers :
    /\ job[w].pc \in CreateSteps \cup {"list"} =>
         job[w].op \in Creates /\ job[w].user \in Users
    /\ job[w].pc \in LockedSteps \cup {"lock", "next"} => job[w].op \in Removals
    /\ job[w].pc \in CreateSteps \cup LockedSteps \cup {"lock"} => job[w].id \in Ids

\* The id lock is held exactly by the request inside its section.
LockInv ==
  \A w \in Workers, i \in Ids :
    lock[i] = w <=> job[w].pc \in LockedSteps /\ job[w].id = i

\* A row has a status and a user, an owner row a user.
RowShape ==
  \A i \in Ids :
    /\ HasRow(i) <=> row[i] # NoRow
    /\ HasRow(i) => row[i].user \in Users
    /\ HasOwner(i) <=> owner[i] # NoOwner

BaseInv == TypeOK /\ JobsFit /\ LockInv /\ RowShape

\* No id is created and removed at the same time.
ApartInv ==
  \A w1, w2 \in Workers, i \in Ids :
    job[w1].op \in Creates /\ About(w1, i) =>
      ~(job[w2].op \in Removals /\ About(w2, i))

\* Row, owner row and container name one user.
RowInv ==
  \A i \in Ids :
    /\ HasRow(i) => HasOwner(i) /\ owner[i].user = row[i].user
    /\ ran[i] # NoUser => HasRow(i) /\ ran[i] = row[i].user

\* What is on disk is the owner's, or came with a claim.
WorkInv ==
  \A i \in Ids :
    /\ ~HasOwner(i) => wrote[i] = {} /\ snaps[i] = {}
    /\ wrote[i] \subseteq {owner[i].user} \cup before[i]

\* Before its INSERT a create knows the owner; after it the row is its own.
CreateInv ==
  \A w \in Workers :
    /\ job[w].pc = "insert" /\ ~HasRow(job[w].id) =>
         owner[job[w].id].user \in {NoUser, job[w].user}
    /\ job[w].pc \in AfterInsert =>
         /\ HasRow(job[w].id)
         /\ row[job[w].id].user = job[w].user
         /\ row[job[w].id].project = job[w].project

\* What a purge has removed stays removed until it is through.
RemoveInv ==
  \A w \in Workers :
    /\ job[w].pc \in {"drop", "dir", "snaps", "rows"} => ran[job[w].id] = NoUser
    /\ job[w].pc \in {"snaps", "rows"} => wrote[job[w].id] = {}
    /\ job[w].pc = "rows" => snaps[job[w].id] = {}

OwnedInv == ApartInv /\ RowInv /\ WorkInv /\ CreateInv /\ RemoveInv

OwnershipInv == BaseInv /\ (scenario.apart => OwnedInv)

USE OwnershipAssumption
USE DEF Creates, Removals, files, history, CreateSteps, AfterInsert, LockedSteps

-----------------------------------------------------------------------------
(***************************************************************************)
(* What happens to a job                                                   *)
(***************************************************************************)
\* The job of w moves on to step p, and nothing else of any job changes.
Moves(w, p) ==
  /\ job' \in [Workers -> Job]
  /\ \A o \in Workers : o # w => job'[o] = job[o]
  /\ job'[w].pc = p /\ job'[w].op = job[w].op /\ job'[w].id = job[w].id
  /\ job'[w].user = job[w].user /\ job'[w].project = job[w].project
  /\ job'[w].left = job[w].left

\* The job of w is over.
Ends(w) ==
  /\ job' \in [Workers -> Job]
  /\ \A o \in Workers : o # w => job'[o] = job[o]
  /\ job'[w].pc = "none" /\ job'[w].op = "none" /\ job'[w].id = NoId
  /\ job'[w].left = {}

\* A worker that goes to another step moves nothing else.
LEMMA GotoMoves ==
  ASSUME TypeOK, NEW w \in Workers, NEW p \in Steps, Goto(w, p)
  PROVE  Moves(w, p)
BY DEF TypeOK, Job, Goto, Moves, Steps

\* An operation that is done clears its frame.
LEMMA DoneEnds ==
  ASSUME TypeOK, NEW w \in Workers, Done(w)
  PROVE  Ends(w)
BY DEF TypeOK, Job, Done, Ends, NoJob, ProjectColumn

-----------------------------------------------------------------------------
(***************************************************************************)
(* Creates                                                                 *)
(***************************************************************************)
\* A create inserts its row, and its owner row unless there is one.
Inserts(w) ==
  LET i == job[w].id IN
  /\ Ends(w) \/ Moves(w, "provision")
  /\ ~HasRow(i)
  /\ row' \in [Ids -> Row] /\ owner' \in [Ids -> Owner]
  /\ \A j \in Ids : j # i => row'[j] = row[j] /\ owner'[j] = owner[j]
  /\ row'[i].status = "creating" /\ row'[i].user = job[w].user
  /\ row'[i].project = job[w].project
  /\ IF HasOwner(i) THEN owner'[i] = owner[i] ELSE owner'[i].user = job[w].user

\* An INSERT adds one creating row, or none.
LEMMA InsertRows ==
  ASSUME BaseInv, NEW w \in Workers, Insert(w)
  PROVE  (Ends(w) /\ UNCHANGED <<row, owner>>) \/ Inserts(w)
  <1>0. job[w].id \in Ids /\ job[w].user \in Users /\ job[w].project \in ProjectColumn
    BY DEF BaseInv, TypeOK, Job, JobsFit, Insert
  <1>1. CASE Done(w) /\ UNCHANGED <<row, owner>>
    BY <1>1, DoneEnds DEF BaseInv
  <1>2. CASE /\ row[job[w].id] = NoRow
             /\ row' = [row EXCEPT ![job[w].id] = [status |-> "creating", user |-> job[w].user,
                                      project |-> job[w].project]]
             /\ owner' = IF owner[job[w].id] # NoOwner THEN owner
                    ELSE [owner EXCEPT ![job[w].id] = [user |-> job[w].user,
                                               project |-> job[w].project]]
             /\ Goto(w, "provision") \/ Done(w)
    <2>1. Ends(w) \/ Moves(w, "provision")
      BY <1>2, DoneEnds, GotoMoves DEF BaseInv, Steps
    <2>2. row' \in [Ids -> Row] /\ owner' \in [Ids -> Owner]
      BY <1>0, <1>2 DEF BaseInv, TypeOK, Row, Owner
    <2>3. /\ row'[job[w].id].status = "creating"
            /\ row'[job[w].id].user = job[w].user
            /\ row'[job[w].id].project = job[w].project
            /\ \A i \in Ids : i # job[w].id => row'[i] = row[i] /\ owner'[i] = owner[i]
      BY <1>0, <1>2 DEF BaseInv, TypeOK
    <2>4. /\ HasOwner(job[w].id) => owner'[job[w].id] = owner[job[w].id]
          /\ ~HasOwner(job[w].id) => owner'[job[w].id].user = job[w].user
      BY <1>0, <1>2 DEF BaseInv, TypeOK, RowShape
    <2> QED BY <1>0, <1>2, <2>1, <2>2, <2>3, <2>4 DEF BaseInv, RowShape, Inserts
  <1> QED BY <1>1, <1>2 DEF Insert

\* Rows change their status at most.
RowsKeep ==
  /\ row' \in [Ids -> Row]
  /\ \A i \in Ids : /\ row'[i].user = row[i].user
                    /\ row'[i].project = row[i].project
                    /\ HasRow(i)' <=> HasRow(i)
                    /\ HasRow(i)' <=> row'[i] # NoRow

\* A create moves on to its next step or ends; its rows keep their columns,
\* and it starts no container but its own.
CreateMove(w) ==
  /\ UNCHANGED scenario
  /\ job[w].pc \in CreateSteps
  /\ \/ Ends(w)
     \/ \E p \in CreateSteps :
          /\ Moves(w, p)
          /\ p = "insert" => owner[job[w].id].user \in {NoUser, job[w].user}
          /\ p \in AfterInsert => job[w].pc \in AfterInsert
  /\ RowsKeep
  /\ ran' \in [Ids -> Users \cup {NoUser}]
  /\ \A i \in Ids :
       \/ ran'[i] \in {ran[i], NoUser}
       \/ /\ job[w].pc \in AfterInsert /\ i = job[w].id
          /\ ran'[i] = job[w].user
  /\ dir' \in [Ids -> {"absent", "empty", "partial", "full"}]
  /\ UNCHANGED <<owner, wrote, snaps, lock, history>>

\* A create between two of its steps.
LEMMA CreateMoveInv ==
  ASSUME OwnershipInv, NEW w \in Workers, CreateMove(w)
  PROVE  OwnershipInv'
  <1> USE DEF OwnershipInv, BaseInv, CreateMove
  <1>0. job[w].id \in Ids
    BY DEF JobsFit
  <1>1. TypeOK'
    BY DEF TypeOK, Moves, Ends, RowsKeep
  <1>2. JobsFit'
    BY DEF JobsFit, Moves, Ends
  <1>3. LockInv'
    BY DEF LockInv, Moves, Ends
  <1>4. RowShape'
    BY DEF RowShape, RowsKeep, HasOwner, HasRow
  <1>5. ASSUME scenario.apart
        PROVE  OwnedInv'
    <2> USE <1>5 DEF OwnedInv
    <2>1. ApartInv'
      BY DEF ApartInv, Moves, Ends, About
    <2>2. RowInv'
      BY DEF RowInv, CreateInv, RowsKeep, HasOwner
    <2>3. WorkInv'
      BY DEF WorkInv, HasOwner
    <2>4. CreateInv'
      BY <1>0 DEF CreateInv, JobsFit, Moves, Ends, RowsKeep
    <2>5. RemoveInv'
      BY <1>0 DEF RemoveInv, ApartInv, About, JobsFit, Moves, Ends
    <2> QED
      BY <2>1, <2>2, <2>3, <2>4, <2>5
  <1> QED
    BY <1>1, <1>2, <1>3, <1>4, <1>5

\* The INSERT of a create.
LEMMA InsertInv ==
  ASSUME OwnershipInv, NEW w \in Workers, Insert(w)
  PROVE  OwnershipInv'
  <1> USE DEF OwnershipInv, BaseInv
  <1>0. job[w].id \in Ids /\ job[w].user \in Users /\ job[w].op \in Creates
        /\ job[w].pc = "insert"
        /\ UNCHANGED <<scenario, dir, wrote, snaps, ran, lock, history>>
    BY DEF JobsFit, Insert
  <1>1. CASE Ends(w) /\ UNCHANGED <<row, owner>>
    <2>1. CreateMove(w)
      BY <1>0, <1>1 DEF CreateMove, RowsKeep, TypeOK, RowShape, HasRow
    <2> QED
      BY <2>1, CreateMoveInv
  <1>2. CASE Inserts(w)
    <2>1. TypeOK'
      BY <1>0, <1>2 DEF Inserts, TypeOK, Moves, Ends
    <2>2. JobsFit'
      BY <1>0, <1>2 DEF Inserts, JobsFit, Moves, Ends
    <2>3. LockInv'
      BY <1>0, <1>2 DEF Inserts, LockInv, Moves, Ends
    <2>4. RowShape'
      BY <1>0, <1>2 DEF Inserts, RowShape, HasRow, HasOwner, NoRow, NoOwner
    <2>5. ASSUME scenario.apart
          PROVE  OwnedInv'
      <3> USE <1>0, <1>2, <2>5 DEF OwnedInv, Inserts
      <3>1. ApartInv'
        BY DEF ApartInv, Moves, Ends, About
      <3>2. RowInv'
        BY DEF RowInv, CreateInv, HasOwner, HasRow
      <3>3. WorkInv'
        BY DEF WorkInv, HasOwner
      <3>4. CreateInv'
        BY DEF CreateInv, JobsFit, Moves, Ends, HasRow, HasOwner
      <3>5. RemoveInv'
        <4>1. \A o \in Workers :
                job'[o].pc \in {"none", "provision"} \/ job'[o] = job[o]
          BY DEF Moves, Ends
        <4> QED
          BY <4>1 DEF RemoveInv
      <3> QED
        BY <3>1, <3>2, <3>3, <3>4, <3>5
    <2> QED
      BY <1>0, <2>1, <2>2, <2>3, <2>4, <2>5
  <1> QED
    BY <1>1, <1>2, InsertRows

\* A request begins, takes up its id, or turns to the next id on its list.
TakesUp(w) ==
  /\ UNCHANGED <<scenario, row, owner, files, ran, lock, before>>
  /\ crowded' \subseteq Projects
  /\ job' \in [Workers -> Job]
  /\ \A o \in Workers : o # w => job'[o] = job[o]
  /\ job[w].pc \notin LockedSteps
  /\ \/ job'[w].op = "none" /\ job'[w].pc = "none"
     \/ /\ job'[w].op \in Creates /\ job'[w].user \in Users
        /\ job'[w].pc \in {"list", "row"}
        /\ job'[w].pc = "row" => job'[w].id \in Ids
     \/ /\ job'[w].op \in Removals
        /\ job'[w].pc \in {"lock", "next"}
        /\ job'[w].pc = "lock" => job'[w].id \in Ids
  /\ scenario.apart =>
       \A i \in Ids : About(w, i)' =>
         /\ job'[w].op \in Creates => NoneAbout(i, Removals)
         /\ job'[w].op \in Removals => NoneAbout(i, Creates)

\* A worker that holds no lock takes up a create, a removal, or nothing more.
LEMMA TakesUpInv ==
  ASSUME OwnershipInv, NEW w \in Workers, TakesUp(w)
  PROVE  OwnershipInv'
  <1> USE DEF OwnershipInv, BaseInv, TakesUp
  <1>1. TypeOK'
    BY DEF TypeOK
  <1>2. JobsFit'
    BY DEF JobsFit
  <1>3. LockInv'
    BY DEF LockInv
  <1>4. RowShape'
    BY DEF RowShape, HasOwner, HasRow
  <1>5. ASSUME scenario.apart
        PROVE  OwnedInv'
    <2> USE <1>5 DEF OwnedInv
    <2>1. ApartInv'
      BY DEF ApartInv, About, NoneAbout
    <2>2. RowInv' /\ WorkInv'
      BY DEF RowInv, WorkInv, HasRow, HasOwner
    <2>3. CreateInv'
      BY DEF CreateInv, JobsFit, HasRow
    <2>4. RemoveInv'
      BY DEF RemoveInv, JobsFit
    <2> QED
      BY <2>1, <2>2, <2>3, <2>4
  <1> QED
    BY <1>1, <1>2, <1>3, <1>4, <1>5

-----------------------------------------------------------------------------
(***************************************************************************)
(* Removals                                                                *)
(***************************************************************************)
\* A worker acquires the id lock.
LEMMA TakeLockInv ==
  ASSUME OwnershipInv, NEW w \in Workers, TakeLock(w)
  PROVE  OwnershipInv'
  <1> USE DEF OwnershipInv, BaseInv
  <1>0. /\ job[w].id \in Ids /\ job[w].pc = "lock" /\ lock[job[w].id] = NoWorker
        /\ lock' = [lock EXCEPT ![job[w].id] = w]
        /\ UNCHANGED <<scenario, row, owner, files, ran, history>>
    BY DEF JobsFit, TakeLock
  <1>1. PICK p \in {"get", "rm"} : Moves(w, p)
    BY GotoMoves DEF TakeLock, Steps
  <1> USE <1>0, <1>1
  <1>2. TypeOK'
    BY DEF TypeOK, Moves
  <1>3. JobsFit'
    BY DEF JobsFit, Moves
  <1>4. LockInv'
    BY DEF LockInv, Moves, TypeOK
  <1>5. RowShape'
    BY DEF RowShape, HasOwner, HasRow
  <1>6. ASSUME scenario.apart
        PROVE  OwnedInv'
    <2> USE <1>6 DEF OwnedInv
    <2>1. ApartInv'
      BY DEF ApartInv, About, Moves
    <2>2. RowInv' /\ WorkInv'
      BY DEF RowInv, WorkInv, HasRow, HasOwner
    <2>3. CreateInv'
      BY DEF CreateInv, JobsFit, HasRow, Moves
    <2>4. RemoveInv'
      BY DEF RemoveInv, JobsFit, Moves
    <2> QED
      BY <2>1, <2>2, <2>3, <2>4
  <1> QED
    BY <1>2, <1>3, <1>4, <1>5, <1>6

\* What a request does to the id it has locked, and to no other.
LockedData(w) ==
  /\ UNCHANGED <<scenario, crowded>>
  /\ job[w].pc \in LockedSteps
  /\ row' \in [Ids -> Row] /\ owner' \in [Ids -> Owner]
  /\ dir' \in [Ids -> {"absent", "empty", "partial", "full"}]
  /\ wrote' \in [Ids -> SUBSET Users] /\ snaps' \in [Ids -> SUBSET Users]
  /\ ran' \in [Ids -> Users \cup {NoUser}]
  /\ before' \in [Ids -> SUBSET Users]
  /\ \A i \in Ids :
       \/ /\ row'[i] = row[i] /\ owner'[i] = owner[i] /\ before'[i] = before[i]
       \/ /\ job[w].pc = "drop" /\ i = job[w].id
          /\ row'[i] = NoRow /\ owner'[i] = owner[i] /\ before'[i] = before[i]
       \/ /\ job[w].pc = "rows" /\ i = job[w].id
          /\ row'[i] = NoRow /\ owner'[i] = NoOwner /\ before'[i] = {}
  /\ \A i \in Ids :
       IF i = job[w].id
       THEN /\ ran'[i] \in {ran[i], NoUser}
            /\ wrote'[i] \in {wrote[i], {}} /\ snaps'[i] \in {snaps[i], {}}
       ELSE ran'[i] = ran[i] /\ wrote'[i] = wrote[i] /\ snaps'[i] = snaps[i]

\* The next step in the section, and what has been removed by then.
LockedNext(w) ==
  /\ UNCHANGED lock
  /\ \E p \in LockedSteps :
       /\ Moves(w, p)
       /\ \/ p = "rm"
          \/ p \in {"drop", "dir"} /\ ran'[job[w].id] = NoUser
          \/ p = "snaps" /\ job[w].pc = "dir" /\ wrote'[job[w].id] = {}
          \/ p = "rows" /\ job[w].pc = "snaps" /\ snaps'[job[w].id] = {}

\* Or the section is left.
LockedLeft(w) ==
  /\ lock' = [lock EXCEPT ![job[w].id] = NoWorker]
  /\ job' \in [Workers -> Job]
  /\ \A o \in Workers : o # w => job'[o] = job[o]
  /\ job'[w].id = NoId
  /\ \/ job'[w].pc = "none" /\ job'[w].op = "none"
     \/ /\ job'[w].pc = "next" /\ job'[w].op = job[w].op
        /\ job'[w].user = job[w].user /\ job'[w].project = job[w].project
        /\ job'[w].left = job[w].left

\* A locked operation that returns gives the lock back.
LEMMA ReturnLeaves ==
  ASSUME TypeOK, NEW w \in Workers, NEW ok \in BOOLEAN, Return(w, ok)
  PROVE  LockedLeft(w)
  <1>1. CASE ok /\ job[w].op \in {"user", "project"}
    <2> DEFINE q == [job[w] EXCEPT !.pc = "next", !.id = NoId]
    <2>1. /\ q \in Job /\ q.pc = "next" /\ q.id = NoId /\ q.op = job[w].op
          /\ q.user = job[w].user /\ q.project = job[w].project /\ q.left = job[w].left
      <3>1. job[w] \in Job
        BY DEF TypeOK
      <3> QED
        BY <3>1 DEF Job
    <2>2. job' = [job EXCEPT ![w] = q]
      BY <1>1 DEF TypeOK, Return
    <2> HIDE DEF q
    <2> QED
      BY <1>1, <2>1, <2>2 DEF TypeOK, Return, LockedLeft
  <1>2. CASE ~(ok /\ job[w].op \in {"user", "project"})
    BY <1>2, DoneEnds DEF Return, LockedLeft, Ends
  <1> QED
    BY <1>1, <1>2

\* A step under the id lock, on the data of its own sandbox.
LEMMA LockedInv ==
  ASSUME OwnershipInv, NEW w \in Workers, LockedData(w),
         LockedNext(w) \/ LockedLeft(w)
  PROVE  OwnershipInv'
  <1> USE DEF OwnershipInv, BaseInv, LockedData
  <1>0. job[w].id \in Ids /\ job[w].op \in Removals
    BY DEF JobsFit
  <1> USE <1>0
  <1>1. TypeOK'
    BY DEF TypeOK, LockedNext, LockedLeft, Moves
  <1>2. JobsFit'
    BY DEF JobsFit, LockedNext, LockedLeft, Moves
  <1>3. LockInv'
    BY DEF LockInv, TypeOK, LockedNext, LockedLeft, Moves
  <1>4. RowShape'
    BY DEF RowShape, HasOwner, HasRow, NoRow, NoOwner
  <1>5. ASSUME scenario.apart
        PROVE  OwnedInv'
    <2> USE <1>5 DEF OwnedInv
    <2>1. ApartInv'
      BY DEF ApartInv, About, LockedNext, LockedLeft, Moves
    <2>2. RowInv'
      BY DEF RowInv, RemoveInv, HasRow, HasOwner, NoRow
    <2>3. WorkInv'
      <3> SUFFICES ASSUME NEW i \in Ids
                   PROVE  /\ ~HasOwner(i)' => wrote'[i] = {} /\ snaps'[i] = {}
                          /\ wrote'[i] \subseteq {owner'[i].user} \cup before'[i]
        BY DEF WorkInv
      <3>1. CASE i # job[w].id
        BY <3>1 DEF WorkInv, HasOwner
      <3>2. CASE i = job[w].id /\ job[w].pc = "rows"
        <4>1. wrote'[i] = {} /\ snaps'[i] = {}
          BY <3>2 DEF RemoveInv
        <4> QED
          BY <4>1 DEF HasOwner
      <3>3. CASE i = job[w].id /\ job[w].pc # "rows"
        BY <3>3 DEF WorkInv, HasOwner
      <3> QED
        BY <3>1, <3>2, <3>3
    <2>4. CreateInv'
      BY DEF CreateInv, ApartInv, About, JobsFit, HasRow, LockedNext, LockedLeft, Moves
    <2>5. RemoveInv'
      <3> SUFFICES ASSUME NEW o \in Workers
                   PROVE  /\ job'[o].pc \in {"drop", "dir", "snaps", "rows"} =>
                               ran'[job'[o].id] = NoUser
                          /\ job'[o].pc \in {"snaps", "rows"} => wrote'[job'[o].id] = {}
                          /\ job'[o].pc = "rows" => snaps'[job'[o].id] = {}
        BY DEF RemoveInv
      <3>1. CASE o = w
        <4>1. CASE LockedLeft(w)
          BY <3>1, <4>1 DEF LockedLeft
        <4>2. CASE LockedNext(w)
          <5>1. PICK p \in LockedSteps :
                  /\ job'[w].pc = p /\ job'[w].id = job[w].id
                  /\ \/ p = "rm"
                     \/ p \in {"drop", "dir"} /\ ran'[job[w].id] = NoUser
                     \/ p = "snaps" /\ job[w].pc = "dir" /\ wrote'[job[w].id] = {}
                     \/ p = "rows" /\ job[w].pc = "snaps" /\ snaps'[job[w].id] = {}
            BY <4>2 DEF LockedNext, Moves
          <5>2. /\ job[w].pc \in {"dir", "snaps"} => ran'[job[w].id] = NoUser
                /\ job[w].pc = "snaps" => wrote'[job[w].id] = {}
            BY DEF RemoveInv
          <5> QED
            BY <3>1, <5>1, <5>2
        <4> QED
          BY <4>1, <4>2
      <3>2. CASE o # w
        <4>1. job'[o] = job[o]
          BY <3>2 DEF LockedNext, LockedLeft, Moves
        <4>2. job[o].pc \in LockedSteps => job[o].id \in Ids /\ job[o].id # job[w].id
          BY <3>2 DEF LockInv, JobsFit
        <4>3. job[o].pc \in LockedSteps =>
                /\ ran'[job[o].id] = ran[job[o].id]
                /\ wrote'[job[o].id] = wrote[job[o].id]
                /\ snaps'[job[o].id] = snaps[job[o].id]
          BY <4>2
        <4> HIDE DEF LockedData, TypeOK
        <4> QED
          BY <4>1, <4>3 DEF RemoveInv
      <3> QED
        BY <3>1, <3>2
    <2> QED
      BY <2>1, <2>2, <2>3, <2>4, <2>5
  <1> QED
    BY <1>1, <1>2, <1>3, <1>4, <1>5

-----------------------------------------------------------------------------
(***************************************************************************)
(* Claim, the containers, and a restart                                    *)
(***************************************************************************)
\* An owner claims a workspace.
LEMMA ClaimInv ==
  ASSUME OwnershipInv, UNCHANGED scenario,
         NEW i \in Ids, NEW u \in Users, NEW p \in ProjectColumn, Claim(i, u, p)
  PROVE  OwnershipInv'
  <1> USE DEF OwnershipInv, BaseInv
  <1>0. /\ HasRow(i) /\ UNCHANGED <<dir, wrote, snaps, lock, job>>
        /\ crowded' \subseteq Projects
        /\ scenario.apart => NoneAbout(i, Creates)
    BY DEF Claim, RowShape, Apart, ProjectColumn, TypeOK
  <1>1. /\ row' \in [Ids -> Row] /\ owner' \in [Ids -> Owner]
        /\ ran' \in [Ids -> Users \cup {NoUser}] /\ before' \in [Ids -> SUBSET Users]
    <2>1. row[i] \in Row /\ row[i].user \in Users
      BY <1>0 DEF TypeOK, RowShape
    <2>2. row' \in [Ids -> Row] /\ owner' \in [Ids -> Owner]
      BY <2>1 DEF Claim, TypeOK, Row, Owner
    <2>3. /\ ran' \in [Ids -> Users \cup {NoUser}]
          /\ before' \in [Ids -> SUBSET Users]
      BY <2>1 DEF Claim, TypeOK
    <2> QED
      BY <2>2, <2>3
  <1>2. /\ \A j \in Ids : j # i => /\ row'[j] = row[j] /\ owner'[j] = owner[j]
                                   /\ ran'[j] = ran[j] /\ before'[j] = before[j]
        /\ row'[i].status = row[i].status /\ row'[i].user = u
        /\ owner'[i].user = u
        /\ ran'[i] = IF ran[i] = NoUser THEN NoUser ELSE u
        /\ before'[i] = before[i] \cup {row[i].user}
    BY DEF Claim, TypeOK, Row, Owner
  <1> USE <1>0, <1>1, <1>2
  <1>3. TypeOK'
    BY DEF TypeOK
  <1>4. JobsFit' /\ LockInv'
    BY DEF JobsFit, LockInv
  <1>5. RowShape'
    BY DEF RowShape, HasRow, HasOwner, NoRow, NoOwner
  <1>6. ASSUME scenario.apart
        PROVE  OwnedInv'
    <2> USE <1>6 DEF OwnedInv
    <2>1. ApartInv'
      BY DEF ApartInv, About
    <2>2. RowInv'
      BY DEF RowInv, HasRow, HasOwner
    <2>3. WorkInv'
      BY DEF WorkInv, RowInv, HasRow, HasOwner
    <2>4. CreateInv'
      BY DEF CreateInv, NoneAbout, About, JobsFit, HasRow
    <2>5. RemoveInv'
      BY DEF RemoveInv, JobsFit
    <2> QED
      BY <2>1, <2>2, <2>3, <2>4, <2>5
  <1> QED
    BY <1>3, <1>4, <1>5, <1>6

\* A container works in its workspace, or a snapshot is made of it.
LEMMA FilesInv ==
  ASSUME OwnershipInv, UNCHANGED scenario, NEW i \in Ids, Work(i) \/ Snapshot(i)
  PROVE  OwnershipInv'
  <1> USE DEF OwnershipInv, BaseInv
  <1>0. /\ UNCHANGED <<row, owner, dir, ran, lock, job, history>>
        /\ wrote' \in [Ids -> SUBSET Users] /\ snaps' \in [Ids -> SUBSET Users]
        /\ \A j \in Ids : j # i => wrote'[j] = wrote[j] /\ snaps'[j] = snaps[j]
    BY DEF Work, Snapshot, TypeOK
  <1>1. TypeOK' /\ JobsFit' /\ LockInv'
    BY <1>0 DEF TypeOK, JobsFit, LockInv
  <1>2. RowShape'
    BY <1>0 DEF RowShape, HasRow, HasOwner
  <1>3. ASSUME scenario.apart
        PROVE  OwnedInv'
    <2> USE <1>0, <1>3 DEF OwnedInv
    <2>1. ApartInv'
      BY DEF ApartInv, About
    <2>2. RowInv' /\ CreateInv'
      BY DEF RowInv, CreateInv, HasRow, HasOwner
    <2>3. WorkInv' /\ RemoveInv'
      <3>1. CASE Work(i)
        <4>1. /\ ran[i] # NoUser /\ HasOwner(i) /\ ran[i] = owner[i].user
              /\ wrote'[i] = wrote[i] \cup {ran[i]} /\ snaps'[i] = snaps[i]
          BY <3>1 DEF Work, RowInv, TypeOK
        <4>2. WorkInv'
          BY <4>1 DEF WorkInv, HasOwner
        <4>3. \A w \in Workers : job[w].pc \in {"snaps", "rows"} => job[w].id # i
          BY <4>1 DEF RemoveInv
        <4> QED
          BY <4>1, <4>2, <4>3 DEF RemoveInv, JobsFit
      <3>2. CASE Snapshot(i)
        <4>1. /\ HasOwner(i) /\ lock[i] = NoWorker /\ wrote' = wrote
              /\ snaps'[i] = snaps[i] \cup wrote[i]
          BY <3>2 DEF Snapshot, RowInv, RowShape, TypeOK
        <4>2. WorkInv'
          BY <4>1 DEF WorkInv, HasOwner
        <4>3. \A w \in Workers : job[w].pc \in LockedSteps => job[w].id # i
          BY <4>1 DEF LockInv
        <4> QED
          BY <4>1, <4>2, <4>3 DEF RemoveInv, JobsFit
      <3> QED
        BY <3>1, <3>2
    <2> QED
      BY <2>1, <2>2, <2>3
  <1> QED
    BY <1>1, <1>2, <1>3

\* MarkRunning and MarkError.
LEMMA StatusKeeps ==
  ASSUME BaseInv, NEW i \in Ids, NEW st \in {"running", "error"},
         row' = IF row[i] = NoRow THEN row ELSE [row EXCEPT ![i].status = st]
  PROVE  RowsKeep
  <1>1. CASE row[i] = NoRow
    BY <1>1 DEF BaseInv, TypeOK, RowsKeep, RowShape, HasRow
  <1>2. CASE row[i] # NoRow
    <2>1. /\ row' \in [Ids -> Row] /\ HasRow(i)
          /\ \A j \in Ids : j # i => row'[j] = row[j]
          /\ row'[i].status = st /\ row'[i].user = row[i].user
          /\ row'[i].project = row[i].project
      BY <1>2 DEF BaseInv, TypeOK, Row, RowShape
    <2>2. row'[i] # NoRow
      BY <2>1 DEF NoRow
    <2> QED
      BY <2>1, <2>2 DEF RowsKeep, HasRow, BaseInv, RowShape
  <1> QED
    BY <1>1, <1>2

\* A restart keeps every row's owner, project and existence: only its status may change.
LEMMA RestartRows ==
  ASSUME BaseInv, Restart
  PROVE  RowsKeep
  <1>1. PICK stale \in SUBSET {i \in Ids : row[i].status = "creating"} :
          row' = [i \in Ids |->
            IF row[i].status \in {"none", "error"} THEN row[i]
            ELSE [row[i] EXCEPT !.status = IF i \in stale THEN "error"
                    ELSE IF ran[i] # NoUser THEN "running" ELSE "stopped"]]
    BY DEF Restart
  <1>2. \A i \in Ids : /\ row[i] \in Row /\ row'[i] \in Row
                       /\ row'[i].user = row[i].user
                       /\ row'[i].project = row[i].project
                       /\ HasRow(i)' <=> HasRow(i)
    BY <1>1 DEF BaseInv, TypeOK, Row, HasRow
  <1>3. \A i \in Ids : HasRow(i)' <=> row'[i] # NoRow
    <2> SUFFICES ASSUME NEW i \in Ids
                 PROVE  HasRow(i)' <=> row'[i] # NoRow
      OBVIOUS
    <2>1. CASE HasRow(i)
      BY <1>2, <2>1 DEF HasRow, NoRow
    <2>2. CASE ~HasRow(i)
      BY <1>1, <1>2, <2>2 DEF HasRow, BaseInv, RowShape
    <2> QED
      BY <2>1, <2>2
  <1> QED
    BY <1>1, <1>2, <1>3 DEF RowsKeep

\* sandboxd restarts.
LEMMA RestartInv ==
  ASSUME OwnershipInv, UNCHANGED scenario, Restart
  PROVE  OwnershipInv'
  <1> USE DEF OwnershipInv, BaseInv
  <1>0. /\ RowsKeep /\ UNCHANGED <<owner, dir, wrote, snaps, ran, history>>
        /\ lock' = [i \in Ids |-> NoWorker]
        /\ job' \in [Workers -> Job]
        /\ \A w \in Workers : /\ job'[w].op = "none" /\ job'[w].pc = "none"
                              /\ job'[w].id = NoId /\ job'[w].left = {}
    BY RestartRows DEF Restart, NoJob, Job, ProjectColumn
  <1>1. TypeOK'
    BY <1>0 DEF TypeOK, RowsKeep
  <1>2. JobsFit' /\ LockInv'
    BY <1>0 DEF JobsFit, LockInv
  <1>3. RowShape'
    BY <1>0 DEF RowShape, RowsKeep, HasRow, HasOwner
  <1>4. ASSUME scenario.apart
        PROVE  OwnedInv'
    <2> USE <1>0, <1>4 DEF OwnedInv
    <2>1. ApartInv' /\ CreateInv' /\ RemoveInv'
      BY DEF ApartInv, CreateInv, RemoveInv, About
    <2>2. RowInv'
      BY DEF RowInv, RowsKeep, HasOwner
    <2>3. WorkInv'
      BY DEF WorkInv, HasOwner
    <2> QED
      BY <2>1, <2>2, <2>3
  <1> QED
    BY <1>1, <1>2, <1>3, <1>4

-----------------------------------------------------------------------------
(***************************************************************************)
(* Every action keeps the invariant                                        *)
(***************************************************************************)
\* Steps of a create.
LEMMA CreateStepInv ==
  ASSUME OwnershipInv, NEW w \in Workers, CreateStep(w)
  PROVE  OwnershipInv'
  <1> USE DEF OwnershipInv, BaseInv
  <1>k. /\ row' = row => RowsKeep
        /\ ran' = ran => ran' \in [Ids -> Users \cup {NoUser}]
    BY DEF RowsKeep, TypeOK, RowShape, HasRow
  <1>j. Done(w) => Ends(w)
    BY DoneEnds
  <1>m. \A p \in CreateSteps : Goto(w, p) => Moves(w, p)
    BY GotoMoves DEF Steps
  <1>c. V1List(w) => crowded' \subseteq Projects
    BY DEF V1List, TypeOK, Job, ProjectColumn
  <1>1. CASE V1List(w)
    <2>1. CASE Done(w)
      <3>1. TakesUp(w)
        BY <1>1, <2>1, <1>j, <1>c DEF V1List, TakesUp, Ends, About
      <3> QED
        BY <3>1, TakesUpInv
    <2>2. ASSUME NEW i \in Ids, Fresh(i),
                 job' = [job EXCEPT ![w].pc = "row", ![w].id = i]
          PROVE  TakesUp(w)
      <3>1. /\ job' \in [Workers -> Job]
            /\ \A o \in Workers : o # w => job'[o] = job[o]
            /\ job'[w].pc = "row" /\ job'[w].id = i /\ job'[w].op = job[w].op
            /\ job'[w].user = job[w].user /\ job'[w].left = job[w].left
        <4> DEFINE q == [job[w] EXCEPT !.pc = "row", !.id = i]
        <4>1. q \in Job /\ q.pc = "row" /\ q.id = i /\ q.op = job[w].op
              /\ q.user = job[w].user /\ q.left = job[w].left
          BY DEF TypeOK, Job
        <4>2. job' = [job EXCEPT ![w] = q]
          BY <2>2 DEF TypeOK
        <4> HIDE DEF q
        <4> QED
          BY <4>1, <4>2 DEF TypeOK
      <3>2. \A j \in Ids : About(w, j)' => j = i \/ About(w, j)
        BY <3>1 DEF About
      <3>3. /\ job[w].op \in Creates /\ job[w].user \in Users
            /\ job[w].pc = "list" /\ NoneAbout(i, Removals)
        BY <1>1, <2>2 DEF V1List, JobsFit, Fresh, NoneAbout
      <3>4. scenario.apart =>
              \A j \in Ids : About(w, j) => NoneAbout(j, Removals)
        BY <3>3 DEF OwnedInv, ApartInv, NoneAbout
      <3> QED
        BY <1>1, <1>c, <3>1, <3>2, <3>3, <3>4 DEF V1List, TakesUp
    <2> QED
      BY <1>1, <2>1, <2>2, TakesUpInv DEF V1List
  <1>2. CASE CheckRow(w)
    <2>1. CreateMove(w)
      BY <1>2, <1>k, <1>j, <1>m DEF CheckRow, CreateMove, TypeOK
    <2> QED
      BY <2>1, CreateMoveInv
  <1>3. CASE CheckOwner(w)
    <2>1. CreateMove(w)
      BY <1>3, <1>k, <1>j, <1>m DEF CheckOwner, CreateMove, TypeOK
    <2> QED
      BY <2>1, CreateMoveInv
  <1>4. CASE Insert(w)
    BY <1>4, InsertInv
  <1>5. CASE Provision(w)
    <2>0. dir' \in [Ids -> {"absent", "empty", "partial", "full"}]
      BY <1>5 DEF Provision, TypeOK
    <2>1. CreateMove(w)
      BY <1>5, <2>0, <1>k, <1>j, <1>m DEF Provision, CreateMove
    <2> QED
      BY <2>1, CreateMoveInv
  <1>6. CASE Seed(w)
    <2>0. dir' \in [Ids -> {"absent", "empty", "partial", "full"}]
      BY <1>6 DEF Seed, TypeOK
    <2>1. CreateMove(w)
      BY <1>6, <2>0, <1>k, <1>j, <1>m DEF Seed, CreateMove
    <2> QED
      BY <2>1, CreateMoveInv
  <1>7. CASE RefuseEnv(w)
    <2>1. CreateMove(w)
      BY <1>7, <1>k, <1>j, <1>m DEF RefuseEnv, CreateMove, TypeOK
    <2> QED
      BY <2>1, CreateMoveInv
  <1>8. CASE DockerRun(w)
    <2>0. /\ job[w].pc = "run" /\ job[w].id \in Ids /\ job[w].user \in Users
          /\ ran' \in [Ids -> Users \cup {NoUser}]
          /\ \A i \in Ids :
               ran'[i] = ran[i] \/ (i = job[w].id /\ ran'[i] = job[w].user)
      <3>1. job[w].pc = "run" /\ job[w].id \in Ids /\ job[w].user \in Users
        BY <1>8 DEF DockerRun, JobsFit
      <3>2. ran' = [ran EXCEPT ![job[w].id] = job[w].user] \/ ran' = ran
        BY <1>8 DEF DockerRun
      <3>3. ran \in [Ids -> Users \cup {NoUser}]
        BY DEF TypeOK
      <3> QED
        BY <3>1, <3>2, <3>3
    <2>1. CreateMove(w)
      BY <1>8, <2>0, <1>k, <1>m DEF DockerRun, CreateMove, TypeOK
    <2> QED
      BY <2>1, CreateMoveInv
  <1>9. CASE MarkRunning(w)
    <2>0. RowsKeep
      BY <1>9, <1>k, StatusKeeps DEF MarkRunning, JobsFit
    <2>1. CreateMove(w)
      BY <1>9, <2>0, <1>k, <1>j, <1>m DEF MarkRunning, CreateMove, TypeOK
    <2> QED
      BY <2>1, CreateMoveInv
  <1>10. CASE AbortRemove(w)
    <2>0. /\ ran' \in [Ids -> Users \cup {NoUser}]
          /\ \A i \in Ids : ran'[i] \in {ran[i], NoUser}
      BY <1>10 DEF AbortRemove, TypeOK
    <2>1. CreateMove(w)
      BY <1>10, <2>0, <1>k, <1>m DEF AbortRemove, CreateMove, TypeOK
    <2> QED
      BY <2>1, CreateMoveInv
  <1>11. CASE AbortMark(w)
    <2>0. RowsKeep
      BY <1>11, <1>k, StatusKeeps DEF AbortMark, JobsFit
    <2>1. CreateMove(w)
      BY <1>11, <2>0, <1>k, <1>j, <1>m DEF AbortMark, CreateMove, TypeOK
    <2> QED
      BY <2>1, CreateMoveInv
  <1> QED
    BY <1>1, <1>2, <1>3, <1>4, <1>5, <1>6, <1>7, <1>8, <1>9, <1>10, <1>11 DEF CreateStep

\* Steps of a delete or a purge.
LEMMA RemoveStepInv ==
  ASSUME OwnershipInv, NEW w \in Workers, RemoveStep(w)
  PROVE  OwnershipInv'
  <1> USE DEF OwnershipInv, BaseInv
  <1>m. \A p \in LockedSteps : Goto(w, p) => Moves(w, p)
    BY GotoMoves DEF Steps
  <1>r. \A ok \in BOOLEAN : Return(w, ok) => LockedLeft(w)
    BY ReturnLeaves
  <1>i. job[w].pc \in LockedSteps => job[w].id \in Ids
    BY DEF JobsFit
  <1>u. UNCHANGED <<scenario, row, owner, files, ran, history>> /\ job[w].pc \in LockedSteps
          => LockedData(w)
    BY DEF LockedData, TypeOK
  <1>1. CASE ScopeNext(w)
    <2>1. CASE Done(w)
      <3>1. TakesUp(w)
        BY <1>1, <2>1, DoneEnds DEF ScopeNext, TakesUp, Ends, About, TypeOK
      <3> QED
        BY <3>1, TakesUpInv
    <2>2. ASSUME NEW i \in job[w].left,
                 job' = [job EXCEPT ![w].id = i, ![w].left = @ \ {i}, ![w].pc = "lock"]
          PROVE  TakesUp(w)
      <3>1. /\ job' \in [Workers -> Job] /\ i \in Ids
            /\ \A o \in Workers : o # w => job'[o] = job[o]
            /\ job'[w].pc = "lock" /\ job'[w].id = i /\ job'[w].op = job[w].op
            /\ job'[w].user = job[w].user /\ job'[w].project = job[w].project
            /\ job'[w].left = job[w].left \ {i}
        BY <2>2 DEF TypeOK, Job
      <3>2. \A j \in Ids : About(w, j)' => About(w, j)
        BY <2>2, <3>1 DEF About
      <3>3. job[w].op \in Removals /\ job[w].pc = "next"
        BY <1>1 DEF ScopeNext, JobsFit
      <3>4. scenario.apart => \A j \in Ids : About(w, j) => NoneAbout(j, Creates)
        BY <3>3 DEF OwnedInv, ApartInv, NoneAbout
      <3> QED
        BY <1>1, <3>1, <3>2, <3>3, <3>4 DEF ScopeNext, TakesUp, TypeOK
    <2> QED
      BY <1>1, <2>1, <2>2, TakesUpInv DEF ScopeNext
  <1>2. CASE TakeLock(w)
    BY <1>2, TakeLockInv
  <1>3. CASE DeleteGet(w)
    <2>1. LockedData(w)
      BY <1>3, <1>u DEF DeleteGet
    <2>2. LockedNext(w) \/ LockedLeft(w)
      BY <1>3, <1>m, <1>r DEF DeleteGet, LockedNext
    <2> QED
      BY <2>1, <2>2, LockedInv
  <1>4. CASE RemoveContainer(w)
    <2>1. LockedData(w)
      BY <1>4, <1>i DEF RemoveContainer, LockedData, TypeOK
    <2>2. ASSUME ran' = [ran EXCEPT ![job[w].id] = NoUser], UNCHANGED lock,
                 Goto(w, IF job[w].op = "delete" THEN "drop" ELSE "dir")
          PROVE  LockedNext(w)
      <3>1. PICK p \in {"drop", "dir"} : Goto(w, p)
        BY <2>2
      <3>2. ran'[job[w].id] = NoUser
        BY <1>4, <1>i, <2>2 DEF RemoveContainer, TypeOK
      <3> QED
        BY <1>m, <2>2, <3>1, <3>2 DEF LockedNext
    <2> QED
      BY <1>4, <1>r, <2>1, <2>2, LockedInv DEF RemoveContainer
  <1>5. CASE DeleteRow(w)
    <2>1. NoRow \in Row
      BY DEF NoRow, Row, ProjectColumn
    <2>2. LockedData(w)
      BY <1>5, <1>i, <2>1 DEF DeleteRow, LockedData, TypeOK
    <2> QED
      BY <1>5, <1>r, <2>2, LockedInv DEF DeleteRow
  <1>6. CASE RemoveDir(w)
    <2>1. LockedData(w)
      BY <1>6, <1>i DEF RemoveDir, LockedData, TypeOK
    <2>2. LockedNext(w) \/ LockedLeft(w)
      BY <1>6, <1>i, <1>m, <1>r DEF RemoveDir, LockedNext, TypeOK
    <2> QED
      BY <2>1, <2>2, LockedInv
  <1>7. CASE RemoveSnaps(w)
    <2>1. LockedData(w)
      BY <1>7, <1>i DEF RemoveSnaps, LockedData, TypeOK
    <2>2. LockedNext(w) \/ LockedLeft(w)
      BY <1>7, <1>i, <1>m, <1>r DEF RemoveSnaps, LockedNext, TypeOK
    <2> QED
      BY <2>1, <2>2, LockedInv
  <1>8. CASE PurgeRows(w)
    <2>0. job[w].pc = "rows" /\ UNCHANGED <<scenario, dir, wrote, snaps, ran, crowded>>
      BY <1>8 DEF PurgeRows
    <2>1. NoRow \in Row /\ NoOwner \in Owner
      BY DEF NoRow, Row, NoOwner, Owner, ProjectColumn
    <2>2. UNCHANGED <<row, owner, before>> => LockedData(w)
      BY <1>i, <2>0 DEF LockedData, TypeOK
    <2>3. /\ row' = [row EXCEPT ![job[w].id] = NoRow]
          /\ owner' = [owner EXCEPT ![job[w].id] = NoOwner]
          /\ before' = [before EXCEPT ![job[w].id] = {}]
          => LockedData(w)
      BY <1>i, <2>0, <2>1 DEF LockedData, TypeOK
    <2> QED
      BY <1>8, <1>r, <2>2, <2>3, LockedInv DEF PurgeRows
  <1> QED
    BY <1>1, <1>2, <1>3, <1>4, <1>5, <1>6, <1>7, <1>8 DEF RemoveStep

\* A request begins.
LEMMA BeginInv ==
  ASSUME OwnershipInv, NEW w \in Workers, Begin(w)
  PROVE  OwnershipInv'
  <1> USE DEF OwnershipInv, BaseInv
  <1>0. ASSUME NEW q, job' = [job EXCEPT ![w] = q]
        PROVE  /\ q \in Job => job' \in [Workers -> Job]
               /\ job'[w] = q
               /\ \A o \in Workers : o # w => job'[o] = job[o]
    BY <1>0 DEF TypeOK
  <1>n. job[w] = NoJob => job[w].pc = "none"
    BY DEF NoJob
  <1>1. ASSUME NEW i \in Ids, NEW u \in Users, NEW p \in ProjectColumn,
               CreateBegin(w, i, u, p)
        PROVE  TakesUp(w)
    <2> DEFINE q == [NoJob EXCEPT !.op = "create", !.id = i, !.user = u,
                                  !.project = p, !.pc = "row"]
    <2>1. /\ q.op = "create" /\ q.id = i /\ q.user = u /\ q.pc = "row"
          /\ q.left = {} /\ q \in Job
      BY DEF Job, NoJob
    <2>2. /\ job' = [job EXCEPT ![w] = q] /\ job[w].pc = "none"
          /\ UNCHANGED <<scenario, row, owner, files, ran, lock, before>>
          /\ crowded' \subseteq Projects
          /\ scenario.apart => NoneAbout(i, Removals)
      BY <1>1, <1>n DEF CreateBegin, Apart, TypeOK, ProjectColumn
    <2> HIDE DEF q
    <2>3. \A j \in Ids : About(w, j)' => j = i
      BY <1>0, <2>1, <2>2 DEF About
    <2> QED
      BY <1>0, <2>1, <2>2, <2>3 DEF TakesUp
  <1>2. ASSUME NEW u \in Users, NEW p \in Projects, V1Begin(w, u, p)
        PROVE  TakesUp(w)
    <2> DEFINE q == [NoJob EXCEPT !.op = "v1", !.user = u,
                                  !.project = {p}, !.pc = "list"]
    <2>1. /\ q.op = "v1" /\ q.id = NoId /\ q.user = u /\ q.pc = "list"
          /\ q.left = {} /\ q \in Job
      BY DEF Job, NoJob, ProjectColumn
    <2>2. /\ job' = [job EXCEPT ![w] = q] /\ job[w].pc = "none"
          /\ UNCHANGED <<scenario, row, owner, files, ran, lock, before>>
          /\ crowded' \subseteq Projects
      BY <1>2, <1>n DEF V1Begin, TypeOK
    <2> HIDE DEF q
    <2>3. \A j \in Ids : ~About(w, j)'
      BY <1>0, <2>1, <2>2 DEF About
    <2> QED
      BY <1>0, <2>1, <2>2, <2>3 DEF TakesUp
  <1>3. ASSUME NEW i \in Ids, NEW op \in {"delete", "purge"}, RemoveBegin(w, op, i)
        PROVE  TakesUp(w)
    <2> DEFINE q == [NoJob EXCEPT !.op = op, !.id = i, !.pc = "lock"]
    <2>1. /\ q.op = op /\ q.id = i /\ q.pc = "lock" /\ q.left = {} /\ q \in Job
      BY DEF Job, NoJob, ProjectColumn
    <2>2. /\ job' = [job EXCEPT ![w] = q] /\ job[w].pc = "none"
          /\ UNCHANGED <<scenario, row, owner, files, ran, lock, before>>
          /\ crowded' \subseteq Projects
          /\ scenario.apart => NoneAbout(i, Creates)
      BY <1>3, <1>n DEF RemoveBegin, Apart, TypeOK
    <2> HIDE DEF q
    <2>3. \A j \in Ids : About(w, j)' => j = i
      BY <1>0, <2>1, <2>2 DEF About
    <2> QED
      BY <1>0, <2>1, <2>2, <2>3 DEF TakesUp
  <1>4. ASSUME NEW u \in Users, NEW p \in Projects, NEW scope \in {"user", "project"},
               ScopeBegin(w, scope, u, p)
        PROVE  TakesUp(w)
    <2> DEFINE q == [NoJob EXCEPT !.op = scope, !.user = u, !.project = {p},
                                  !.pc = "next", !.left = Owned(scope, u, p)]
    <2>0. Owned(scope, u, p) \subseteq Ids
      BY DEF Owned
    <2>1. /\ q.op = scope /\ q.id = NoId /\ q.user = u /\ q.project = {p}
          /\ q.pc = "next" /\ q.left = Owned(scope, u, p) /\ q \in Job
      BY <2>0 DEF Job, NoJob, ProjectColumn
    <2>2. /\ job' = [job EXCEPT ![w] = q] /\ job[w].pc = "none"
          /\ UNCHANGED <<scenario, row, owner, files, ran, lock, before>>
          /\ crowded' \subseteq Projects
          /\ scenario.apart => \A j \in Owned(scope, u, p) : NoneAbout(j, Creates)
      BY <1>4, <1>n DEF ScopeBegin, Apart, NoneAbout, TypeOK
    <2> HIDE DEF q
    <2>3. \A j \in Ids : About(w, j)' => j \in Owned(scope, u, p)
      BY <1>0, <2>1, <2>2 DEF About
    <2> QED
      BY <1>0, <2>1, <2>2, <2>3 DEF TakesUp, TypeOK
  <1> QED
    BY <1>1, <1>2, <1>3, <1>4, TakesUpInv DEF Begin

\* What a behaviour is about is fixed when it starts.
LEMMA ScenarioStays == [Next]_vars => UNCHANGED scenario
BY DEF Next, vars, Begin, CreateStep, RemoveStep, CreateBegin, V1Begin,
       RemoveBegin, ScopeBegin, V1List, CheckRow, CheckOwner, Insert, Provision,
       Seed, RefuseEnv, DockerRun, MarkRunning, AbortRemove, AbortMark,
       ScopeNext, TakeLock, DeleteGet, RemoveContainer, DeleteRow, RemoveDir,
       RemoveSnaps, PurgeRows, Claim, Work, Snapshot, Restart

\* The steps of the specification keep the invariant.
LEMMA OwnershipInductive == OwnershipInv /\ [Next]_vars => OwnershipInv'
  <1> SUFFICES ASSUME OwnershipInv, [Next]_vars
               PROVE  OwnershipInv'
    OBVIOUS
  <1>1. CASE UNCHANGED vars
    BY <1>1 DEF vars, OwnershipInv, BaseInv, OwnedInv, TypeOK, JobsFit, LockInv,
                RowShape, ApartInv, RowInv, WorkInv, CreateInv, RemoveInv,
                About, HasRow, HasOwner
  <1> QED
    BY <1>1, ScenarioStays, BeginInv, CreateStepInv, RemoveStepInv, ClaimInv, FilesInv,
       RestartInv DEF Next

\* The inductive invariant behind the ownership properties, for any users, ids
\* and workers, any fault and any number of restarts.
THEOREM OwnershipInvariant == Spec => []OwnershipInv
  <1>1. Init => OwnershipInv
    BY DEF Init, OwnershipInv, BaseInv, OwnedInv, TypeOK, Row, Owner, Job, JobsFit,
           LockInv, RowShape, ApartInv, RowInv, WorkInv, CreateInv, RemoveInv,
           About, HasRow, HasOwner, NoRow, NoOwner, NoJob, ProjectColumn
  <1> QED
    BY <1>1, OwnershipInductive, PTL DEF Spec

-----------------------------------------------------------------------------
(***************************************************************************)
(* One sandbox per project                                                 *)
(***************************************************************************)
BeforeInsert == {"row", "owner", "insert"}

\* p is a project that is not crowded.
Free(p) == p # {} /\ p \cap crowded = {}

\* A v1 create of a free project found no sandbox of it when it began, and what
\* it inserts is the only one.
V1Job(w) ==
  /\ job[w].op = "create" => job[w].project \subseteq crowded
  /\ job[w].op = "v1" => job[w].project # {}
  /\ Free(job[w].project) =>
       /\ job[w].pc \in BeforeInsert => Existing(job[w].project) = {}
       /\ job[w].pc \in AfterInsert => Existing(job[w].project) \subseteq {job[w].id}

\* A free project has one v1 create at a time.
V1Inv ==
  /\ \A w \in Workers : V1Job(w)
  /\ \A w, o \in Workers :
       /\ job[w].op = "v1" /\ job[o].op = "v1"
       /\ job[w].project = job[o].project /\ Free(job[w].project)
       => w = o

OnePerProject == \A p \in Projects \ crowded : \A i, j \in Existing({p}) : i = j

ProjectInv == scenario.apart => V1Inv /\ OnePerProject

\* No free project gets a sandbox, and no v1 create begins or moves.
Quiet ==
  /\ crowded \subseteq crowded'
  /\ \A p \in ProjectColumn : Free(p)' => Existing(p)' \subseteq Existing(p)
  /\ \A o \in Workers :
       \/ job'[o] = job[o]
       \/ job'[o].op \notin Creates /\ job'[o].pc \notin CreateSteps
       \/ job'[o].op = "create" /\ job'[o].project \subseteq crowded'

\* A create moves on or ends; the only sandbox it adds is its own, from its
\* INSERT on.
Builds(w) ==
  /\ UNCHANGED crowded
  /\ job[w].pc \in CreateSteps
  /\ \/ Ends(w)
     \/ \E p \in CreateSteps :
          /\ Moves(w, p)
          /\ p \in BeforeInsert => job[w].pc \in BeforeInsert
  /\ \A p \in ProjectColumn :
       Existing(p)' \subseteq
         IF p = job[w].project /\ job'[w].pc \notin BeforeInsert
         THEN Existing(p) \cup {job[w].id} ELSE Existing(p)

\* A step that gives no free project a sandbox.
LEMMA QuietInv ==
  ASSUME OwnershipInv, V1Inv, OnePerProject, Quiet
  PROVE  V1Inv' /\ OnePerProject'
  <1>1. \A w \in Workers : job[w].project \in ProjectColumn
    BY DEF OwnershipInv, BaseInv, TypeOK, Job
  <1>2. \A p \in Projects : {p} \in ProjectColumn
    BY DEF ProjectColumn
  <1>3. \A p \in ProjectColumn : Free(p)' => Free(p)
    BY DEF Quiet, Free
  <1>4. OnePerProject'
    BY <1>2 DEF OnePerProject, Quiet, Free
  <1>5. ASSUME NEW w \in Workers
        PROVE  V1Job(w)'
    <2>1. CASE job'[w] = job[w]
      <3>2. Free(job[w].project)' =>
              Free(job[w].project) /\ Existing(job[w].project)' \subseteq Existing(job[w].project)
        BY <1>1, <1>3, <2>1 DEF Quiet, Free
      <3>3. crowded \subseteq crowded'
        BY DEF Quiet
      <3> QED
        BY <1>1, <2>1, <3>2, <3>3 DEF V1Inv, V1Job, BeforeInsert
    <2>2. CASE job'[w].op \notin Creates /\ job'[w].pc \notin CreateSteps
      BY <2>2 DEF V1Job, BeforeInsert
    <2>3. CASE job'[w].op = "create" /\ job'[w].project \subseteq crowded'
      <3>1. ~Free(job[w].project)'
        BY <2>3 DEF Free
      <3> QED
        BY <2>3, <3>1 DEF V1Job
    <2> QED
      BY <2>1, <2>2, <2>3 DEF Quiet
  <1>6. V1Inv'
    <2>1. \A w \in Workers : job'[w].op = "v1" => job'[w] = job[w]
      BY DEF Quiet
    <2>2. \A w \in Workers : job'[w] = job[w] =>
            (Free(job[w].project)' => Free(job[w].project))
      BY <1>1 DEF Quiet, Free
    <2> QED
      BY <1>5, <2>1, <2>2 DEF V1Inv
  <1> QED
    BY <1>4, <1>6

\* A step of the create of a free project.
LEMMA FreeBuildsInv ==
  ASSUME OwnershipInv, V1Inv, OnePerProject, NEW w \in Workers, Builds(w),
         Free(job[w].project)
  PROVE  V1Inv' /\ OnePerProject'
  <1> USE DEF Builds, BeforeInsert
  <1>1. /\ \A o \in Workers : job[o].project \in ProjectColumn
        /\ \A o \in Workers : job[o].pc \in CreateSteps /\ Free(job[o].project)
                              => job[o].op = "v1"
    BY DEF OwnershipInv, BaseInv, TypeOK, Job, JobsFit, V1Inv, V1Job, Free
  <1>2. \A p \in Projects : {p} \in ProjectColumn
    BY DEF ProjectColumn
  <1>3. Existing(job[w].project) \subseteq {job[w].id}
    BY DEF V1Inv, V1Job
  <1>4. OnePerProject'
    <2>1. \A p \in ProjectColumn :
            \/ Existing(p)' \subseteq Existing(p)
            \/ \A i, j \in Existing(p)' : i = j
      BY <1>3
    <2> QED
      BY <1>2, <2>1 DEF OnePerProject
  <1>f. \A p : Free(p)' <=> Free(p)
    BY DEF Free
  <1>5. ASSUME NEW o \in Workers, o # w
        PROVE  V1Job(o)'
    <2>1. job'[o] = job[o]
      BY <1>5 DEF Moves, Ends
    <2>2. job[o].pc \in CreateSteps /\ Free(job[o].project) => job[o].project # job[w].project
      BY <1>1, <1>5 DEF V1Inv
    <2>3. Free(job[o].project)' <=> Free(job[o].project)
      BY <2>1 DEF Free
    <2> QED
      BY <1>1, <2>1, <2>2, <2>3 DEF V1Inv, V1Job
  <1>6. V1Job(w)'
    <2>1. CASE Ends(w)
      BY <2>1 DEF Ends, V1Job
    <2>2. ASSUME NEW p \in CreateSteps, Moves(w, p),
                 p \in BeforeInsert => job[w].pc \in BeforeInsert
          PROVE  V1Job(w)'
      BY <1>1, <1>3, <2>2 DEF Moves, V1Inv, V1Job
    <2> QED
      BY <2>1, <2>2
  <1>7. \A o \in Workers :
          job'[o].op = "v1" => job[o].op = "v1" /\ job'[o].project = job[o].project
    BY DEF Moves, Ends
  <1>8. V1Inv'
    <2>1. \A o \in Workers :
            job'[o].op = "v1" => (Free(job[o].project)' <=> Free(job[o].project))
      BY <1>7 DEF Free
    <2> QED
      BY <1>5, <1>6, <1>7, <2>1 DEF V1Inv
  <1> QED
    BY <1>4, <1>8

\* A step of the create of a crowded project, or of none.
LEMMA OtherBuildsInv ==
  ASSUME OwnershipInv, V1Inv, OnePerProject, NEW w \in Workers, Builds(w),
         ~Free(job[w].project)
  PROVE  V1Inv' /\ OnePerProject'
  <1> USE DEF Builds
  <1>1. \A p \in ProjectColumn : Free(p) => Existing(p)' \subseteq Existing(p)
    OBVIOUS
  <1>2. \A o \in Workers : job[o].project \in ProjectColumn
    BY DEF OwnershipInv, BaseInv, TypeOK, Job
  <1>3. OnePerProject'
    BY <1>1 DEF OnePerProject, ProjectColumn, Free
  <1>4. \A o \in Workers : o # w => job'[o] = job[o]
    BY DEF Moves, Ends
  <1>5. \/ job'[w].op = "none" /\ job'[w].pc = "none"
        \/ job'[w].op = job[w].op /\ job'[w].project = job[w].project
    BY DEF Moves, Ends
  <1>6. ASSUME NEW o \in Workers
        PROVE  V1Job(o)'
    <2>1. CASE o # w
      <3>1. job'[o] = job[o] /\ (Free(job[o].project)' <=> Free(job[o].project))
        BY <1>4, <2>1 DEF Free
      <3> QED
        BY <1>1, <1>2, <3>1 DEF V1Inv, V1Job, BeforeInsert
    <2>2. CASE o = w /\ job'[w].op = "none" /\ job'[w].pc = "none"
      BY <2>2 DEF V1Job, BeforeInsert
    <2>3. CASE o = w /\ job'[w].op = job[w].op /\ job'[w].project = job[w].project
      <3>1. ~Free(job[w].project)'
        BY <2>3 DEF Free
      <3> QED
        BY <2>3, <3>1 DEF V1Inv, V1Job
    <2> QED
      BY <1>5, <2>1, <2>2, <2>3
  <1>7. \A o \in Workers :
          job'[o].op = "v1" =>
            /\ job[o].op = "v1" /\ job'[o].project = job[o].project
            /\ Free(job[o].project)' <=> Free(job[o].project)
    BY <1>4, <1>5 DEF Free
  <1>8. V1Inv'
    BY <1>6, <1>7 DEF V1Inv
  <1> QED
    BY <1>3, <1>8

\* A v1 create begins, or has looked for the sandbox of its project: either it
\* is alone and found none, or the project is crowded.
Looks(w) ==
  /\ crowded \subseteq crowded'
  /\ \A p \in ProjectColumn : Existing(p)' = Existing(p)
  /\ \A o \in Workers : o # w => job'[o] = job[o]
  /\ job'[w].op = "v1" /\ job'[w].project \in ProjectColumn \ {{}}
  /\ Free(job[w].project)' =>
       /\ \A o \in Workers :
            o # w /\ job[o].op = "v1" => job[o].project # job'[w].project
       /\ \/ job'[w].pc = "list"
          \/ job'[w].pc = "row" /\ Existing(job'[w].project) = {}

\* A v1 create looks for the sandbox of its project.
LEMMA LooksInv ==
  ASSUME OwnershipInv, V1Inv, OnePerProject, NEW w \in Workers, Looks(w)
  PROVE  V1Inv' /\ OnePerProject'
  <1> USE DEF Looks, BeforeInsert
  <1>1. \A o \in Workers : job[o].project \in ProjectColumn
    BY DEF OwnershipInv, BaseInv, TypeOK, Job
  <1>2. \A p \in Projects : {p} \in ProjectColumn
    BY DEF ProjectColumn
  <1>3. OnePerProject'
    BY <1>2 DEF OnePerProject
  <1>f. \A o \in Workers : o # w => (Free(job[o].project)' => Free(job[o].project))
    BY DEF Free
  <1>4. \A o \in Workers : o # w => V1Job(o)'
    BY <1>1, <1>f DEF V1Inv, V1Job
  <1>5. V1Job(w)'
    BY DEF V1Job
  <1>6. V1Inv'
    <2> SUFFICES ASSUME NEW u \in Workers, NEW o \in Workers,
                        job'[u].op = "v1", job'[o].op = "v1",
                        job'[u].project = job'[o].project, Free(job[u].project)'
                 PROVE  u = o
      BY <1>4, <1>5 DEF V1Inv
    <2>1. CASE u = w \/ o = w
      BY <2>1 DEF Free
    <2>2. CASE u # w /\ o # w
      BY <1>f, <2>2 DEF V1Inv
    <2> QED
      BY <2>1, <2>2
  <1> QED
    BY <1>3, <1>6

\* The steps of the v1 create and of its inner create.
LEMMA V1CreateSteps ==
  ASSUME OwnershipInv, scenario.apart, V1Inv, NEW w \in Workers, CreateStep(w)
  PROVE  Quiet \/ Builds(w) \/ Looks(w)
  <1> USE DEF OwnershipInv, BaseInv, BeforeInsert
  <1>0. /\ row' = row => \A p \in ProjectColumn : Existing(p)' = Existing(p)
        /\ job[w].pc \in CreateSteps => job[w].id \in Ids
        /\ job[w].project \in ProjectColumn
    BY DEF Existing, TypeOK, Job, JobsFit
  <1>j. Done(w) => Ends(w)
    BY DoneEnds
  <1>m. \A p \in CreateSteps : Goto(w, p) => Moves(w, p)
    BY GotoMoves DEF Steps
  <1>e. Ends(w) => job'[w].pc = "none"
    BY DEF Ends
  <1>p. \A p \in CreateSteps : Moves(w, p) => job'[w].pc = p
    BY DEF Moves
  <1>1. CASE V1List(w)
    <2>0. /\ crowded \subseteq crowded' /\ job[w].pc = "list"
          /\ \A p \in ProjectColumn : Existing(p)' = Existing(p)
      BY <1>0, <1>1 DEF V1List
    <2>1. CASE Done(w)
      BY <1>j, <2>0, <2>1 DEF Ends, Quiet
    <2>2. ASSUME NEW i \in Ids,
                 job' = [job EXCEPT ![w].pc = "row", ![w].id = i]
          PROVE  Quiet \/ Looks(w)
      <3>1. /\ \A o \in Workers : o # w => job'[o] = job[o]
            /\ job'[w].op = job[w].op /\ job'[w].project = job[w].project
            /\ job'[w].pc = "row"
        <4> DEFINE q == [job[w] EXCEPT !.pc = "row", !.id = i]
        <4>1. q.pc = "row" /\ q.op = job[w].op /\ q.project = job[w].project
          BY DEF TypeOK, Job
        <4>2. job' = [job EXCEPT ![w] = q]
          BY <2>2 DEF TypeOK
        <4> HIDE DEF q
        <4> QED
          BY <4>1, <4>2 DEF TypeOK
      <3>2. CASE job[w].op = "create"
        BY <2>0, <3>1, <3>2 DEF Quiet, V1Inv, V1Job
      <3>3. CASE job[w].op = "v1"
        <4>1. Existing(job[w].project) # {} => job[w].project \subseteq crowded'
          BY <1>1, <3>1 DEF V1List
        <4>2. Free(job[w].project)' =>
                /\ Free(job[w].project)
                /\ Existing(job[w].project) = {}
          BY <2>0, <3>1, <4>1 DEF Free
        <4>3. job[w].project # {}
          BY <3>3 DEF V1Inv, V1Job
        <4> QED
          BY <1>0, <2>0, <3>1, <3>3, <4>2, <4>3 DEF Looks, V1Inv
      <3> QED
        BY <2>0, <3>2, <3>3 DEF JobsFit
    <2> QED
      BY <1>1, <2>1, <2>2 DEF V1List
  <1>2. CASE CheckRow(w) \/ CheckOwner(w) \/ Provision(w) \/ Seed(w)
             \/ RefuseEnv(w) \/ DockerRun(w) \/ AbortRemove(w)
    <2>1. row' = row /\ crowded' = crowded /\ job[w].pc \in CreateSteps
      BY <1>2 DEF CheckRow, CheckOwner, Provision, Seed, RefuseEnv, DockerRun,
                  AbortRemove
    <2>2. \/ Ends(w)
          \/ \E p \in CreateSteps :
               Moves(w, p) /\ (p \in BeforeInsert => job[w].pc \in BeforeInsert)
      BY <1>2, <1>j, <1>m DEF CheckRow, CheckOwner, Provision, Seed, RefuseEnv,
                              DockerRun, AbortRemove
    <2> QED
      BY <1>0, <2>1, <2>2 DEF Builds
  <1>3. CASE Insert(w)
    <2>0. job[w].pc = "insert" /\ crowded' = crowded
      BY <1>3 DEF Insert
    <2>1. CASE Ends(w) /\ UNCHANGED <<row, owner>>
      BY <1>0, <2>0, <2>1 DEF Builds
    <2>2. CASE Inserts(w)
      <3>1. \A p \in ProjectColumn :
              Existing(p)' \subseteq IF p = job[w].project
                                     THEN Existing(p) \cup {job[w].id}
                                     ELSE Existing(p)
        BY <2>2 DEF Inserts, Existing
      <3>2. Ends(w) \/ Moves(w, "provision")
        BY <2>2 DEF Inserts
      <3> QED
        BY <1>e, <1>p, <2>0, <3>1, <3>2 DEF Builds
    <2> QED
      BY <1>3, <2>1, <2>2, InsertRows
  <1>4. CASE MarkRunning(w) \/ AbortMark(w)
    <2>0. /\ job[w].pc \in AfterInsert /\ row[job[w].id].project = job[w].project
          /\ crowded' = crowded
      BY <1>0, <1>4 DEF MarkRunning, AbortMark, OwnedInv, CreateInv
    <2>1. \/ row' = row
          \/ \E st \in {"running", "error"} : row' = [row EXCEPT ![job[w].id].status = st]
      BY <1>4 DEF MarkRunning, AbortMark
    <2>2. \A p \in ProjectColumn :
            Existing(p)' \subseteq IF p = job[w].project
                                   THEN Existing(p) \cup {job[w].id}
                                   ELSE Existing(p)
      <3>1. \A j \in Ids : j # job[w].id => row'[j] = row[j]
        BY <2>1 DEF TypeOK
      <3>2. row'[job[w].id].project = job[w].project
        BY <1>0, <2>0, <2>1 DEF TypeOK, Row
      <3> QED
        BY <3>1, <3>2 DEF Existing
    <2>3. Ends(w) \/ Moves(w, "abort")
      BY <1>4, <1>j, <1>m DEF MarkRunning, AbortMark
    <2> QED
      BY <1>e, <1>p, <2>0, <2>2, <2>3 DEF Builds
  <1> QED
    BY <1>1, <1>2, <1>3, <1>4 DEF CreateStep

\* The beginning of an operation.
LEMMA V1BeginSteps ==
  ASSUME OwnershipInv, V1Inv, NEW w \in Workers, Begin(w)
  PROVE  Quiet \/ Looks(w)
  <1> USE DEF OwnershipInv, BaseInv
  <1>0. ASSUME NEW q, job' = [job EXCEPT ![w] = q]
        PROVE  job'[w] = q /\ \A o \in Workers : o # w => job'[o] = job[o]
    BY <1>0 DEF TypeOK
  <1>1. \A p \in ProjectColumn : Existing(p)' = Existing(p)
    BY DEF Begin, CreateBegin, V1Begin, RemoveBegin, ScopeBegin, Existing
  <1>2. ASSUME NEW i \in Ids, NEW u \in Users, NEW p \in ProjectColumn,
               CreateBegin(w, i, u, p)
        PROVE  Quiet
    <2> DEFINE q == [NoJob EXCEPT !.op = "create", !.id = i, !.user = u,
                                  !.project = p, !.pc = "row"]
    <2>1. q.op = "create" /\ q.project = p
      BY DEF NoJob
    <2>2. job' = [job EXCEPT ![w] = q] /\ crowded' = crowded \cup p
      BY <1>2 DEF CreateBegin
    <2> HIDE DEF q
    <2> QED
      BY <1>0, <1>1, <2>1, <2>2 DEF Quiet
  <1>3. ASSUME NEW u \in Users, NEW p \in Projects, V1Begin(w, u, p)
        PROVE  Looks(w)
    <2> DEFINE q == [NoJob EXCEPT !.op = "v1", !.user = u,
                                  !.project = {p}, !.pc = "list"]
    <2>1. q.op = "v1" /\ q.project = {p} /\ q.pc = "list"
      BY DEF NoJob
    <2>2. /\ job' = [job EXCEPT ![w] = q]
          /\ crowded \subseteq crowded'
          /\ \/ \A o \in Workers : ~(job[o].op = "v1" /\ job[o].project = {p})
             \/ p \in crowded'
      BY <1>3 DEF V1Begin
    <2> HIDE DEF q
    <2> QED
      BY <1>0, <1>1, <2>1, <2>2 DEF Looks, ProjectColumn, Free
  <1>4. ASSUME NEW i \in Ids, NEW op \in {"delete", "purge"}, RemoveBegin(w, op, i)
        PROVE  Quiet
    <2> DEFINE q == [NoJob EXCEPT !.op = op, !.id = i, !.pc = "lock"]
    <2>1. /\ q.op = op /\ q.pc = "lock" /\ job' = [job EXCEPT ![w] = q]
          /\ crowded' = crowded
      BY <1>4 DEF RemoveBegin, NoJob
    <2> HIDE DEF q
    <2> QED
      BY <1>0, <1>1, <2>1 DEF Quiet
  <1>5. ASSUME NEW u \in Users, NEW p \in Projects, NEW scope \in {"user", "project"},
               ScopeBegin(w, scope, u, p)
        PROVE  Quiet
    <2> DEFINE q == [NoJob EXCEPT !.op = scope, !.user = u, !.project = {p},
                                  !.pc = "next", !.left = Owned(scope, u, p)]
    <2>1. /\ q.op = scope /\ q.pc = "next" /\ job' = [job EXCEPT ![w] = q]
          /\ crowded' = crowded
      BY <1>5 DEF ScopeBegin, NoJob
    <2> HIDE DEF q
    <2> QED
      BY <1>0, <1>1, <2>1 DEF Quiet
  <1> QED
    BY <1>2, <1>3, <1>4, <1>5 DEF Begin

\* The steps of delete, purge and claim.
LEMMA V1RemoveSteps ==
  ASSUME OwnershipInv, NEW w \in Workers, RemoveStep(w)
  PROVE  Quiet
  <1> USE DEF OwnershipInv, BaseInv
  <1>1. \/ row' = row
        \/ \E i \in Ids : row' = [row EXCEPT ![i] = NoRow]
    BY DEF RemoveStep, ScopeNext, TakeLock, DeleteGet, RemoveContainer, DeleteRow,
           RemoveDir, RemoveSnaps, PurgeRows, JobsFit
  <1>2. \A p \in ProjectColumn : Existing(p)' \subseteq Existing(p)
    BY <1>1 DEF Existing, NoRow, TypeOK
  <1>3. job[w].op \in Removals /\ crowded' = crowded
    BY DEF RemoveStep, ScopeNext, TakeLock, DeleteGet, RemoveContainer, DeleteRow,
           RemoveDir, RemoveSnaps, PurgeRows, JobsFit
  <1> DEFINE RemovesOn ==
        /\ \A o \in Workers : o # w => job'[o] = job[o]
        /\ job'[w].op \in {"none", job[w].op} /\ job'[w].pc \notin CreateSteps
  <1>4. RemovesOn
    <2>1. CASE Done(w)
      BY <2>1, DoneEnds DEF Ends
    <2>2. ASSUME NEW p \in LockedSteps, Goto(w, p)
          PROVE  RemovesOn
      BY <2>2, GotoMoves DEF Moves, Steps
    <2>3. ASSUME NEW ok \in BOOLEAN, Return(w, ok)
          PROVE  RemovesOn
      BY <2>3, ReturnLeaves DEF LockedLeft
    <2>4. ASSUME NEW i \in Ids,
                 job' = [job EXCEPT ![w].id = i, ![w].left = @ \ {i}, ![w].pc = "lock"]
          PROVE  RemovesOn
      <3> DEFINE q == [job[w] EXCEPT !.id = i, !.left = @ \ {i}, !.pc = "lock"]
      <3>1. q.op = job[w].op /\ q.pc = "lock"
        BY DEF TypeOK, Job
      <3>2. job' = [job EXCEPT ![w] = q]
        BY <2>4 DEF TypeOK
      <3> HIDE DEF q
      <3> QED
        BY <3>1, <3>2 DEF TypeOK
    <2>5. CASE ScopeNext(w)
      BY <2>1, <2>4, <2>5 DEF ScopeNext, TypeOK, Job
    <2>6. CASE ~ScopeNext(w)
      BY <2>2, <2>3, <2>6 DEF RemoveStep, TakeLock, DeleteGet, RemoveContainer,
         DeleteRow, RemoveDir, RemoveSnaps, PurgeRows
    <2> QED
      BY <2>5, <2>6
  <1> QED
    BY <1>2, <1>3, <1>4 DEF Quiet

\* A restart adds no row.
LEMMA V1RestartStep ==
  ASSUME OwnershipInv, Restart
  PROVE  Quiet
  <1>1. \A o \in Workers : job'[o].op = "none" /\ job'[o].pc = "none"
    BY DEF Restart, NoJob
  <1>2. \A i \in Ids : /\ row'[i].project = row[i].project
                       /\ row[i].status \in {"none", "error"} => row'[i] = row[i]
    BY DEF OwnershipInv, BaseInv, TypeOK, Row, Restart
  <1>3. crowded' = crowded
    BY DEF Restart
  <1> QED
    BY <1>1, <1>2, <1>3 DEF Quiet, Existing

\* A claim names its project.
LEMMA V1ClaimStep ==
  ASSUME OwnershipInv, NEW i \in Ids, NEW u \in Users, NEW p \in ProjectColumn,
         Claim(i, u, p)
  PROVE  Quiet
  <1>1. /\ job' = job /\ crowded' = crowded \cup p
        /\ \A j \in Ids : j # i => row'[j] = row[j]
        /\ row'[i].project = p
    BY DEF OwnershipInv, BaseInv, TypeOK, Row, Claim
  <1> QED
    BY <1>1 DEF Quiet, Existing, Free

\* Every step preserves the project invariant.
LEMMA ProjectInductive == OwnershipInv /\ ProjectInv /\ [Next]_vars => ProjectInv'
  <1> SUFFICES ASSUME OwnershipInv, scenario.apart, V1Inv, OnePerProject, [Next]_vars
               PROVE  V1Inv' /\ OnePerProject'
    BY ScenarioStays DEF ProjectInv
  <1>1. CASE UNCHANGED vars
    BY <1>1 DEF vars, V1Inv, V1Job, OnePerProject, Existing, Free
  <1>2. ASSUME NEW w \in Workers, Begin(w)
        PROVE  V1Inv' /\ OnePerProject'
    BY <1>2, V1BeginSteps, QuietInv, LooksInv
  <1>3. ASSUME NEW w \in Workers, CreateStep(w)
        PROVE  V1Inv' /\ OnePerProject'
    BY <1>3, V1CreateSteps, QuietInv, FreeBuildsInv, OtherBuildsInv, LooksInv
  <1>4. ASSUME NEW w \in Workers, RemoveStep(w)
        PROVE  V1Inv' /\ OnePerProject'
    BY <1>4, V1RemoveSteps, QuietInv
  <1>5. ASSUME NEW i \in Ids, NEW u \in Users, NEW p \in ProjectColumn, Claim(i, u, p)
        PROVE  V1Inv' /\ OnePerProject'
    BY <1>5, V1ClaimStep, QuietInv
  <1>6. ASSUME NEW i \in Ids, Work(i) \/ Snapshot(i)
        PROVE  V1Inv' /\ OnePerProject'
    BY <1>6, QuietInv DEF Work, Snapshot, Quiet, Existing
  <1>7. CASE Restart
    BY <1>7, V1RestartStep, QuietInv
  <1> QED
    BY <1>1, <1>2, <1>3, <1>4, <1>5, <1>6, <1>7 DEF Next

-----------------------------------------------------------------------------
(***************************************************************************)
(* The properties                                                          *)
(***************************************************************************)
\* Every variable keeps its type.
THEOREM TypeCorrect == Spec => []TypeOK
  <1>1. OwnershipInv => TypeOK
    BY DEF OwnershipInv, BaseInv
  <1> QED
    BY <1>1, OwnershipInvariant, PTL

\* handlers.go:426: whoever an id is created for again finds in its workspace
\* nobody's work but his own, or what came with a claim.
THEOREM ContentKept == Spec => []ContentStaysWithOwner
  <1>1. OwnershipInv => ContentStaysWithOwner
    BY DEF OwnershipInv, BaseInv, OwnedInv, RowShape, RowInv, WorkInv,
           ContentStaysWithOwner
  <1> QED
    BY <1>1, OwnershipInvariant, PTL

\* external_purge.go:17: the owner row by which the next purge finds the work
\* in a workspace or a snapshot is there as long as the work is.
THEOREM ContentOwned == Spec => []ContentHasOwner
  <1>1. OwnershipInv => ContentHasOwner
    BY DEF OwnershipInv, BaseInv, OwnedInv, RowShape, WorkInv, ContentHasOwner
  <1> QED
    BY <1>1, OwnershipInvariant, PTL

\* The invariant of the v1 creates.
THEOREM ProjectInvariant == Spec => []ProjectInv
  <1>1. Init => ProjectInv
    BY DEF Init, ProjectInv, V1Inv, V1Job, OnePerProject, Existing, NoRow, NoJob,
           BeforeInsert, Free
  <1> QED
    BY <1>1, ProjectInductive, OwnershipInvariant, PTL DEF Spec

\* v1.go:178: one durable sandbox per project, across failed creates, restarts,
\* deletes and purges; a second one takes two v1 creates that overlap, a failed
\* lookup, or a create or claim that names the project.
THEOREM OneSandbox == Spec => []OneSandboxPerProject
  <1>1. ASSUME ProjectInv, scenario.apart, NEW p \in Projects \ crowded
        PROVE  Cardinality(Existing({p})) <= 1
    <2>1. CASE Existing({p}) = {}
      BY <2>1, FS_EmptySet
    <2>2. ASSUME NEW i \in Existing({p})
          PROVE  Cardinality(Existing({p})) <= 1
      <3>1. Existing({p}) = {i}
        BY <1>1 DEF ProjectInv, OnePerProject
      <3> QED
        BY <3>1, FS_Singleton
    <2> QED
      BY <2>1, <2>2
  <1>2. ProjectInv => OneSandboxPerProject
    BY <1>1 DEF OneSandboxPerProject
  <1> QED
    BY <1>2, ProjectInvariant, PTL

=============================================================================
