------------------------- MODULE PackageListProofs --------------------------
(***************************************************************************)
(* Theorems about the list: what refreshes, deletes, registrations and     *)
(* deaths of the process can do to the store, in any order.                *)
(***************************************************************************)
EXTENDS PackageList, PackageStoreProofs, FiniteSetTheorems

USE StoreAssumption, ListAssumption

\* Marks that could not be saved include a row that is outdated for the other
\* context.  No fetch refreshes a marked row, so they stay that way.
MarksAreStuck == deletes # {} => ~CanDelete(deletes)

ListInv == StoreInv /\ MarksAreStuck

LEMMA ListInvInit == Init => ListInv
  BY StoreInitInv DEF Init, StoreInit, ListInv, MarksAreStuck

\* Steps that touch neither the rows nor the two sets of the other context.
LEMMA SameMarks ==
  ASSUME MarksAreStuck, fresh' \subseteq fresh, UNCHANGED deletes
  PROVE  MarksAreStuck'
  BY DEF MarksAreStuck, CanDelete

\* A fetch of the other context.
LEMMA FetchInv ==
  ASSUME ListInv, LoadSaveData(Live, deletes),
         UNCHANGED <<rows, lastId, deletes, inflight, worker, proc>>
  PROVE  ListInv'
<1>1. fresh' \subseteq Live
  BY DEF LoadSaveData, FreshAfterFetch, ListInv, StoreInv, RowsTypeOK
<1>2. StoreInv'
  BY <1>1 DEF ListInv, StoreInv, RowsTypeOK, WorkerInv, InflightInv, Live
<1>3. MarksAreStuck'
  BY DEF LoadSaveData, FreshAfterFetch, ListInv, MarksAreStuck, CanDelete
<1> QED
  BY <1>2, <1>3 DEF ListInv

LEMMA CommitInv ==
  ASSUME ListInv, NEW k \in Ids, Commit(k)
  PROVE  ListInv' /\ RowStep
<1> DEFINE marked == deletes \cup {eventArray[k]}
<1>1. CASE CanDelete(marked)
  <2>1. /\ rows' = Without(marked)
        /\ deletes' = {}
        /\ fresh' = FreshAfterFetch(Live \ marked, {})
        /\ UNCHANGED <<lastId, inflight, worker, proc>>
    BY <1>1 DEF Commit, LoadSaveData
  <2>2. fresh' \subseteq Live \ marked
    BY <2>1 DEF FreshAfterFetch
  <2> HIDE DEF marked
  <2>3. StoreInv'
    BY <2>1, <2>2, RemoveRowsInv DEF ListInv
  <2> QED
    BY <2>1, <2>3 DEF ListInv, MarksAreStuck, RowStep, RowsGo
<1>2. CASE ~CanDelete(marked)
  <2>1. /\ deletes' = marked
        /\ fresh' = FreshAfterFetch(Live, marked)
        /\ UNCHANGED <<rows, lastId, inflight, worker, proc>>
    BY <1>2 DEF Commit, LoadSaveData
  <2> HIDE DEF marked
  <2>2. fresh' \subseteq Live
    BY <2>1 DEF FreshAfterFetch, ListInv, StoreInv, RowsTypeOK
  <2>3. StoreInv'
    BY <2>1, <2>2 DEF ListInv, StoreInv, RowsTypeOK, WorkerInv, InflightInv, Live
  <2>4. MarksAreStuck'
    BY <1>2, <2>1 DEF FreshAfterFetch, MarksAreStuck, CanDelete
  <2> QED
    BY <2>1, <2>3, <2>4 DEF ListInv, RowStep, RowsSame
<1> QED
  BY <1>1, <1>2

\* Every end of the process.
LEMMA DeathInv ==
  ASSUME ListInv, NEW why \in Deaths, Die(why)
  PROVE  ListInv' /\ RowStep
<1>1. worker'.phase = "idle" /\ UNCHANGED <<rows, lastId>> /\ deletes' = {}
  BY DEF Die, IdleWorker
<1> QED
  BY <1>1, DieInv DEF ListInv, MarksAreStuck, RowStep, RowsSame

\* Steps that leave the store and its users as they are.
LEMMA StoreStays ==
  ASSUME ListInv, UNCHANGED storeVars
  PROVE  ListInv' /\ RowStep
  BY DEF storeVars, ListInv, StoreInv, RowsTypeOK, WorkerInv, InflightInv, Live, MarksAreStuck,
     CanDelete, RowStep, RowsSame

LEMMA UserStepInv ==
  ASSUME ListInv, UserStep
  PROVE  ListInv' /\ RowStep
<1>1. CASE Appear
  <2>1. PICK g \in Groups : inflight' = inflight \cup Ask([id \in Live |-> rows[id].code], g)
    BY <1>1 DEF Appear
  <2>2. UNCHANGED <<rows, lastId, fresh, deletes, worker, proc>>
    BY <1>1 DEF Appear
  <2>3. StoreInv'
    BY <2>1, <2>2, AskAllInv DEF ListInv
  <2> QED
    BY <2>2, <2>3, SameMarks DEF ListInv, RowStep, RowsSame
<1>2. CASE \/ LeaveTab \/ OpenFilter \/ CancelFilter
           \/ \E t \in OfferedTemplates : ChooseFilter(t)
           \/ \E k \in Ids : ShowDetail(k)
  <2>1. UNCHANGED storeVars
    BY <1>2 DEF LeaveTab, OpenFilter, CancelFilter, ChooseFilter, ShowDetail
  <2> QED
    BY <2>1, StoreStays
<1>3. CASE \E k \in Ids : Commit(k)
  BY <1>3, CommitInv
<1>4. CASE CommitEmptyState \/ \E k \in Ids : CommitBeyond(k)
  BY <1>4, DeathInv DEF CommitEmptyState, CommitBeyond, Deaths
<1> QED
  BY <1>1, <1>2, <1>3, <1>4 DEF UserStep

\* The save on entering the background never succeeds with marks left over.
LEMMA BackgroundInv ==
  ASSUME ListInv, EnterBackground
  PROVE  ListInv' /\ RowStep
<1>1. Die("unresolved")
  BY DEF EnterBackground, ListInv, MarksAreStuck
<1> QED
  BY <1>1, DeathInv DEF Deaths

LEMMA StoreStepInv ==
  ASSUME ListInv, StoreStep
  PROVE  ListInv' /\ RowStep
<1>1. CASE QueueStep
  <2>1. fresh' \subseteq fresh /\ UNCHANGED deletes
    BY <1>1 DEF QueueStep, Answered, SetStatus, BlankImage, SaveUpdate, Outdate
  <2> QED
    BY <1>1, <2>1, QueueInv, SameMarks DEF ListInv, RowStep, RowsSame
<1>2. CASE QueueDeath \/ Kill
  BY <1>2, DeathInv DEF QueueDeath, AnsweredWithError, SaveUpdateFails, Kill, Deaths
<1>3. CASE EnterBackground
  BY <1>3, BackgroundInv
<1> QED
  BY <1>1, <1>2, <1>3 DEF StoreStep

LEMMA ListStepInv ==
  ASSUME ListInv, ListStep
  PROVE  ListInv' /\ RowStep
<1>1. CASE CompletionLeaves
  <2>1. UpdateReturns
    BY <1>1 DEF CompletionLeaves
  <2>2. UNCHANGED <<rows, lastId, fresh, deletes>> /\ worker'.phase = "idle"
    BY <2>1 DEF UpdateReturns, IdleWorker
  <2> QED
    BY <2>1, <2>2, UpdateReturnsInv, SameMarks DEF ListInv, RowStep, RowsSame
<1>2. CASE FilterFetch \/ FilterShow \/ DetailAlert \/ OtherAlert
  <2>1. UNCHANGED storeVars
    BY <1>2 DEF FilterFetch, FilterShow, DetailAlert, OtherAlert
  <2> QED
    BY <2>1, StoreStays
<1>3. CASE \E g \in Groups : Notify(g)
  BY <1>3, FetchInv DEF Notify, RowStep, RowsSame
<1> QED
  BY <1>1, <1>2, <1>3, UserStepInv DEF ListStep

LEMMA ListNext == ListInv /\ [Next]_vars => ListInv' /\ RowStep
<1> SUFFICES ASSUME ListInv, [Next]_vars PROVE ListInv' /\ RowStep
  OBVIOUS
<1>1. CASE UNCHANGED vars
  BY <1>1, StoreStays DEF vars
<1>2. CASE HomeAdds
  <2>1. PICK p \in HomePackages : AddPackage(p[1], p[2])
    BY <1>2 DEF HomeAdds
  <2>2. p[1] \in Texts /\ p[2] \in Texts
    BY DEF ListAssumption
  <2>3. fresh' \subseteq fresh /\ UNCHANGED deletes
    BY <2>1 DEF AddPackage
  <2> QED
    BY <2>1, <2>2, <2>3, AddPackageInv, SameMarks DEF ListInv, RowStep, RowsSame
<1>3. CASE HomeAddFails
  BY <1>3, DeathInv DEF HomeAddFails, AddPackageFails, Deaths
<1>4. CASE HomeAlert \/ DismissAlert
  <2>1. UNCHANGED storeVars
    BY <1>4 DEF HomeAlert, DismissAlert
  <2> QED
    BY <2>1, StoreStays
<1>5. CASE Relaunch
  BY <1>5, RestartInv DEF Relaunch, Restart, ListInv, MarksAreStuck, CanDelete, RowStep, RowsSame
<1> QED
  BY <1>1, <1>2, <1>3, <1>4, <1>5, ListStepInv, StoreStepInv DEF Next

LEMMA ListInvAlways == Spec => []ListInv
  BY ListInvInit, ListNext, PTL DEF Spec

\* Whatever runs concurrently, each filter finds the packages it is named for,
\* but for those a registration has saved with half of an update.
THEOREM FilesByStatus == Spec => MisfiledOnlyByRegistration
<1>1. ListInv /\ [Next]_vars =>
        [\A id \in Live' : Misfiled(rows'[id]) =>
           \/ /\ id \in Live
              /\ rows[id].status = rows'[id].status /\ rows[id].image = rows'[id].image
              /\ ~(worker.id = id /\ worker.phase = "blanked" /\ worker'.phase = "loop")
           \/ lastId' > lastId /\ worker.id = id /\ worker.phase = "dated"]_storeVars
  BY ListNext, RowStepKeeps DEF ListInv, MisfiledByAdd, StaysMisfiled
<1> QED
  BY <1>1, ListInvAlways, PTL DEF Spec, MisfiledOnlyByRegistration

\* No update on its way brings a deleted package back.
THEOREM DeletedStaysDeleted == Spec => NoResurrection
<1>1. ListInv /\ [Next]_vars =>
        [\A id \in Ids : id \notin Live /\ id \in Live' => id > lastId]_storeVars
  BY ListNext, RowStepKeeps DEF ListInv, KeepsKeys
<1> QED
  BY <1>1, ListInvAlways, PTL DEF Spec, NoResurrection

\* No update changes the code or the name of a package.
THEOREM KeepsIdentity == Spec => IdentityKept
<1>1. ListInv /\ [Next]_vars =>
        [\A id \in Live \cap Live' :
           rows'[id].code = rows[id].code /\ rows'[id].name = rows[id].name]_storeVars
  BY ListNext, RowStepKeeps DEF ListInv, KeepsNames
<1> QED
  BY <1>1, ListInvAlways, PTL DEF Spec, IdentityKept

\* Only a registration saves the half-done update of another package.
THEOREM HalfDoneNeedsRegistration == Spec => HalfDoneOnlyByRegistration
<1>1. ListInv /\ [Next]_vars =>
        [\A id \in Live \cap Live' :
           rows[id].image # "blank" /\ rows'[id].image = "blank"
             => lastId' > lastId /\ worker.id = id /\ worker.phase = "blanked"]_storeVars
  BY ListNext, RowStepKeeps DEF ListInv, BlankByAdd
<1> QED
  BY <1>1, ListInvAlways, PTL DEF Spec, HalfDoneOnlyByRegistration

\* Marks left over keep every row in the store: the next delete is rejected
\* with them, the save on entering the background ends the process.
LEMMA StuckMarksKeepRows ==
  ASSUME ListInv, [Next]_vars, deletes # {}
  PROVE  Live \subseteq Live'
<1>1. CASE \E k \in Ids : Commit(k)
  <2>1. PICK k \in Ids : Commit(k)
    BY <1>1
  <2>2. ~CanDelete(deletes \cup {eventArray[k]})
    BY DEF ListInv, MarksAreStuck, CanDelete
  <2> QED
    BY <2>1, <2>2 DEF Commit, Live
<1>2. CASE StoreStep
  <2>1. CASE QueueStep
    BY <2>1, QueueKeepsIdentity DEF ListInv
  <2>2. CASE QueueDeath \/ Kill \/ EnterBackground
    BY <2>2 DEF QueueDeath, AnsweredWithError, SaveUpdateFails, Kill, EnterBackground, Die, Live,
       ListInv, MarksAreStuck
  <2> QED
    BY <1>2, <2>1, <2>2 DEF StoreStep
<1>3. CASE HomeAdds
  BY <1>3, AddPackageRows DEF HomeAdds, ListInv
<1>4. CASE HomeAddFails \/ HomeAlert \/ DismissAlert \/ Relaunch \/ UNCHANGED vars
  BY <1>4 DEF HomeAddFails, AddPackageFails, HomeAlert, DismissAlert, Relaunch, Restart, Die,
     vars, storeVars, Live
<1>5. CASE ListStep /\ ~\E k \in Ids : Commit(k)
  <2>1. UNCHANGED rows
    BY <1>5 DEF ListStep, UserStep, Appear, LeaveTab, OpenFilter, CancelFilter, ChooseFilter,
       ShowDetail, DetailAlert, OtherAlert, CommitBeyond, CommitEmptyState, CompletionLeaves,
       UpdateReturns, FilterFetch, FilterShow,
       Notify, Die, storeVars
  <2> QED
    BY <2>1 DEF Live
<1> QED
  BY <1>1, <1>2, <1>3, <1>4, <1>5 DEF Next

\* After a failed delete nothing can be deleted until the process is restarted.
THEOREM FailedDeleteBlocks == Spec => FailedDeleteBlocksDeletes
<1>1. ListInv /\ [Next]_vars => [deletes # {} => Live \subseteq Live']_storeVars
  BY StuckMarksKeepRows
<1> QED
  BY <1>1, ListInvAlways, PTL DEF Spec, FailedDeleteBlocksDeletes

\* The AppDelegate's save on entering the background never deletes anything: if
\* it has something to save, it ends the process.
THEOREM BackgroundNeverDeletes == Spec => [][EnterBackground => proc' = "unresolved"]_vars
<1>1. ListInv /\ [Next]_vars => [EnterBackground => proc' = "unresolved"]_vars
  BY DEF EnterBackground, ListInv, MarksAreStuck, Die
<1> QED
  BY <1>1, ListInvAlways, PTL DEF Spec

-----------------------------------------------------------------------------
(* The two fatalErrors of saving: what the user would have to leave undone for *)
(* the saves never to fail.                                                    *)

\* Packages are deleted only when no update of theirs is asked for or running,
\* and registered only when none is running.
UpdatesFinishFirst ==
  /\ \A id \in Live \ Live' :
       /\ \A r \in inflight : r.id # id
       /\ worker.phase # "idle" => worker.id # id
  /\ HomeAdds \/ HomeAddFails => worker.phase = "idle"

UpdatesFit ==
  /\ \A r \in inflight : r.id \in Live
  /\ worker.phase # "idle" => worker.id \in Live
  /\ proc # "saveFailed"

LEMMA AsksFit ==
  ASSUME NEW codes, NEW group, DOMAIN codes \subseteq Live
  PROVE  \A r \in Ask(codes, group) : r.id \in Live
  BY DEF Ask

LEMMA DeathFits ==
  ASSUME NEW why, Die(why), why # "saveFailed"
  PROVE  UpdatesFit'
  BY DEF Die, UpdatesFit, IdleWorker

\* Steps that ask for nothing, start nothing and delete only what is not asked for.
LEMMA SameUpdates ==
  ASSUME UpdatesFit, UpdatesFinishFirst, UNCHANGED <<inflight, worker, proc>>
  PROVE  UpdatesFit'
  BY DEF UpdatesFit, UpdatesFinishFirst

LEMMA QueueFits ==
  ASSUME StoreInv, UpdatesFit, QueueStep \/ QueueDeath \/ UpdateReturns
  PROVE  UpdatesFit'
<1>0. Live' = Live
  BY QueueKeepsIdentity
<1>1. CASE \E r \in inflight, s \in Statuses, n \in 0..MaxEvents : Answered(r, s, n)
  <2>1. PICK r \in inflight, s \in Statuses, n \in 0..MaxEvents : Answered(r, s, n)
    BY <1>1
  <2>2. inflight' \subseteq inflight /\ worker'.id = r.id /\ proc' = proc
    BY <2>1 DEF Answered
  <2> QED
    BY <1>0, <2>2 DEF UpdatesFit
<1>2. CASE SetStatus \/ BlankImage \/ SaveUpdate
  <2>1. worker'.id = worker.id /\ worker.phase # "idle" /\ UNCHANGED <<inflight, proc>>
    BY <1>2 DEF SetStatus, BlankImage, SaveUpdate, StoreInv, RowsTypeOK, Workers
  <2> QED
    BY <1>0, <2>1 DEF UpdatesFit
<1>3. CASE QueueDeath
  <2>1. ~SaveUpdateFails
    BY DEF SaveUpdateFails, UpdatesFit
  <2>2. Die("updateFailed")
    BY <1>3, <2>1 DEF QueueDeath, AnsweredWithError
  <2> QED
    BY <2>2, DeathFits
<1>4. CASE UpdateReturns
  BY <1>0, <1>4 DEF UpdateReturns, IdleWorker, UpdatesFit
<1> QED
  BY <1>1, <1>2, <1>3, <1>4 DEF QueueStep

LEMMA UpdatesNext ==
  ASSUME ListInv, UpdatesFit, [Next /\ UpdatesFinishFirst]_vars
  PROVE  UpdatesFit'
<1>1. CASE UNCHANGED vars
  BY <1>1 DEF vars, storeVars, UpdatesFit, Live
<1>2. CASE Next /\ UpdatesFinishFirst
  <2>1. CASE Appear
    <3>1. PICK g \in Groups :
            inflight' = inflight \cup Ask([id \in Live |-> rows[id].code], g)
      BY <2>1 DEF Appear
    <3>2. \A r \in inflight' : r.id \in Live
      BY <3>1, AsksFit DEF UpdatesFit
    <3> QED
      BY <2>1, <3>2 DEF Appear, UpdatesFit, Live
  <2>2. CASE \E k \in Ids : Commit(k)
    <3>1. UNCHANGED <<inflight, worker, proc>>
      BY <2>2 DEF Commit
    <3> QED
      BY <1>2, <3>1, SameUpdates
  <2>3. CASE CommitEmptyState \/ \E k \in Ids : CommitBeyond(k)
    BY <2>3, DeathFits DEF CommitEmptyState, CommitBeyond
  <2>4. CASE CompletionLeaves
    BY <2>4, QueueFits DEF CompletionLeaves, ListInv
  <2>5. CASE ListStep /\ ~(Appear \/ CommitEmptyState \/ CompletionLeaves
                           \/ \E k \in Ids : Commit(k) \/ CommitBeyond(k))
    <3>1. UNCHANGED <<inflight, worker, proc>>
      BY <2>5 DEF ListStep, UserStep, LeaveTab, OpenFilter, CancelFilter, ChooseFilter, ShowDetail,
         DetailAlert, OtherAlert, FilterFetch, FilterShow, Notify, storeVars
    <3> QED
      BY <1>2, <3>1, SameUpdates
  <2>6. CASE StoreStep
    <3>1. CASE QueueStep \/ QueueDeath
      BY <3>1, QueueFits DEF ListInv
    <3>2. CASE EnterBackground \/ Kill
      <4>1. Die("unresolved") \/ Die("killed")
        BY <3>2 DEF EnterBackground, Kill, ListInv, MarksAreStuck
      <4> QED
        BY <4>1, DeathFits
    <3> QED
      BY <2>6, <3>1, <3>2 DEF StoreStep
  <2>7. CASE HomeAdds
    <3>1. PICK p \in HomePackages : AddPackage(p[1], p[2])
      BY <2>7 DEF HomeAdds
    <3>2. Live' = Live \cup {lastId + 1}
      BY <3>1, AddPackageRows DEF ListInv
    <3>3. \A r \in inflight' : r \in inflight \/ r.id = lastId + 1
      BY <3>1 DEF AddPackage, Ask
    <3>4. worker'.phase = worker.phase /\ worker'.id = worker.id /\ proc' = proc
      BY <3>1 DEF AddPackage, ListInv, StoreInv, RowsTypeOK, Workers
    <3> QED
      BY <3>2, <3>3, <3>4 DEF UpdatesFit
  <2>8. CASE HomeAddFails
    <3>1. worker.dirty \/ worker.phase = "blanked"
      BY <2>8 DEF HomeAddFails, AddPackageFails, ManagerConflict
    <3>2. worker.phase # "idle"
      BY <3>1 DEF ListInv, StoreInv, WorkerInv
    <3> QED
      BY <1>2, <2>8, <3>2 DEF UpdatesFinishFirst
  <2>9. CASE HomeAlert \/ DismissAlert
    <3>1. UNCHANGED <<inflight, worker, proc>>
      BY <2>9 DEF HomeAlert, DismissAlert, storeVars
    <3> QED
      BY <1>2, <3>1, SameUpdates
  <2>10. CASE Relaunch
    BY <2>10 DEF Relaunch, Restart, UpdatesFit, Live
  <2> QED
    BY <1>2, <2>1, <2>2, <2>3, <2>4, <2>5, <2>6, <2>7, <2>8, <2>9, <2>10 DEF Next, ListStep,
       UserStep
<1> QED
  BY <1>1, <1>2

\* The manager's save fails for no other reason than that a package is deleted
\* while its update is on its way, or another one registered while an update
\* runs (fatalError at CoreDataManager.swift:119).
THEOREM SavesUnlessOverlapped == Init /\ [][Next /\ UpdatesFinishFirst]_vars => []ManagerSaves
<1>1. Init => ListInv /\ UpdatesFit
  BY ListInvInit DEF Init, StoreInit, IdleWorker, UpdatesFit
<1>2. ListInv /\ UpdatesFit /\ [Next /\ UpdatesFinishFirst]_vars => (ListInv /\ UpdatesFit)'
  BY ListNext, UpdatesNext
<1>3. UpdatesFit => ManagerSaves
  BY DEF UpdatesFit, ManagerSaves
<1> QED
  BY <1>1, <1>2, <1>3, PTL

\* A package is swiped only as long as the AppDelegate's context knows the
\* current version of its row: before its next update is saved.
SwipesCurrent == \A k \in Ids : Commit(k) => eventArray[k] \in fresh

NothingMarked == deletes = {} /\ proc # "unresolved"

LEMMA NothingMarkedNext ==
  ASSUME ListInv, NothingMarked, [Next /\ SwipesCurrent]_vars
  PROVE  NothingMarked'
<1>1. CASE \E k \in Ids : Commit(k)
  <2>1. PICK k \in Ids : Commit(k)
    BY <1>1
  <2>2. eventArray[k] \in fresh \/ UNCHANGED vars
    BY <2>1 DEF SwipesCurrent
  <2>3. CASE eventArray[k] \in fresh
    <3>1. CanDelete(deletes \cup {eventArray[k]})
      BY <2>3 DEF CanDelete, NothingMarked
    <3> QED
      BY <2>1, <3>1 DEF Commit, NothingMarked
  <2> QED
    BY <2>2, <2>3 DEF NothingMarked, vars, storeVars
<1>2. CASE ~\E k \in Ids : Commit(k)
  <2>1. CASE ListStep
    BY <1>2, <2>1 DEF ListStep, UserStep, Appear, LeaveTab, OpenFilter, CancelFilter, ChooseFilter,
       ShowDetail, CommitBeyond, CommitEmptyState, CompletionLeaves, UpdateReturns, DetailAlert,
       OtherAlert, FilterFetch, FilterShow, Notify, Die, storeVars, NothingMarked
  <2>2. CASE StoreStep
    BY <2>2 DEF StoreStep, QueueStep, Answered, SetStatus, BlankImage, SaveUpdate, QueueDeath,
       AnsweredWithError, SaveUpdateFails, EnterBackground, Kill, Die, NothingMarked
  <2>3. CASE HomeAdds \/ HomeAddFails \/ HomeAlert \/ DismissAlert \/ Relaunch \/ UNCHANGED vars
    BY <2>3 DEF HomeAdds, AddPackage, HomeAddFails, AddPackageFails, HomeAlert, DismissAlert,
       Relaunch, Restart, Die, vars, storeVars, NothingMarked
  <2> QED
    BY <2>1, <2>2, <2>3 DEF Next
<1> QED
  BY <1>1, <1>2

\* Nothing is left for the save on entering the background, which would fail,
\* unless a package is swiped after an update of its row and before the next
\* fetch (fatalError at AppDelegate.swift:99).
THEOREM SavesUnlessOutdated == Init /\ [][Next /\ SwipesCurrent]_vars => []BackgroundSaves
<1>1. Init => ListInv /\ NothingMarked
  BY ListInvInit DEF Init, StoreInit, NothingMarked
<1>2. ListInv /\ NothingMarked /\ [Next /\ SwipesCurrent]_vars => (ListInv /\ NothingMarked)'
  BY ListNext, NothingMarkedNext
<1>3. NothingMarked => BackgroundSaves
  BY DEF NothingMarked, BackgroundSaves
<1> QED
  BY <1>1, <1>2, <1>3, PTL

-----------------------------------------------------------------------------
(* The session's queue has ever less to do. *)

\* One request less is one answer's work less.
LEMMA OneLess ==
  ASSUME NEW c \in Nat, NEW k \in Nat
  PROVE  c * k \in Nat /\ (c - 1) * k = c * k - k
  OBVIOUS

LEMMA AskFinite ==
  ASSUME StoreInv, NEW codes, DOMAIN codes \subseteq 1..lastId, NEW group
  PROVE  IsFiniteSet(Ask(codes, group))
<1> DEFINE D == {i \in DOMAIN codes : codes[i] \notin Malformed}
           f == [id \in D |-> [id |-> id, group |-> group]]
<1>1. IsFiniteSet(1..lastId)
  <2>1. lastId \in Int
    BY DEF StoreInv, RowsTypeOK
  <2> QED
    BY <2>1, FS_Interval
<1>2. IsFiniteSet(D)
  BY <1>1, FS_Subset
<1>3. f \in Surjection(D, Ask(codes, group))
  BY DEF Surjection, Ask
<1> HIDE DEF D, f
<1> QED
  BY <1>2, <1>3, FS_Surjection

\* Only finitely many requests are ever on their way.
LEMMA FiniteNext ==
  ASSUME ListInv, IsFiniteSet(inflight), [Next]_vars
  PROVE  IsFiniteSet(inflight')
<1>1. CASE Appear
  <2>1. PICK g \in Groups :
          inflight' = inflight \cup Ask([id \in Live |-> rows[id].code], g)
    BY <1>1 DEF Appear
  <2>2. DOMAIN [id \in Live |-> rows[id].code] \subseteq 1..lastId
    BY DEF ListInv, StoreInv, RowsTypeOK
  <2>3. IsFiniteSet(Ask([id \in Live |-> rows[id].code], g))
    BY <2>2, AskFinite DEF ListInv
  <2> QED
    BY <2>1, <2>3, FS_Union
<1>2. CASE HomeAdds
  <2>1. PICK p \in HomePackages : AddPackage(p[1], p[2])
    BY <1>2 DEF HomeAdds
  <2>2. inflight' \subseteq inflight \cup {[id |-> lastId + 1, group |-> NoGroup]}
    BY <2>1 DEF AddPackage, Ask
  <2>3. IsFiniteSet(inflight \cup {[id |-> lastId + 1, group |-> NoGroup]})
    BY FS_AddElement
  <2> QED
    BY <2>2, <2>3, FS_Subset
<1>3. CASE ~Appear /\ ~HomeAdds
  <2>1. inflight' \subseteq inflight
    <3>1. CASE ListStep
      BY <1>3, <3>1 DEF ListStep, UserStep, LeaveTab, OpenFilter, CancelFilter, ChooseFilter,
         ShowDetail, Commit, CommitBeyond, CommitEmptyState, CompletionLeaves, UpdateReturns,
         DetailAlert, OtherAlert, FilterFetch, FilterShow, Notify, Die, storeVars
    <3>2. CASE StoreStep
      BY <3>2 DEF StoreStep, QueueStep, Answered, SetStatus, BlankImage, SaveUpdate, QueueDeath,
         AnsweredWithError, SaveUpdateFails, EnterBackground, Kill, Die
    <3>3. CASE HomeAddFails \/ HomeAlert \/ DismissAlert \/ Relaunch \/ UNCHANGED vars
      BY <3>3 DEF HomeAddFails, AddPackageFails, HomeAlert, DismissAlert, Relaunch, Restart, Die,
         vars, storeVars
    <3> QED
      BY <1>3, <3>1, <3>2, <3>3 DEF Next
  <2> QED
    BY <2>1, FS_Subset
<1> QED
  BY <1>1, <1>2, <1>3

LEMMA WorkType ==
  ASSUME StoreInv, IsFiniteSet(inflight)
  PROVE  /\ Cardinality(inflight) \in Nat /\ WorkerLeft \in Nat
         /\ Work = Cardinality(inflight) * (3 * MaxEvents + 2) + WorkerLeft
         /\ Work \in Nat
<1>1. Cardinality(inflight) \in Nat
  BY FS_CardinalityType
<1>2. WorkerLeft \in Nat
  <2>1. worker.left \in Nat /\ worker.phase \in {"idle", "loop", "dated", "blanked"}
    BY DEF StoreInv, RowsTypeOK, Workers
  <2>2. worker.phase = "blanked" => worker.left > 0
    BY DEF StoreInv, WorkerInv
  <2> QED
    BY <2>1, <2>2 DEF WorkerLeft
<1>3. Work = Cardinality(inflight) * (3 * MaxEvents + 2) + WorkerLeft
  BY DEF Work, WorkerLeft
<1>4. 3 * MaxEvents + 2 \in Nat
  OBVIOUS
<1>5. Cardinality(inflight) * (3 * MaxEvents + 2) \in Nat
  BY <1>1, <1>4, OneLess
<1> QED
  BY <1>1, <1>2, <1>3, <1>5

LEMMA WorkNat == ListInv /\ IsFiniteSet(inflight) => Work \in Nat
  BY WorkType DEF ListInv

LEMMA AnswerDrains ==
  ASSUME StoreInv, IsFiniteSet(inflight), NEW r \in inflight, NEW s \in Statuses,
         NEW n \in 0..MaxEvents, Answered(r, s, n)
  PROVE  Work' < Work
<1> DEFINE c == Cardinality(inflight)
           k == 3 * MaxEvents + 2
<1>1. c \in Nat /\ k \in Nat /\ WorkerLeft \in Nat /\ Work = c * k + WorkerLeft
  BY WorkType
<1>2. IsFiniteSet(inflight') /\ Cardinality(inflight') = c - 1
  BY FS_RemoveElement DEF Answered
<1>3. WorkerLeft = 0 /\ WorkerLeft' = 3 * n + 1
  BY DEF Answered, WorkerLeft
<1>4. Work' = (c - 1) * k + WorkerLeft'
  BY <1>2 DEF Work
<1>5. c * k \in Nat /\ (c - 1) * k = c * k - k
  BY <1>1, OneLess
<1>6. 3 * n + 1 < k
  OBVIOUS
<1> HIDE DEF c, k
<1> QED
  BY <1>1, <1>3, <1>4, <1>5, <1>6

LEMMA UpdateDrains ==
  ASSUME StoreInv, IsFiniteSet(inflight), SetStatus \/ BlankImage \/ SaveUpdate \/ UpdateReturns
  PROVE  Work' < Work
<1> DEFINE ck == Cardinality(inflight) * (3 * MaxEvents + 2)
<1>1. ck \in Nat /\ WorkerLeft \in Nat /\ Work = ck + WorkerLeft
  BY WorkType, OneLess
<1>2. Work' = ck + WorkerLeft'
  BY DEF Work, SetStatus, BlankImage, SaveUpdate, UpdateReturns
<1>3. WorkerLeft' \in Int /\ WorkerLeft' < WorkerLeft
  <2>1. worker.left \in Nat
    BY DEF StoreInv, RowsTypeOK, Workers
  <2>5. CASE SetStatus
    <3>1. worker.phase = "loop" /\ worker'.phase = "dated" /\ worker'.left = worker.left
      BY <2>5 DEF SetStatus, StoreInv, RowsTypeOK, Workers
    <3> QED
      BY <2>1, <3>1 DEF WorkerLeft
  <2>2. CASE BlankImage
    <3>1. worker.phase = "dated" /\ worker'.phase = "blanked" /\ worker'.left = worker.left
      BY <2>2 DEF BlankImage, StoreInv, RowsTypeOK, Workers
    <3> QED
      BY <2>1, <3>1 DEF WorkerLeft
  <2>3. CASE SaveUpdate
    <3>1. worker.phase = "blanked" /\ worker'.phase = "loop" /\ worker'.left = worker.left - 1
      BY <2>3 DEF SaveUpdate, StoreInv, RowsTypeOK, Workers
    <3> QED
      BY <2>1, <3>1 DEF WorkerLeft
  <2>4. CASE UpdateReturns
    <3>1. worker.phase = "loop" /\ worker'.phase = "idle"
      BY <2>4 DEF UpdateReturns, IdleWorker
    <3> QED
      BY <2>1, <3>1 DEF WorkerLeft
  <2> QED
    BY <2>2, <2>3, <2>4, <2>5
<1>4. PICK n \in Nat : Work = n + WorkerLeft /\ Work' = n + WorkerLeft'
  BY <1>1, <1>2
<1> QED
  BY <1>1, <1>3, <1>4

\* What the other steps do to it: nothing, or they end the process.
LEMMA OthersAddNothing ==
  ASSUME ListInv, IsFiniteSet(inflight), [Next]_vars,
         ~Appear, ~HomeAdds, ~QueueStep, ~CompletionLeaves
  PROVE  Work' <= Work
<1>1. Work \in Nat
  BY WorkType DEF ListInv
<1>2. UNCHANGED <<inflight, worker>> \/ (inflight' = {} /\ worker' = IdleWorker)
  <2>1. CASE ListStep
    BY <2>1 DEF ListStep, UserStep, LeaveTab, OpenFilter, CancelFilter, ChooseFilter,
       ShowDetail, Commit, CommitBeyond, CommitEmptyState, DetailAlert, OtherAlert, FilterFetch,
       FilterShow,
       Notify, Die, storeVars
  <2>2. CASE StoreStep
    <3>1. PICK why : Die(why)
      BY <2>2 DEF StoreStep, QueueDeath, AnsweredWithError, SaveUpdateFails, EnterBackground, Kill,
         ListInv, MarksAreStuck
    <3> QED
      BY <3>1 DEF Die
  <2>3. CASE HomeAddFails
    BY <2>3 DEF HomeAddFails, AddPackageFails, Die
  <2>4. CASE HomeAlert \/ DismissAlert \/ Relaunch \/ UNCHANGED vars
    BY <2>4 DEF HomeAlert, DismissAlert, Relaunch, Restart, vars, storeVars
  <2> QED
    BY <2>1, <2>2, <2>3, <2>4 DEF Next
<1>3. CASE UNCHANGED <<inflight, worker>>
  <2>1. WorkerLeft' = WorkerLeft
    BY <1>3 DEF WorkerLeft
  <2>2. Work' = Work
    BY <1>3, <2>1 DEF Work
  <2> QED
    BY <1>1, <2>2
<1>4. CASE inflight' = {} /\ worker' = IdleWorker
  <2>1. Cardinality(inflight') = 0
    BY <1>4, FS_EmptySet
  <2>2. Work' = 0
    BY <1>4, <2>1 DEF Work, WorkerLeft, IdleWorker
  <2> QED
    BY <1>1, <2>2
<1> QED
  BY <1>2, <1>3, <1>4

\* Every step of the session's queue leaves it less to do, and nothing but the
\* user's own actions gives it more: no refresh waits for a queue that never
\* comes to its end.
THEOREM Drains == Spec => QueueDrains
<1> DEFINE Inv == ListInv /\ IsFiniteSet(inflight)
<1>1. Init => Inv
  BY ListInvInit, FS_EmptySet DEF Init, StoreInit
<1>2. Inv /\ [Next]_vars => Inv'
  BY ListNext, FiniteNext
<1>3. Inv /\ [Next]_vars =>
        [/\ QueueStep \/ CompletionLeaves => Work' \in Nat /\ Work' < Work
         /\ Work' > Work => Appear \/ HomeAdds]_vars
  <2> SUFFICES ASSUME Inv, Next
               PROVE  /\ QueueStep \/ CompletionLeaves => Work' \in Nat /\ Work' < Work
                      /\ Work' > Work => Appear \/ HomeAdds
    OBVIOUS
  <2>1. Work \in Nat /\ Work' \in Nat
    <3>1. (ListInv /\ IsFiniteSet(inflight) => Work \in Nat)'
      BY WorkNat, PTL
    <3> QED
      BY <1>2, <3>1, WorkNat
  <2>2. QueueStep \/ CompletionLeaves => Work' < Work
    BY AnswerDrains, UpdateDrains DEF ListInv, QueueStep, CompletionLeaves
  <2>3. ~Appear /\ ~HomeAdds /\ ~QueueStep /\ ~CompletionLeaves => Work' <= Work
    BY OthersAddNothing
  <2> QED
    BY <2>1, <2>2, <2>3
<1> QED
  BY <1>1, <1>2, <1>3, PTL DEF Spec, QueueDrains
=============================================================================
