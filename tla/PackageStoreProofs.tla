------------------------- MODULE PackageStoreProofs -------------------------
(***************************************************************************)
(* The store keeps its invariant under every operation of PackageStore,    *)
(* whoever calls it.  The proofs about Registration and PackageList cite   *)
(* one lemma per operation.                                                *)
(***************************************************************************)
EXTENDS PackageStore, TLAPS

\* What an update in progress knows of itself: its package was registered, it
\* has unsaved changes within an iteration only, and is within one only while
\* an event is left.
WorkerInv ==
  /\ worker.phase # "idle" => worker.id \in 1..lastId
  /\ worker.dirty => worker.phase \in {"dated", "blanked"}
  /\ worker.phase \in {"dated", "blanked"} => worker.left > 0

\* Requests are for packages that were registered.
InflightInv == \A r \in inflight : r.id \in 1..lastId

\* What the other context has marked for deletion plays no part in it.
StoreInv == RowsTypeOK /\ WorkerInv /\ InflightInv

USE StoreAssumption

LEMMA IdleWorkerType == IdleWorker \in Workers
  BY DEF IdleWorker, Workers, NoGroup

\* The store of a new installation.
LEMMA StoreInitInv == StoreInit => StoreInv
  BY IdleWorkerType DEF StoreInit, StoreInv, RowsTypeOK, WorkerInv, InflightInv,
     Live, IdleWorker, Deaths, Row

\* The end of the process, whatever the reason.
LEMMA DieInv ==
  ASSUME StoreInv, NEW why \in Deaths, Die(why)
  PROVE  StoreInv'
  BY IdleWorkerType DEF Die, StoreInv, RowsTypeOK, WorkerInv, InflightInv, Live,
     IdleWorker, Deaths

LEMMA RestartInv ==
  ASSUME StoreInv, Restart
  PROVE  StoreInv'
  BY DEF Restart, StoreInv, RowsTypeOK, WorkerInv, InflightInv, Live

\* A tracking answer starts an update.
LEMMA AnsweredInv ==
  ASSUME StoreInv, NEW r \in inflight, NEW s \in Statuses, NEW n \in 0..MaxEvents,
         Answered(r, s, n)
  PROVE  StoreInv'
  BY DEF Answered, StoreInv, RowsTypeOK, WorkerInv, InflightInv, Live,
     Workers, Requests, Ids, NoGroup

\* The two steps of an iteration that save nothing.
LEMMA UnsavedInv ==
  ASSUME StoreInv, SetStatus \/ BlankImage
  PROVE  StoreInv'
<1>1. worker \in Workers /\ WorkerInv
  BY DEF StoreInv, RowsTypeOK
<1>2. \E phase \in {"dated", "blanked"} :
        worker' = [worker EXCEPT !.phase = phase, !.dirty = TRUE]
  BY DEF SetStatus, BlankImage
<1>3. worker' \in Workers
  <2>1. \A w \in Workers : \A phase \in {"dated", "blanked"} :
          [w EXCEPT !.phase = phase, !.dirty = TRUE] \in Workers
    BY DEF Workers
  <2> QED
    BY <1>1, <1>2, <2>1
<1>4. worker.phase # "idle" /\ worker.left > 0
  BY <1>1 DEF SetStatus, BlankImage, WorkerInv
<1>5. WorkerInv'
  BY <1>1, <1>2, <1>4 DEF WorkerInv, SetStatus, BlankImage, Workers
<1>6. UNCHANGED <<rows, lastId, fresh, deletes, inflight, proc>>
  BY DEF SetStatus, BlankImage
<1> QED
  BY <1>3, <1>5, <1>6 DEF StoreInv, RowsTypeOK, InflightInv, Live

LEMMA UpdateReturnsInv ==
  ASSUME StoreInv, UpdateReturns
  PROVE  StoreInv'
  BY IdleWorkerType DEF UpdateReturns, StoreInv, RowsTypeOK, WorkerInv, InflightInv,
     Live, IdleWorker

\* Removing rows from the store, and anything the other context then believes
\* about rows that are left: every way a list may delete packages.
LEMMA RemoveRowsInv ==
  ASSUME StoreInv, NEW gone,
         rows' = Without(gone),
         fresh' \subseteq Live \ gone,
         UNCHANGED <<lastId, inflight, worker, proc>>
  PROVE  StoreInv'
<1>1. Live' = Live \ gone
  BY DEF Without, Live
<1>2. \A id \in Live' : rows'[id] = rows[id]
  BY <1>1 DEF Without
<1>3. RowsTypeOK'
  BY <1>1, <1>2 DEF StoreInv, RowsTypeOK, Without, Live
<1>4. (WorkerInv /\ InflightInv)'
  BY DEF StoreInv, WorkerInv, InflightInv
<1> QED
  BY <1>3, <1>4 DEF StoreInv

\* More requests for registered packages.
LEMMA AskInv ==
  ASSUME StoreInv, NEW asked \in SUBSET Requests,
         \A r \in asked : r.id \in 1..lastId,
         inflight' = inflight \cup asked,
         UNCHANGED <<rows, lastId, fresh, deletes, worker, proc>>
  PROVE  StoreInv'
  BY DEF StoreInv, RowsTypeOK, WorkerInv, InflightInv, Live

\* What is asked for, is asked for packages that were registered.
LEMMA AskType ==
  ASSUME RowsTypeOK, NEW codes, DOMAIN codes \subseteq 1..lastId,
         NEW group \in Groups \cup {NoGroup}
  PROVE  /\ Ask(codes, group) \in SUBSET Requests
         /\ \A r \in Ask(codes, group) : r.id \in 1..lastId
<1>1. 1..lastId \subseteq Ids
  BY DEF RowsTypeOK, Ids
<1>2. \A r \in Ask(codes, group) :
        \E id \in 1..lastId : r = [id |-> id, group |-> group]
  BY DEF Ask
<1> QED
  BY <1>1, <1>2 DEF Requests

\* Showing the list: every live package is asked for.
LEMMA AskAllInv ==
  ASSUME StoreInv, NEW group \in Groups,
         inflight' = inflight \cup Ask([id \in Live |-> rows[id].code], group),
         UNCHANGED <<rows, lastId, fresh, deletes, worker, proc>>
  PROVE  StoreInv'
<1> DEFINE asked == Ask([id \in Live |-> rows[id].code], group)
<1>1. DOMAIN [id \in Live |-> rows[id].code] \subseteq 1..lastId
  BY DEF StoreInv, RowsTypeOK
<1>2. asked \in SUBSET Requests /\ \A r \in asked : r.id \in 1..lastId
  BY <1>1, AskType DEF StoreInv
<1> HIDE DEF asked
<1> QED
  BY <1>2, AskInv DEF asked

LEMMA SaveUpdateInv ==
  ASSUME StoreInv, SaveUpdate
  PROVE  StoreInv'
<1>1. /\ Live' = Live
      /\ \A id \in Live \ {worker.id} : rows'[id] = rows[id]
      /\ rows'[worker.id] = [rows[worker.id] EXCEPT !.status = worker.status,
                                                    !.image = ImageOf(worker.status)]
  BY DEF SaveUpdate, StoreInv, RowsTypeOK, Live
<1>2. rows[worker.id] \in Row /\ worker \in Workers /\ worker.left \in 1..MaxEvents
  BY DEF SaveUpdate, StoreInv, RowsTypeOK, WorkerInv, Workers, Live
<1>3. ImageOf(worker.status) \in Images
  BY DEF ImageOf, Images, Settled
<1>4. rows'[worker.id] \in Row
  <2>1. worker.status \in SUBSET Keywords
    BY <1>2 DEF Workers
  <2> QED
    BY <1>1, <1>2, <1>3, <2>1 DEF Row
<1>5. rows' \in [Live' -> Row]
  BY <1>1, <1>4 DEF SaveUpdate, StoreInv, RowsTypeOK, Live
<1>6. worker' \in Workers
  <2>1. worker.left - 1 \in 0..MaxEvents
    BY <1>2
  <2>2. worker' = [phase |-> "loop", id |-> worker.id, group |-> worker.group,
                   status |-> worker.status, left |-> worker.left - 1, dirty |-> FALSE]
    BY <1>2 DEF SaveUpdate, Workers
  <2> QED
    BY <1>2, <2>1, <2>2 DEF Workers
<1>7. RowsTypeOK'
  BY <1>1, <1>5, <1>6 DEF SaveUpdate, Outdate, StoreInv, RowsTypeOK
<1>8. (WorkerInv /\ InflightInv)'
  BY <1>2 DEF SaveUpdate, StoreInv, WorkerInv, InflightInv, Workers
<1> QED
  BY <1>7, <1>8 DEF StoreInv

\* What the manager's save writes: the rows as they are, but for the icon and
\* the status of a half-updated package.
LEMMA SavedRowsType ==
  ASSUME StoreInv, ~ManagerConflict
  PROVE  /\ SavedRows \in [Live -> Row]
         /\ \A id \in Live : SavedRows[id].code = rows[id].code
                            /\ SavedRows[id].name = rows[id].name
<1>1. CASE ~worker.dirty
  BY <1>1 DEF SavedRows, StoreInv, RowsTypeOK, Live
<1>2. CASE worker.dirty
  <2>1. worker.id \in Live /\ rows[worker.id] \in Row /\ worker.status \in SUBSET Keywords
    BY <1>2 DEF ManagerConflict, StoreInv, RowsTypeOK, Workers
  <2>2. HalfDone(rows[worker.id]) \in Row
    BY <2>1 DEF HalfDone, Row, Images
  <2>3. SavedRows = [rows EXCEPT ![worker.id] = HalfDone(rows[worker.id])]
    BY <1>2 DEF SavedRows
  <2> QED
    BY <2>1, <2>2, <2>3 DEF HalfDone, StoreInv, RowsTypeOK, Live, Row
<1> QED
  BY <1>1, <1>2

LEMMA AddPackageInv ==
  ASSUME StoreInv, NEW code \in Texts, NEW name \in Texts, AddPackage(code, name)
  PROVE  StoreInv'
<1> DEFINE new == lastId + 1
<1>1. SavedRows \in [Live -> Row]
  BY SavedRowsType DEF AddPackage
<1>2. new \in 1..MaxRows /\ new \notin Live /\ lastId' = new
  BY DEF AddPackage, StoreInv, RowsTypeOK
<1>3. NewRow(code, name) \in Row
  BY DEF NewRow, Row, Images
<1>4. /\ Live' = Live \cup {new}
      /\ \A id \in Live : rows'[id] = SavedRows[id]
      /\ rows'[new] = NewRow(code, name)
  BY <1>2 DEF AddPackage, Live
<1>5. rows' \in [Live' -> Row]
  BY <1>1, <1>3, <1>4 DEF AddPackage, Live
<1>6. inflight' \subseteq Requests /\ \A r \in inflight' : r.id \in 1..lastId'
  BY <1>2 DEF AddPackage, Ask, Requests, Ids, StoreInv, RowsTypeOK, InflightInv
<1>7. worker' \in Workers
  BY DEF AddPackage, StoreInv, RowsTypeOK, Workers
<1>8. RowsTypeOK'
  BY <1>2, <1>4, <1>5, <1>6, <1>7 DEF AddPackage, StoreInv, RowsTypeOK
<1>9. (WorkerInv /\ InflightInv)'
  BY <1>2, <1>6 DEF AddPackage, StoreInv, RowsTypeOK, WorkerInv, InflightInv, Workers
<1> QED
  BY <1>8, <1>9 DEF StoreInv

\* Every step of the session's queue.
LEMMA QueueInv ==
  ASSUME StoreInv, QueueStep \/ QueueDeath
  PROVE  StoreInv'
<1>1. CASE \E r \in inflight, s \in Statuses, n \in 0..MaxEvents : Answered(r, s, n)
  BY <1>1, AnsweredInv
<1>2. CASE SetStatus \/ BlankImage
  BY <1>2, UnsavedInv
<1>3. CASE SaveUpdate
  BY <1>3, SaveUpdateInv
<1>4. CASE QueueDeath
  BY <1>4, DieInv DEF QueueDeath, AnsweredWithError, SaveUpdateFails, Deaths
<1> QED
  BY <1>1, <1>2, <1>3, <1>4 DEF QueueStep

\* The session's queue changes no code and no name.
LEMMA QueueKeepsIdentity ==
  ASSUME StoreInv, QueueStep \/ QueueDeath \/ UpdateReturns \/ Kill
  PROVE  /\ Live' = Live
         /\ \A id \in Live : rows'[id].code = rows[id].code /\ rows'[id].name = rows[id].name
<1>1. CASE SaveUpdate
  <2>1. /\ Live' = Live
        /\ \A id \in Live \ {worker.id} : rows'[id] = rows[id]
        /\ rows'[worker.id] = [rows[worker.id] EXCEPT !.status = worker.status,
                                                      !.image = ImageOf(worker.status)]
    BY <1>1 DEF SaveUpdate, StoreInv, RowsTypeOK, Live
  <2>2. rows[worker.id] \in Row
    BY <1>1 DEF SaveUpdate, StoreInv, RowsTypeOK
  <2> QED
    BY <2>1, <2>2 DEF Row
<1>2. CASE ~SaveUpdate
  BY <1>2 DEF QueueStep, QueueDeath, UpdateReturns, Kill, Die, Answered, SetStatus,
     BlankImage, AnsweredWithError, SaveUpdateFails, Live
<1> QED
  BY <1>1, <1>2

\* The filters find what the icons say: a row whose icon is the one of its
\* status is not misfiled.
LEMMA IconsFile ==
  ASSUME NEW row, row.image = ImageOf(row.status)
  PROVE  ~Misfiled(row)
<1> SUFFICES ASSUME NEW t \in Templates \ {"All"}
             PROVE  Finds(t, row.image) <=> Belongs(t, row.status)
  BY DEF Misfiled
<1> DEFINE status == row.status
<1>2. status \cap Keywords = {} <=> status \cap ErrorWords = {} /\ status \cap DoneWords = {}
  BY DEF Keywords
<1> HIDE DEF status
<1>3. CASE status \cap ErrorWords # {}
  <2>1. ImageOf(status) = "error"
    BY <1>3 DEF ImageOf
  <2> QED
    BY <1>2, <1>3, <2>1 DEF Finds, Belongs, Templates, status
<1>4. CASE status \cap ErrorWords = {} /\ status \cap DoneWords # {}
  <2>1. ImageOf(status) = "done"
    BY <1>4 DEF ImageOf
  <2> QED
    BY <1>2, <1>4, <2>1 DEF Finds, Belongs, Templates, status
<1>5. CASE status \cap ErrorWords = {} /\ status \cap DoneWords = {}
  <2>1. ImageOf(status) = "onItsWay"
    BY <1>5 DEF ImageOf
  <2> QED
    BY <1>2, <1>5, <2>1 DEF Finds, Belongs, Templates, status
<1> QED
  BY <1>3, <1>4, <1>5

\* A package is registered under a key no package ever had, and changes neither
\* the code nor the name of another one.
LEMMA AddPackageRows ==
  ASSUME StoreInv, NEW code, NEW name, AddPackage(code, name)
  PROVE  /\ lastId' = lastId + 1
         /\ lastId' \notin Live
         /\ Live' = Live \cup {lastId'}
         /\ rows'[lastId'] = NewRow(code, name)
         /\ \A id \in Live : rows'[id].code = rows[id].code /\ rows'[id].name = rows[id].name
<1>1. lastId' = lastId + 1 /\ lastId' \notin Live
  BY DEF AddPackage, StoreInv, RowsTypeOK
<1>2. \A id \in Live : SavedRows[id].code = rows[id].code /\ SavedRows[id].name = rows[id].name
  BY SavedRowsType DEF AddPackage
<1> QED
  BY <1>1, <1>2 DEF AddPackage, Live

\* Removing rows leaves the other ones as they are.
LEMMA WithoutRows ==
  ASSUME NEW gone, rows' = Without(gone)
  PROVE  Live' = Live \ gone /\ \A id \in Live' : rows'[id] = rows[id]
  BY DEF Without, Live

-----------------------------------------------------------------------------
(* The action properties of the store, step by step.  Each caller shows that  *)
(* its steps are among the following ones.                                    *)

\* A step whose rows the store's own operations account for.
RowsSame ==
  /\ UNCHANGED <<rows, lastId>>
  /\ ~(worker.phase = "blanked" /\ worker'.phase = "loop")
RowsGo ==
  /\ UNCHANGED <<lastId, worker>>
  /\ \E gone : rows' = Without(gone)
RowStep ==
  \/ RowsSame
  \/ QueueStep
  \/ \E code \in Texts, name \in Texts : AddPackage(code, name)
  \/ RowsGo

KeepsKeys   == \A id \in Ids : id \notin Live /\ id \in Live' => id > lastId
KeepsNames  == \A id \in Live \cap Live' :
                 rows'[id].code = rows[id].code /\ rows'[id].name = rows[id].name
BlankByAdd  == \A id \in Live \cap Live' :
                 rows[id].image # "blank" /\ rows'[id].image = "blank"
                   => lastId' > lastId /\ worker.id = id /\ worker.phase = "blanked"

\* Row `id' was as misfiled before, and no iteration of its update ends here.
StaysMisfiled(id) ==
  /\ id \in Live
  /\ rows[id].status = rows'[id].status /\ rows[id].image = rows'[id].image
  /\ ~(worker.id = id /\ worker.phase = "blanked" /\ worker'.phase = "loop")

MisfiledByAdd == \A id \in Live' : Misfiled(rows'[id]) =>
                   \/ StaysMisfiled(id)
                   \/ lastId' > lastId /\ worker.id = id /\ worker.phase = "dated"

\* A step that neither writes a row nor ends an iteration.
LEMMA SameRowsKeep ==
  ASSUME \A id \in Live' : id \in Live /\ rows'[id] = rows[id],
         ~(worker.phase = "blanked" /\ worker'.phase = "loop")
  PROVE  KeepsKeys /\ KeepsNames /\ BlankByAdd /\ MisfiledByAdd
  BY DEF KeepsKeys, KeepsNames, BlankByAdd, MisfiledByAdd, StaysMisfiled

LEMMA SaveUpdateKeeps ==
  ASSUME StoreInv, SaveUpdate
  PROVE  KeepsKeys /\ KeepsNames /\ BlankByAdd /\ MisfiledByAdd
<1>1. Live' = Live /\ KeepsNames
  BY QueueKeepsIdentity DEF KeepsNames, QueueStep
<1>2. \A id \in Live : id # worker.id => rows'[id] = rows[id]
  BY DEF SaveUpdate, StoreInv, RowsTypeOK, Live
<1>3. /\ rows'[worker.id].image = ImageOf(worker.status)
      /\ rows'[worker.id].status = worker.status
  <2>1. rows[worker.id] \in Row /\ worker.id \in Live
    BY DEF SaveUpdate, StoreInv, RowsTypeOK
  <2>2. rows'[worker.id] = [rows[worker.id] EXCEPT !.status = worker.status,
                                                  !.image = ImageOf(worker.status)]
    BY <2>1 DEF SaveUpdate, StoreInv, RowsTypeOK, Live
  <2> QED
    BY <2>1, <2>2 DEF Row
<1>4. ImageOf(worker.status) # "blank"
  BY DEF ImageOf
<1>5. ~Misfiled(rows'[worker.id])
  BY <1>3, IconsFile
<1>6. KeepsKeys /\ BlankByAdd
  BY <1>1, <1>2, <1>3, <1>4 DEF KeepsKeys, BlankByAdd
<1>7. MisfiledByAdd
  BY <1>1, <1>2, <1>5 DEF MisfiledByAdd, StaysMisfiled
<1> QED
  BY <1>1, <1>6, <1>7

\* What a registration saves of another package: nothing, the status alone, or
\* the status with the icon cleared.
LEMMA AddPackageSaves ==
  ASSUME StoreInv, NEW code, NEW name, AddPackage(code, name), NEW id \in Live,
         rows'[id] # rows[id]
  PROVE  /\ worker.id = id
         /\ worker.phase \in {"dated", "blanked"}
         /\ worker.phase = "dated" => rows'[id].image = rows[id].image
         /\ worker.phase = "blanked" => rows'[id].image = "blank"
<1>1. rows'[id] = SavedRows[id]
  BY AddPackageRows DEF AddPackage, Live
<1>2. worker.dirty /\ worker.id = id
  BY <1>1 DEF SavedRows, StoreInv, RowsTypeOK, Live
<1>3. worker.phase \in {"dated", "blanked"}
  BY <1>2 DEF StoreInv, WorkerInv
<1>4. SavedRows[id] = HalfDone(rows[id])
  BY <1>2 DEF SavedRows, StoreInv, RowsTypeOK, Live
<1>5. rows[id] \in Row
  BY DEF StoreInv, RowsTypeOK
<1> QED
  BY <1>1, <1>2, <1>3, <1>4, <1>5 DEF HalfDone, Row

LEMMA AddPackageKeeps ==
  ASSUME StoreInv, NEW code, NEW name, AddPackage(code, name)
  PROVE  KeepsKeys /\ KeepsNames /\ BlankByAdd /\ MisfiledByAdd
<1>1. /\ lastId' = lastId + 1
      /\ lastId' \notin Live
      /\ Live' = Live \cup {lastId'}
      /\ rows'[lastId'] = NewRow(code, name)
      /\ \A id \in Live : rows'[id].code = rows[id].code /\ rows'[id].name = rows[id].name
  BY AddPackageRows
<1>2. lastId' > lastId
  BY <1>1 DEF StoreInv, RowsTypeOK
<1>3. ~Misfiled(rows'[lastId'])
  <2>1. rows'[lastId'].image = "nil"
    BY <1>1 DEF NewRow
  <2> QED
    BY <2>1 DEF Misfiled, Settled
<1>7. KeepsKeys /\ KeepsNames
  BY <1>1, <1>2 DEF KeepsKeys, KeepsNames
<1>4. worker'.phase = worker.phase
  BY DEF AddPackage, StoreInv, RowsTypeOK, Workers
<1>5. BlankByAdd
  <2> SUFFICES ASSUME NEW id \in Live, rows[id].image # "blank", rows'[id].image = "blank"
               PROVE  worker.id = id /\ worker.phase = "blanked"
    BY <1>1, <1>2 DEF BlankByAdd
  <2> QED
    BY AddPackageSaves
<1>6. MisfiledByAdd
  <2> SUFFICES ASSUME NEW id \in Live, Misfiled(rows'[id]), rows'[id] # rows[id]
               PROVE  worker.id = id /\ worker.phase = "dated"
    BY <1>1, <1>2, <1>3, <1>4 DEF MisfiledByAdd, StaysMisfiled
  <2>1. rows'[id].image # "blank"
    BY DEF Misfiled, Settled
  <2> QED
    BY <2>1, AddPackageSaves
<1> QED
  BY <1>5, <1>6, <1>7

LEMMA RowStepKeeps ==
  StoreInv /\ RowStep => KeepsKeys /\ KeepsNames /\ BlankByAdd /\ MisfiledByAdd
<1> SUFFICES ASSUME StoreInv, RowStep
             PROVE  KeepsKeys /\ KeepsNames /\ BlankByAdd /\ MisfiledByAdd
  OBVIOUS
<1>1. CASE RowsSame
  BY <1>1, SameRowsKeep DEF RowsSame, Live
<1>2. CASE QueueStep
  <2>1. CASE SaveUpdate
    BY <2>1, SaveUpdateKeeps
  <2>2. CASE ~SaveUpdate
    <3>1. /\ UNCHANGED rows
          /\ worker'.phase # "loop" \/ worker.phase = "idle"
      BY <1>2, <2>2 DEF QueueStep, Answered, SetStatus, BlankImage, StoreInv, RowsTypeOK, Workers
    <3> QED
      BY <3>1, SameRowsKeep DEF Live
  <2> QED
    BY <2>1, <2>2
<1>3. CASE \E code \in Texts, name \in Texts : AddPackage(code, name)
  BY <1>3, AddPackageKeeps
<1>4. CASE RowsGo
  <2>1. PICK gone : rows' = Without(gone)
    BY <1>4 DEF RowsGo
  <2> QED
    BY <1>4, <2>1, WithoutRows, SameRowsKeep DEF RowsGo
<1> QED
  BY <1>1, <1>2, <1>3, <1>4 DEF RowStep
=============================================================================
