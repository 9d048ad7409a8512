---------------------------- MODULE PackageStore ----------------------------
(***************************************************************************)
(* The model layer both tabs share: the SQLite store behind the three Core *)
(* Data stacks of the app, CoreDataManager (the only writer of inserts and *)
(* updates), the context of the AppDelegate (the only writer of deletes),  *)
(* and the tracking requests RastreioBFService runs on the URL session.    *)
(*                                                                         *)
(* Core Data itself is external.  What is assumed of it: a save is one     *)
(* transaction; it is rejected when a row it updates or deletes was        *)
(* changed or deleted by another stack since this one read it (optimistic  *)
(* locking with the default error merge policy); primary keys grow and     *)
(* are never reused; a fetch sees the saved rows without the rows its own  *)
(* context has marked for deletion.                                        *)
(***************************************************************************)
EXTENDS Integers, FiniteSets, Classification

CONSTANTS
  Texts,      \* what the user may type or leave in a text field
  Empty,      \* the empty text
  Malformed,  \* codes for which URL(string:) returns nil
  Statuses,   \* the statuses the tracking service may answer
  MaxRows,    \* bound: packages ever inserted
  MaxEvents,  \* bound: events in one tracking answer
  Groups      \* bound: refreshes of the list that may be open at a time

ASSUME StoreAssumption ==
  /\ Empty \in Texts
  /\ Malformed \subseteq Texts \ {Empty}
  /\ Statuses \subseteq SUBSET Keywords
  /\ MaxRows \in Nat
  /\ MaxEvents \in Nat
  /\ Groups \subseteq Nat \ {0}

VARIABLES
  rows,      \* the saved packages, by primary key
  lastId,    \* the last primary key given out
  fresh,     \* rows unchanged since the AppDelegate's context last fetched them
  deletes,   \* rows that context has marked for deletion and could not save
  inflight,  \* tracking requests on their way
  worker,    \* the updatePackage call running on the session's serial queue
  proc       \* "up", or why the process is gone

storeVars == <<rows, lastId, fresh, deletes, inflight, worker, proc>>

Ids  == 1..MaxRows
Live == DOMAIN rows

Row == [code : Texts, name : Texts, status : SUBSET Keywords, image : Images]

\* Requests made by the Home tab belong to no dispatch group.
NoGroup == 0
Requests == [id : Ids, group : Groups \cup {NoGroup}]

Workers == [phase : {"idle", "loop", "dated", "blanked"}, id : Ids \cup {0},
            group : Groups \cup {NoGroup}, status : SUBSET Keywords,
            left : 0..MaxEvents, dirty : BOOLEAN]

IdleWorker == [phase |-> "idle", id |-> 0, group |-> NoGroup,
               status |-> {}, left |-> 0, dirty |-> FALSE]

Deaths == {"killed", "saveFailed", "updateFailed", "outOfRange", "unresolved"}

RowsTypeOK ==
  /\ lastId \in 0..MaxRows
  /\ Live \subseteq 1..lastId
  /\ rows \in [Live -> Row]
  /\ fresh \subseteq Live
  /\ inflight \subseteq Requests
  /\ worker \in Workers
  /\ proc \in {"up"} \cup Deaths

StoreTypeOK == RowsTypeOK /\ deletes \subseteq Live

StoreInit ==
  /\ rows = [id \in {} |-> {}]
  /\ lastId = 0
  /\ fresh = {}
  /\ deletes = {}
  /\ inflight = {}
  /\ worker = IdleWorker
  /\ proc = "up"

Up == proc = "up"

\* fatalError, or a Swift trap: the memory of the process is gone, the saved
\* rows are not.
Die(why) ==
  /\ proc' = why
  /\ fresh' = {}
  /\ deletes' = {}
  /\ inflight' = {}
  /\ worker' = IdleWorker
  /\ UNCHANGED <<rows, lastId>>

\* iOS ends the process at any moment; nothing is called.
Kill == Up /\ Die("killed")

\* The user starts the app again.
Restart ==
  /\ ~Up
  /\ proc' = "up"
  /\ UNCHANGED <<rows, lastId, fresh, deletes, inflight, worker>>

-----------------------------------------------------------------------------
(* CoreDataManager *)

\* Mutant: the update also stores the code of the answer, which had none.
HalfDone_TakesCode(row) ==
  [row EXCEPT !.status = worker.status, !.image = "blank", !.code = Empty]

\* The manager's context holds one half-updated object at most: the one the
\* worker has dated, or blanked as well, and not saved.  Saving the context
\* writes it as it is: the new status under the icon of the old one, or under
\* none.
HalfDone(row) ==
  [row EXCEPT !.status = worker.status,
              !.image = IF worker.phase = "dated" THEN @ ELSE "blank"]

SavedRows == IF worker.dirty
             THEN [rows EXCEPT ![worker.id] = HalfDone(@)]
             ELSE rows

\* A save of the manager's context is rejected when the row it updates is gone.
ManagerConflict == worker.dirty /\ worker.id \notin Live

\* Row `id' differs from what the AppDelegate's context knows of it.
Outdate(id) == fresh' = fresh \ {id}

\* Mutant: the check for a registered code is dropped.
NotRegistered_Unchecked(code) == TRUE

\* updateData: may this code be registered?
NotRegistered(code) == \A id \in Live : rows[id].code # code

NewRow(code, name) ==
  [code |-> code, name |-> name, status |-> {}, image |-> "nil"]

\* getTrackingInfo: a code that makes no URL is never asked for.
Ask(codes, group) ==
  {[id |-> id, group |-> group] :
     id \in {i \in DOMAIN codes : codes[i] \notin Malformed}}

\* TrackingViewModel.addPackage: insert, save everything, ask for the status.
\* The object is inserted, its two attributes set and the context saved on the
\* main queue; what the session's queue does in between comes to the same
\* before or after all of it, but for its save (AddPackageFails).
AddPackage(code, name) ==
  LET new == lastId + 1 IN
  /\ Up
  /\ lastId < MaxRows
  /\ ~ManagerConflict
  /\ rows' = [id \in Live \cup {new} |->
                IF id = new THEN NewRow(code, name) ELSE SavedRows[id]]
  /\ lastId' = new
  /\ worker' = [worker EXCEPT !.dirty = FALSE]
  /\ fresh' = IF worker.dirty THEN fresh \ {worker.id} ELSE fresh
  /\ inflight' = inflight \cup Ask([id \in {new} |-> code], NoGroup)
  /\ UNCHANGED <<deletes, proc>>

\* The same call when a save is rejected, fatalError in saveContext: its own,
\* when a deleted row waits in the context, or the one of an update on the
\* session's queue, which finds the inserted object before its attributes are
\* set; the data model requires both.
AddPackageFails ==
  /\ Up
  /\ lastId < MaxRows
  /\ ManagerConflict \/ worker.phase = "blanked"
  /\ Die("saveFailed")

-----------------------------------------------------------------------------
(* A tracking request is answered on the session's serial queue. *)

\* A decoded answer: updatePackage starts its loop over the events.
Answered(request, status, events) ==
  /\ Up
  /\ request \in inflight
  /\ worker.phase = "idle"
  /\ inflight' = inflight \ {request}
  /\ worker' = [phase |-> "loop", id |-> request.id, group |-> request.group,
                status |-> status, left |-> events, dirty |-> FALSE]
  /\ UNCHANGED <<rows, lastId, fresh, deletes, proc>>

\* A transport or decoding error: fatalError("error updating package").
AnsweredWithError(request) ==
  /\ Up
  /\ request \in inflight
  /\ worker.phase = "idle"
  /\ Die("updateFailed")

\* Mutant: the loop does not stop after the last event.
SetStatus_OnceMore ==
  /\ Up
  /\ worker.phase = "loop"
  /\ worker' = [worker EXCEPT !.phase = "dated", !.dirty = TRUE]
  /\ UNCHANGED <<rows, lastId, fresh, deletes, inflight, proc>>

\* An iteration begins: the status, the time and the place of the event are set.
SetStatus ==
  /\ Up
  /\ worker.phase = "loop"
  /\ worker.left > 0
  /\ worker' = [worker EXCEPT !.phase = "dated", !.dirty = TRUE]
  /\ UNCHANGED <<rows, lastId, fresh, deletes, inflight, proc>>

\* Mutant: the context is saved as soon as the image is cleared.
BlankImage_Saves ==
  /\ Up
  /\ worker.phase = "dated"
  /\ worker.id \in Live
  /\ rows' = [rows EXCEPT ![worker.id].status = worker.status, ![worker.id].image = "blank"]
  /\ worker' = [worker EXCEPT !.phase = "blanked"]
  /\ Outdate(worker.id)
  /\ UNCHANGED <<lastId, deletes, inflight, proc>>

\* Then the image is set to "".
BlankImage ==
  /\ Up
  /\ worker.phase = "dated"
  /\ worker' = [worker EXCEPT !.phase = "blanked", !.dirty = TRUE]
  /\ UNCHANGED <<rows, lastId, fresh, deletes, inflight, proc>>

\* It ends: the image is chosen and the context saved.  A registration that
\* saves the context once the image is chosen, and leaves this save nothing to
\* write, comes to the same as one that follows it.
SaveUpdate ==
  /\ Up
  /\ worker.phase = "blanked"
  /\ worker.id \in Live
  /\ rows' = [rows EXCEPT ![worker.id].status = worker.status,
                          ![worker.id].image = ImageOf(worker.status)]
  /\ worker' = [worker EXCEPT !.phase = "loop", !.dirty = FALSE,
                              !.left = @ - 1]
  /\ Outdate(worker.id)
  /\ UNCHANGED <<lastId, deletes, inflight, proc>>

\* Mutant: an update of a deleted row inserts it again.
SaveUpdateFails_Inserts ==
  /\ Up
  /\ worker.phase = "blanked"
  /\ worker.id \notin Live
  /\ rows' = [id \in Live \cup {worker.id} |->
                IF id = worker.id THEN NewRow(Empty, Empty) ELSE rows[id]]
  /\ worker' = IdleWorker
  /\ UNCHANGED <<lastId, fresh, deletes, inflight, proc>>

\* The row was deleted meanwhile: fatalError("Failed to save package").
SaveUpdateFails ==
  /\ Up
  /\ worker.phase = "blanked"
  /\ worker.id \notin Live
  /\ Die("saveFailed")

\* updatePackage returns; the queue takes the next answer.
UpdateReturns ==
  /\ Up
  /\ worker.phase = "loop"
  /\ worker.left = 0
  /\ worker' = IdleWorker
  /\ UNCHANGED <<rows, lastId, fresh, deletes, inflight, proc>>

\* The steps of the session's queue that change nothing but this module's state.
QueueStep ==
  \/ \E r \in inflight, s \in Statuses, n \in 0..MaxEvents : Answered(r, s, n)
  \/ SetStatus \/ BlankImage \/ SaveUpdate

\* The steps of the session's queue that end the process.
QueueDeath ==
  \/ \E r \in inflight : AnsweredWithError(r)
  \/ SaveUpdateFails

-----------------------------------------------------------------------------
(* The AppDelegate's context *)

\* Its fetch: every saved row but those marked for deletion; the rows it
\* returns are the rows it knows the current version of.
Fetched(saved, marked) == saved \ marked
FreshAfterFetch(saved, marked) == (saved \ marked) \cup (fresh \cap marked)

\* Saving it deletes all marked rows, or none when one of them is outdated.
CanDelete(marked) == marked \subseteq fresh
Without(marked) == [id \in Live \ marked |-> rows[id]]

\* AppDelegate.saveContext, called when the scene enters the background.
EnterBackground ==
  /\ Up
  /\ deletes # {}
  /\ IF CanDelete(deletes)
     THEN /\ rows' = Without(deletes)
          /\ fresh' = fresh \ deletes
          /\ deletes' = {}
          /\ UNCHANGED <<lastId, inflight, worker, proc>>
     ELSE Die("unresolved")

-----------------------------------------------------------------------------
(* Properties of the store, checked wherever it is used *)

\* The filter a status calls for.
Belongs(t, status) ==
  \/ t = "Error"    /\ status \cap ErrorWords # {}
  \/ t = "Done"     /\ status \cap ErrorWords = {} /\ status \cap DoneWords # {}
  \/ t = "OnItsWay" /\ status \cap Keywords = {}

\* A chosen icon that another filter finds than the one the status calls for,
\* or none.
Misfiled(row) ==
  /\ row.image \in Settled
  /\ \E t \in Templates \ {"All"} : ~(Finds(t, row.image) <=> Belongs(t, row.status))

\* A package whose icon is chosen is found by the filter its status calls for
\* and by no other but "Todos": CoreDataManager.updatePackage, the predicates
\* of the data model and the icon names agree.  The one exception is a package
\* whose new status is saved under its old icon by a registration that comes
\* between the two assignments; the end of that iteration puts it right, and
\* only the end of the process before it leaves it so.
MisfiledOnlyByRegistration ==
  [][\A id \in Live' : Misfiled(rows'[id]) =>
       \/ /\ id \in Live
          /\ rows[id].status = rows'[id].status /\ rows[id].image = rows'[id].image
          /\ ~(worker.id = id /\ worker.phase = "blanked" /\ worker'.phase = "loop")
       \/ lastId' > lastId /\ worker.id = id /\ worker.phase = "dated"]_storeVars

\* A deleted package never comes back: an update or a registration that was
\* on its way when the row went cannot bring it back, and a new package never
\* takes the key of an old one.
NoResurrection ==
  [][\A id \in Ids : id \notin Live /\ id \in Live' => id > lastId]_storeVars

\* A package keeps the code and the name it was registered with for life.
IdentityKept ==
  [][\A id \in Live \cap Live' :
       rows'[id].code = rows[id].code /\ rows'[id].name = rows[id].name]_storeVars

\* The store loses the icon of a package, so that no filter but "Todos" finds
\* it, only when another package is registered while the update has cleared the
\* icon and not chosen the next: nothing else saves the manager's context there.
HalfDoneOnlyByRegistration ==
  [][\A id \in Live \cap Live' :
       rows[id].image # "blank" /\ rows'[id].image = "blank"
         => lastId' > lastId /\ worker.id = id /\ worker.phase = "blanked"]_storeVars

\* Once a delete could not be saved, the context of the AppDelegate cannot
\* delete anything any more: every later delete is rejected with it, until
\* the process is restarted.
FailedDeleteBlocksDeletes ==
  [][deletes # {} => Live \subseteq Live']_storeVars
=============================================================================
