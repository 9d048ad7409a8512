---------------------------- MODULE PackageList -----------------------------
(***************************************************************************)
(* The "Avisos" tab: WarningViewController and WarningViewModel.           *)
(*                                                                         *)
(* The list keeps two arrays.  coreData is what the table shows: the       *)
(* manager's fetch of viewWillAppear, or the rows a filter found in the    *)
(* view model's own stack.  eventArray is the AppDelegate's fetch, loaded  *)
(* when a refresh has ended and after every delete.  A swiped row number   *)
(* of the first is looked up in the second to find the package to delete.  *)
(*                                                                         *)
(* Main-queue blocks that run one right after the other (handle followed   *)
(* by success, notify followed by didUpdatePackages) are one action.       *)
(***************************************************************************)
EXTENDS PackageStore, Screen, Sequences

CONSTANTS
  OfferedTemplates,  \* the filters of the sheet the user picks from
  HomePackages       \* the <<code, name>> pairs the Home tab may register

ASSUME ListAssumption ==
  /\ OfferedTemplates \subseteq Templates
  /\ HomePackages \subseteq Texts \X Texts

VARIABLES
  coreData,    \* row numbers of the table -> packages (WarningViewModel.coreData)
  shownFrom,   \* the context of these objects: "manager" or "stack"
  eventArray,  \* the packages deletes are looked up in (WarningViewModel.eventArray)
  open,        \* refreshes whose dispatch group has not been notified
  waiting,     \* for each group, the rows that entered it and did not leave
  filterJob    \* the asynchronous fetch of a filter

listVars == <<coreData, shownFrom, eventArray, open, waiting, filterJob>>
vars == <<storeVars, screenVars, listVars>>

NoJob == [phase |-> "none", template |-> "All", found |-> <<>>]
Jobs  == [phase : {"none", "asked", "found"}, template : Templates, found : Seq(Ids)]

ListTypeOK ==
  /\ coreData \in Seq(Ids)
  /\ shownFrom \in {"manager", "stack"}
  /\ eventArray \in Seq(Ids)
  /\ open \subseteq Groups
  /\ waiting \in [Groups -> SUBSET Ids]
  /\ filterJob \in Jobs

TypeOK == StoreTypeOK /\ ScreenTypeOK /\ ListTypeOK

\* An unsorted fetch returns the rows by primary key.
InOrder(S) ==
  [k \in 1..Cardinality(S) |->
     CHOOSE i \in S : Cardinality({j \in S : j < i}) = k - 1]

Elements(s) == {s[k] : k \in DOMAIN s}

\* Mutants: the wrong row is removed; none is.
RemoveAt_Next(s, k) == SubSeq(s, 1, k) \o SubSeq(s, k + 2, Len(s))
RemoveAt_Nothing(s, k) == s

\* coreData.remove(at:)
RemoveAt(s, k) == SubSeq(s, 1, k - 1) \o SubSeq(s, k + 1, Len(s))

\* The screens of a session that has not shown the tab yet: the view model's
\* init has fetched the rows.
NewScreens(saved) ==
  /\ tab' = "home"
  /\ alert' = "none"
  /\ coreData' = InOrder(saved)
  /\ shownFrom' = "manager"
  /\ eventArray' = <<>>
  /\ open' = {}
  /\ waiting' = [g \in Groups |-> {}]
  /\ filterJob' = NoJob

Init ==
  /\ StoreInit
  /\ ScreenInit
  /\ coreData = <<>>
  /\ shownFrom = "manager"
  /\ eventArray = <<>>
  /\ open = {}
  /\ waiting = [g \in Groups |-> {}]
  /\ filterJob = NoJob

-----------------------------------------------------------------------------
(* Refreshing *)

\* viewWillAppear, coming from another tab or back from the detail screen:
\* show every row and ask for the status of each.  A row whose code makes no
\* URL enters the group and is never asked for.
Appear ==
  /\ Up
  /\ tab # "warning"
  /\ alert = "none"
  /\ tab' = "warning"
  /\ coreData' = InOrder(Live)
  /\ shownFrom' = "manager"
  /\ \E g \in Groups \ open :
       /\ open' = open \cup {g}
       /\ waiting' = [waiting EXCEPT ![g] = Live]
       /\ inflight' = inflight \cup Ask([id \in Live |-> rows[id].code], g)
  /\ UNCHANGED <<rows, lastId, fresh, deletes, worker, proc,
                 alert, eventArray, filterJob>>

\* Mutants: all refreshes share one group; the handler does not leave.
CompletionLeaves_Shared ==
  /\ UpdateReturns
  /\ waiting' = [g \in Groups |-> waiting[g] \ {worker.id}]
  /\ UNCHANGED <<screenVars, coreData, shownFrom, eventArray, open, filterJob>>

CompletionLeaves_Never ==
  /\ UpdateReturns
  /\ UNCHANGED <<screenVars, listVars>>

\* updatePackage returned: the completion handler leaves its group.
CompletionLeaves ==
  /\ UpdateReturns
  /\ waiting' = IF worker.group = NoGroup THEN waiting
                ELSE [waiting EXCEPT ![worker.group] = @ \ {worker.id}]
  /\ UNCHANGED <<screenVars, coreData, shownFrom, eventArray, open, filterJob>>

\* Mutants: the fetch is preceded by refreshAllObjects, which renews the marked
\* rows and keeps their marks; it is sorted the other way round.
LoadSaveData_RefreshesAll(saved, marked) ==
  /\ eventArray' = InOrder(Fetched(saved, marked))
  /\ fresh' = saved

LoadSaveData_NewestFirst(saved, marked) ==
  LET s == InOrder(Fetched(saved, marked)) IN
  /\ eventArray' = [k \in DOMAIN s |-> s[Len(s) + 1 - k]]
  /\ fresh' = FreshAfterFetch(saved, marked)

\* loadSaveData: the AppDelegate's context fetches the rows again.
LoadSaveData(saved, marked) ==
  /\ eventArray' = InOrder(Fetched(saved, marked))
  /\ fresh' = FreshAfterFetch(saved, marked)

\* Mutant: didUpdatePackages only redraws the table.
Notify_NoLoad(g) ==
  /\ Up
  /\ g \in open
  /\ waiting[g] = {}
  /\ open' = open \ {g}
  /\ UNCHANGED <<storeVars, screenVars, coreData, shownFrom, eventArray, waiting, filterJob>>

\* Everyone has left the group: didUpdatePackages.
Notify(g) ==
  /\ Up
  /\ g \in open
  /\ waiting[g] = {}
  /\ open' = open \ {g}
  /\ LoadSaveData(Live, deletes)
  /\ UNCHANGED <<rows, lastId, deletes, inflight, worker, proc, screenVars,
                 coreData, shownFrom, waiting, filterJob>>

-----------------------------------------------------------------------------
(* Deleting: commit editingStyle .delete on row k of the table *)

\* The row number is beyond eventArray: the subscript traps.
CommitBeyond(k) ==
  /\ Up
  /\ Touchable("warning")
  /\ k \in DOMAIN coreData
  /\ k \notin DOMAIN eventArray
  /\ Die("outOfRange")
  /\ NewScreens({})

\* The package eventArray holds under that number is marked for deletion, the
\* row leaves coreData, the AppDelegate's context is saved (an error is only
\* printed: its marks stay) and eventArray loaded again.
Commit(k) ==
  /\ Up
  /\ Touchable("warning")
  /\ k \in DOMAIN coreData
  /\ k \in DOMAIN eventArray
  /\ coreData' = RemoveAt(coreData, k)
  /\ LET marked == deletes \cup {eventArray[k]} IN
       IF CanDelete(marked)
       THEN /\ rows' = Without(marked)
            /\ deletes' = {}
            /\ LoadSaveData(Live \ marked, {})
       ELSE /\ rows' = rows
            /\ deletes' = marked
            /\ LoadSaveData(Live, marked)
  /\ UNCHANGED <<lastId, inflight, worker, proc, screenVars,
                 shownFrom, open, waiting, filterJob>>

\* The table of the empty state has one row, and it can be swiped too: it is
\* looked up in eventArray, or removed from coreData, and neither has it.
CommitEmptyState ==
  /\ Up
  /\ Touchable("warning")
  /\ coreData = <<>>
  /\ Die("outOfRange")
  /\ NewScreens({})

-----------------------------------------------------------------------------
(* Filtering *)

OpenFilter ==
  /\ Up
  /\ Touchable("warning")
  /\ filterJob = NoJob
  /\ alert' = "filter"
  /\ UNCHANGED <<storeVars, tab, listVars>>

CancelFilter ==
  /\ Up
  /\ alert = "filter"
  /\ alert' = "none"
  /\ UNCHANGED <<storeVars, tab, listVars>>

\* An option of the sheet: fetchRequestWithTemplate starts an asynchronous fetch.
ChooseFilter(t) ==
  /\ Up
  /\ alert = "filter"
  /\ alert' = "none"
  /\ filterJob' = [phase |-> "asked", template |-> t, found |-> <<>>]
  /\ UNCHANGED <<storeVars, tab, coreData, shownFrom, eventArray, open, waiting>>

\* The store answers the fetch, off the main queue.
FilterFetch ==
  /\ Up
  /\ filterJob.phase = "asked"
  /\ filterJob' =
       [filterJob EXCEPT !.phase = "found",
          !.found = InOrder({id \in Live : Finds(filterJob.template, rows[id].image)})]
  /\ UNCHANGED <<storeVars, screenVars, coreData, shownFrom, eventArray, open, waiting>>

\* handle: the main queue shows what was found.
FilterShow ==
  /\ Up
  /\ filterJob.phase = "found"
  /\ coreData' = filterJob.found
  /\ shownFrom' = "stack"
  /\ filterJob' = NoJob
  /\ UNCHANGED <<storeVars, screenVars, eventArray, open, waiting>>

-----------------------------------------------------------------------------
(* The rest of the process *)

\* The tab bar, to another tab than this one or between the two others.
LeaveTab == Up /\ SwitchTab /\ UNCHANGED <<storeVars, listVars>>

\* didSelectRowAt: the detail screen of row k is pushed.
ShowDetail(k) ==
  /\ Up
  /\ Touchable("warning")
  /\ k \in DOMAIN coreData
  /\ tab' = "detail"
  /\ UNCHANGED <<storeVars, alert, listVars>>

\* A registration is answered, whatever tab is shown (module Registration);
\* it is announced unless another alert is in the way or UIKit refuses.
HomeAdds ==
  /\ \E p \in HomePackages : AddPackage(p[1], p[2])
  /\ alert' = alert \/ (alert = "none" /\ alert' = "saved")
  /\ UNCHANGED <<tab, listVars>>

\* A registration at which a save is rejected ends the process.
HomeAddFails == AddPackageFails /\ NewScreens({})

\* The Home tab refuses a submission, or the service does, whatever tab is shown.
HomeAlert ==
  /\ Up
  /\ alert = "none"
  /\ alert' = "wrong" \/ (tab = "home" /\ alert' \in {"fill", "registered"})
  /\ UNCHANGED <<storeVars, tab, listVars>>

\* The detail screen's own request fails.
DetailAlert ==
  /\ Up
  /\ Touchable("detail")
  /\ alert' = "wrong"
  /\ UNCHANGED <<storeVars, tab, listVars>>

\* The menu's error, whatever tab is shown.
OtherAlert == Up /\ MenuAlert /\ UNCHANGED <<storeVars, listVars>>

\* The only button of these alerts.
DismissAlert ==
  /\ Up
  /\ alert \notin {"none", "filter"}
  /\ alert' = "none"
  /\ UNCHANGED <<storeVars, tab, listVars>>

\* The screens die with the process and outlive every other step of the store.
ScreensFollow ==
  IF proc' = "up" THEN UNCHANGED <<screenVars, listVars>> ELSE NewScreens({})

StoreStep ==
  /\ QueueStep \/ QueueDeath \/ EnterBackground \/ Kill
  /\ ScreensFollow

Relaunch == Restart /\ NewScreens(Live)

UserStep ==
  \/ Appear \/ LeaveTab \/ OpenFilter \/ CancelFilter
  \/ \E t \in OfferedTemplates : ChooseFilter(t)
  \/ \E k \in Ids : Commit(k) \/ CommitBeyond(k) \/ ShowDetail(k)
  \/ CommitEmptyState

ListStep ==
  \/ UserStep
  \/ CompletionLeaves \/ FilterFetch \/ FilterShow \/ DetailAlert \/ OtherAlert
  \/ \E g \in Groups : Notify(g)

Next ==
  \/ ListStep
  \/ StoreStep
  \/ HomeAdds \/ HomeAddFails \/ HomeAlert \/ DismissAlert
  \/ Relaunch

Spec == Init /\ [][Next]_vars

-----------------------------------------------------------------------------
(* Fairness: the URL session ends every request, with an answer or an error   *)
(* (its time-out is one), and its queue serves the completions in order, so   *)
(* none is overtaken for ever; blocks posted to the main queue run.  Nothing  *)
(* is assumed of the user, of filters or of the system's kills.               *)

EndsOf(r) ==
  /\ AnsweredWithError(r) \/ \E s \in Statuses, n \in 0..MaxEvents : Answered(r, s, n)
  /\ ScreensFollow

UpdateGoesOn ==
  (SetStatus \/ BlankImage \/ SaveUpdate \/ SaveUpdateFails) /\ ScreensFollow

Fairness ==
  /\ \A r \in Requests : SF_vars(EndsOf(r))
  /\ WF_vars(UpdateGoesOn)
  /\ WF_vars(CompletionLeaves)
  /\ \A g \in Groups : WF_vars(Notify(g))

FairSpec == Spec /\ Fairness

-----------------------------------------------------------------------------
(* Properties *)

\* As long as no filter was applied and no delete has failed, a row number
\* means the same package in both arrays, whichever of them is the longer one
\* at the moment: a refresh that has not ended, a package registered while the
\* tab is shown and deletes in the middle of a refresh included.
SameNumbers ==
  shownFrom = "manager" /\ deletes = {} =>
    \A k \in DOMAIN coreData \cap DOMAIN eventArray : coreData[k] = eventArray[k]

\* Every row the table shows after viewWillAppear is a saved package, also when
\* deletes failed in between: no ghost rows without a filter.
ShownPackagesExist ==
  shownFrom = "manager" => Elements(coreData) \subseteq Live

\* A swipe of a shown package can be out of the range of eventArray only while
\* a refresh is on its way, a filter is applied or a delete has failed: the end
\* of a refresh, of an overtaken one too, makes every row safe to swipe.
TrapsOnlyUnrefreshed ==
  [][Up /\ proc' = "outOfRange" =>
       open # {} \/ shownFrom = "stack" \/ deletes # {} \/ coreData = <<>>]_vars

\* The dispatch groups are balanced: a completion handler that is still to run
\* finds its row in its group (one leave too many would trap), and a group
\* waits for nothing but such handlers and rows that were never asked for.
GroupsBalanced ==
  LET running == inflight \cup
        (IF worker.phase = "idle" THEN {} ELSE {[id |-> worker.id, group |-> worker.group]})
  IN /\ \A r \in running : r.group # NoGroup => r.group \in open /\ r.id \in waiting[r.group]
     /\ \A g \in open : \A id \in waiting[g] :
          \/ [id |-> id, group |-> g] \in running
          \/ id \notin Live
          \/ rows[id].code \in Malformed

\* Packages disappear one at a time, by a swipe in the tab, even when marks of
\* earlier failed deletes are saved along; without a filter and a failed delete
\* the package that goes is the one whose row goes.
OneSwipeOnePackage ==
  [][\A id \in Live \ Live' :
       /\ Live \ Live' = {id}
       /\ Touchable("warning")
       /\ shownFrom = "manager" /\ deletes = {} =>
            id \in Elements(coreData) \ Elements(coreData')]_vars

\* A refresh whose rows were all asked for ends: eventArray is loaded, or the
\* process dies of an error.
RefreshEnds ==
  \A g \in Groups :
    (g \in open /\ \A id \in waiting[g] : id \in Live /\ rows[id].code \notin Malformed)
      ~> (g \notin open \/ ~Up)

\* What the session's queue has still to do: for each event of an answer three
\* steps, for the answer the return, and for a request as much as its answer
\* may take, and the step that takes it.
WorkerLeft ==
  CASE worker.phase = "idle"    -> 0
    [] worker.phase = "loop"    -> 3 * worker.left + 1
    [] worker.phase = "dated"   -> 3 * worker.left
    [] worker.phase = "blanked" -> 3 * worker.left - 1

Work == Cardinality(inflight) * (3 * MaxEvents + 2) + WorkerLeft

\* The queue never runs on the spot: each of its steps leaves it less to do, and
\* it is given more only when the list appears or a package is registered.  It
\* is why the queue comes to the end of every refresh (RefreshEnds).
QueueDrains ==
  [][/\ QueueStep \/ CompletionLeaves => Work' \in Nat /\ Work' < Work
     /\ Work' > Work => Appear \/ HomeAdds]_vars

\* fatalError("Failed to save package") at CoreDataManager.swift:119 says that
\* the manager's save never fails.
ManagerSaves == proc # "saveFailed"

\* fatalError("Unresolved error") at AppDelegate.swift:99 says that the save on
\* entering the background never fails.
BackgroundSaves == proc # "unresolved"
=============================================================================
