------------------------- MODULE RastreioAppProofs --------------------------
(***************************************************************************)
(* Each tab of the app does to the other nothing that the other's module   *)
(* does not allow, so that what is proved of PackageList and of            *)
(* Registration holds in the app.                                          *)
(***************************************************************************)
EXTENDS RastreioApp, TLAPS

\* What ListArraysProofs proves of the list, about the variables of the app.
ListFacts == INSTANCE ListArraysProofs

USE StoreAssumption, AppAssumption

\* What the user has typed is a text the list's module expects of the form.
FieldsTyped == trackingNumber \in Texts /\ description \in Texts

-----------------------------------------------------------------------------
(* The form, seen from the list *)

LEMMA EditsUnseen ==
  ASSUME FieldsTyped, Form!FormStep, ListFollows
  PROVE  [List!Next]_List!vars /\ FieldsTyped'
<1>1. CASE \E text \in TypedCodes : Form!EditTrackingNumber(text)
  BY <1>1 DEF Form!EditTrackingNumber, Form!Up, Form!storeVars, Form!screenVars, ListFollows,
     listVars, List!vars, List!storeVars, List!screenVars, List!listVars, FieldsTyped
<1>2. CASE \E text \in TypedNames : Form!EditDescription(text)
  BY <1>2 DEF Form!EditDescription, Form!Up, Form!storeVars, Form!screenVars, ListFollows,
     listVars, List!vars, List!storeVars, List!screenVars, List!listVars, FieldsTyped
<1>3. CASE Form!SubmitRegistered \/ Form!SubmitUnfilled
  <2>1. List!HomeAlert
    BY <1>3 DEF Form!SubmitRegistered, Form!SubmitUnfilled, Form!Present, Form!Touchable, Form!Up,
       Form!storeVars, ListFollows, listVars, List!HomeAlert, List!Up, List!storeVars,
       List!listVars
  <2>2. UNCHANGED <<trackingNumber, description>>
    BY <1>3 DEF Form!SubmitRegistered, Form!SubmitUnfilled, Form!formVars
  <2> QED
    BY <2>1, <2>2 DEF List!Next, FieldsTyped
<1>4. CASE Form!SubmitValid
  BY <1>4 DEF Form!SubmitValid, Form!Up, Form!storeVars, Form!screenVars, ListFollows,
     listVars, List!vars, List!storeVars, List!screenVars, List!listVars, FieldsTyped
<1> QED
  BY <1>1, <1>2, <1>3, <1>4 DEF Form!FormStep

\* A registration stores what the fields hold, whatever that is by then.
LEMMA SuccessAdds ==
  ASSUME FieldsTyped, NEW code \in Texts, Form!Success(code), ListFollows
  PROVE  List!HomeAdds /\ FieldsTyped'
<1>1. List!AddPackage(trackingNumber, description) /\ proc' = "up"
  BY DEF Form!Success, Form!AddPackage, Form!Up, Form!ManagerConflict, Form!Live, Form!NewRow,
     Form!SavedRows, Form!HalfDone, Form!Ask, Form!NoGroup, List!AddPackage, List!Up,
     List!ManagerConflict, List!Live, List!NewRow, List!SavedRows, List!HalfDone, List!Ask,
     List!NoGroup
<1>2. <<trackingNumber, description>> \in HomePackages
  BY DEF FieldsTyped, HomePackages
<1>3. alert' = alert \/ (alert = "none" /\ alert' = "saved")
  BY DEF Form!Success, Form!Present
<1>4. UNCHANGED <<tab, List!listVars>>
  BY <1>1 DEF Form!Success, ListFollows, listVars, List!listVars
<1>5. FieldsTyped'
  BY DEF Form!Success, FieldsTyped
<1> QED
  BY <1>1, <1>2, <1>3, <1>4, <1>5 DEF List!HomeAdds

LEMMA HomeTabUnseen ==
  ASSUME FieldsTyped, HomeTab
  PROVE  [List!Next]_List!vars /\ FieldsTyped'
<1>1. CASE Form!FormStep
  BY <1>1, EditsUnseen DEF HomeTab
<1>2. CASE alert # "filter" /\ Form!DismissAlert
  <2>1. List!DismissAlert
    BY <1>2 DEF HomeTab, Form!DismissAlert, Form!Up, Form!storeVars, ListFollows, listVars,
       List!DismissAlert, List!Up, List!storeVars, List!listVars
  <2> QED
    BY <1>2, <2>1 DEF Form!DismissAlert, Form!formVars, List!Next, FieldsTyped
<1>3. CASE \E code \in Texts : Form!Success(code)
  BY <1>3, SuccessAdds DEF HomeTab, List!Next
<1>4. CASE \E code \in Texts : Form!Failure(code)
  <2>1. List!HomeAlert \/ UNCHANGED List!vars
    BY <1>4 DEF HomeTab, Form!Failure, Form!Present, Form!Up, Form!storeVars, ListFollows,
       listVars, List!HomeAlert, List!Up, List!vars, List!storeVars, List!screenVars,
       List!listVars
  <2> QED
    BY <1>4, <2>1 DEF Form!Failure, List!Next, FieldsTyped
<1>5. CASE Form!SuccessFails
  <2>1. List!AddPackageFails /\ proc' # "up"
    BY <1>5 DEF Form!SuccessFails, Form!AddPackageFails, Form!Up, Form!ManagerConflict,
       Form!Live, Form!Die, Form!IdleWorker, Form!NoGroup, List!AddPackageFails, List!Up,
       List!ManagerConflict, List!Live, List!Die, List!IdleWorker, List!NoGroup
  <2>2. List!HomeAddFails
    BY <2>1 DEF HomeTab, ListFollows, List!HomeAddFails
  <2> QED
    BY <1>5, <2>2 DEF Form!SuccessFails, Form!NewScreens, List!Next, FieldsTyped
<1> QED
  BY <1>1, <1>2, <1>3, <1>4, <1>5 DEF HomeTab, Form!Answers

LEMMA ListSimulation == FieldsTyped /\ [Next]_vars => [List!Next]_List!vars /\ FieldsTyped'
<1> SUFFICES ASSUME FieldsTyped, [Next]_vars
             PROVE  [List!Next]_List!vars /\ FieldsTyped'
  OBVIOUS
<1>1. CASE HomeTab
  BY <1>1, HomeTabUnseen
<1>2. CASE WarningTab \/ Process
  BY <1>2 DEF WarningTab, Process, FormFollows, formVars, List!Next, FieldsTyped
<1>3. CASE Relaunch
  BY <1>3 DEF Relaunch, Form!Relaunch, Form!NewScreens, List!Next, FieldsTyped
<1>4. CASE UNCHANGED vars
  BY <1>4 DEF vars, storeVars, screenVars, listVars, formVars, List!vars, List!storeVars,
     List!screenVars, List!listVars, FieldsTyped
<1> QED
  BY <1>1, <1>2, <1>3, <1>4 DEF Next

\* The app does to the list nothing that PackageList does not allow: whatever
\* the form registers, announces or ends is one of its steps.
THEOREM ImplementsList == Spec => ListImplemented
<1>1. Init => List!Init /\ FieldsTyped
  BY DEF Init, Form!Init, FieldsTyped
<1> QED
  BY <1>1, ListSimulation, PTL DEF Spec, ListImplemented, List!Spec

-----------------------------------------------------------------------------
(* What holds in the list holds in the app.  RastreioApp's List and the list  *)
(* of ListFacts are two instances of one module; that they agree is shown     *)
(* action by action.                                                          *)

LEMMA ListAssumptionsHold ==
  /\ ListFacts!StoreAssumption
  /\ ListFacts!ScreenAssumption
  /\ ListFacts!ListAssumption
<1>1. ListFacts!ScreenAssumption
  BY ScreenAssumption DEF ScreenAssumption, ListFacts!ScreenAssumption
<1>2. ListFacts!StoreAssumption /\ ListFacts!ListAssumption
  BY DEF ListFacts!StoreAssumption, ListFacts!ListAssumption, HomePackages, Templates,
     ListFacts!Templates, Keywords, ListFacts!Keywords, ErrorWords, ListFacts!ErrorWords,
     DoneWords, ListFacts!DoneWords
<1> QED
  BY <1>1, <1>2

LEMMA SameFetch ==
  /\ \A S : List!InOrder(S) = ListFacts!InOrder(S)
  /\ \A S : List!NewScreens(S) <=> ListFacts!NewScreens(S)
  /\ \A t, i : List!Finds(t, i) <=> ListFacts!Finds(t, i)
<1>1. ASSUME NEW S
      PROVE  List!InOrder(S) = ListFacts!InOrder(S)
  BY DEF List!InOrder, ListFacts!InOrder, List!Cardinality, ListFacts!Cardinality
<1>2. ASSUME NEW S
      PROVE  List!NewScreens(S) <=> ListFacts!NewScreens(S)
  BY <1>1 DEF List!NewScreens, ListFacts!NewScreens, List!NoJob, ListFacts!NoJob
<1>3. ASSUME NEW t, NEW i
      PROVE  List!Finds(t, i) <=> ListFacts!Finds(t, i)
  BY DEF List!Finds, ListFacts!Finds
<1> QED
  BY <1>1, <1>2, <1>3

LEMMA SameIcon == \A s : List!ImageOf(s) = ListFacts!ImageOf(s)
<1>1. List!ErrorWords = ListFacts!ErrorWords /\ List!DoneWords = ListFacts!DoneWords
  BY DEF List!ErrorWords, ListFacts!ErrorWords, List!DoneWords, ListFacts!DoneWords
<1> QED
  BY <1>1 DEF List!ImageOf, ListFacts!ImageOf

LEMMA SameStoreActions ==
  /\ \A r \in inflight, s \in Statuses, n \in 0..MaxEvents :
       List!Answered(r, s, n) <=> ListFacts!Answered(r, s, n)
  /\ List!SetStatus <=> ListFacts!SetStatus
  /\ List!BlankImage <=> ListFacts!BlankImage
  /\ List!SaveUpdate <=> ListFacts!SaveUpdate
  /\ List!QueueDeath <=> ListFacts!QueueDeath
  /\ List!EnterBackground <=> ListFacts!EnterBackground
  /\ List!Kill <=> ListFacts!Kill
  /\ List!ScreensFollow <=> ListFacts!ScreensFollow
<1>1. \A r \in inflight, s \in Statuses, n \in 0..MaxEvents :
        List!Answered(r, s, n) <=> ListFacts!Answered(r, s, n)
  BY DEF List!Answered, ListFacts!Answered, List!Up, ListFacts!Up
<1>2. /\ List!SetStatus <=> ListFacts!SetStatus
      /\ List!BlankImage <=> ListFacts!BlankImage
  BY DEF List!SetStatus, ListFacts!SetStatus, List!BlankImage, ListFacts!BlankImage, List!Up,
     ListFacts!Up
<1>3. List!SaveUpdate <=> ListFacts!SaveUpdate
  BY SameIcon DEF List!SaveUpdate, ListFacts!SaveUpdate, List!Up, ListFacts!Up, List!Live,
     ListFacts!Live, List!Outdate, ListFacts!Outdate
<1>4. List!QueueDeath <=> ListFacts!QueueDeath
  BY DEF List!QueueDeath, ListFacts!QueueDeath, List!AnsweredWithError,
     ListFacts!AnsweredWithError, List!SaveUpdateFails, ListFacts!SaveUpdateFails,
     List!Up, ListFacts!Up, List!Die, ListFacts!Die, List!Live, ListFacts!Live,
     List!IdleWorker, ListFacts!IdleWorker, List!NoGroup, ListFacts!NoGroup
<1>5. List!EnterBackground <=> ListFacts!EnterBackground
  BY DEF List!EnterBackground, ListFacts!EnterBackground, List!Up, ListFacts!Up,
     List!CanDelete, ListFacts!CanDelete, List!Without, ListFacts!Without, List!Die,
     ListFacts!Die, List!Live, ListFacts!Live, List!IdleWorker, ListFacts!IdleWorker,
     List!NoGroup, ListFacts!NoGroup
<1>6. List!Kill <=> ListFacts!Kill
  BY DEF List!Kill, ListFacts!Kill, List!Up, ListFacts!Up, List!Die, ListFacts!Die,
     List!IdleWorker, ListFacts!IdleWorker, List!NoGroup, ListFacts!NoGroup
<1>7. List!ScreensFollow <=> ListFacts!ScreensFollow
  BY SameFetch DEF List!ScreensFollow, ListFacts!ScreensFollow, List!screenVars,
     ListFacts!screenVars, List!listVars, ListFacts!listVars
<1> QED
  BY <1>1, <1>2, <1>3, <1>4, <1>5, <1>6, <1>7

LEMMA SameStoreStep == List!StoreStep <=> ListFacts!StoreStep
<1>1. List!QueueStep <=> ListFacts!QueueStep
  BY SameStoreActions DEF List!QueueStep, ListFacts!QueueStep
<1> QED
  BY <1>1, SameStoreActions DEF List!StoreStep, ListFacts!StoreStep

LEMMA SameUserActions ==
  /\ List!Appear <=> ListFacts!Appear
  /\ List!LeaveTab <=> ListFacts!LeaveTab
  /\ List!OpenFilter <=> ListFacts!OpenFilter
  /\ List!CancelFilter <=> ListFacts!CancelFilter
  /\ \A t \in OfferedTemplates : List!ChooseFilter(t) <=> ListFacts!ChooseFilter(t)
  /\ \A k \in List!Ids : List!Commit(k) <=> ListFacts!Commit(k)
  /\ \A k \in List!Ids : List!CommitBeyond(k) <=> ListFacts!CommitBeyond(k)
  /\ \A k \in List!Ids : List!ShowDetail(k) <=> ListFacts!ShowDetail(k)
  /\ List!CommitEmptyState <=> ListFacts!CommitEmptyState
<1>1. List!Appear <=> ListFacts!Appear
  BY SameFetch DEF List!Appear, ListFacts!Appear, List!Up, ListFacts!Up, List!Live,
     ListFacts!Live, List!Ask, ListFacts!Ask
<1>2. List!LeaveTab <=> ListFacts!LeaveTab
  BY DEF List!LeaveTab, ListFacts!LeaveTab, List!Up, ListFacts!Up, List!SwitchTab,
     ListFacts!SwitchTab, List!storeVars, ListFacts!storeVars, List!listVars,
     ListFacts!listVars
<1>3. List!OpenFilter <=> ListFacts!OpenFilter
  BY DEF List!OpenFilter, ListFacts!OpenFilter, List!Up, ListFacts!Up, List!Touchable,
     ListFacts!Touchable, List!NoJob, ListFacts!NoJob, List!storeVars,
     ListFacts!storeVars, List!listVars, ListFacts!listVars, List!Templates,
     ListFacts!Templates
<1>4. List!CancelFilter <=> ListFacts!CancelFilter
  BY DEF List!CancelFilter, ListFacts!CancelFilter, List!Up, ListFacts!Up, List!storeVars,
     ListFacts!storeVars, List!listVars, ListFacts!listVars
<1>5. \A t \in OfferedTemplates : List!ChooseFilter(t) <=> ListFacts!ChooseFilter(t)
  BY DEF List!ChooseFilter, ListFacts!ChooseFilter, List!Up, ListFacts!Up, List!storeVars,
     ListFacts!storeVars
<1>6. \A k \in List!Ids : List!Commit(k) <=> ListFacts!Commit(k)
  BY SameFetch DEF List!Commit, ListFacts!Commit, List!Up, ListFacts!Up, List!Touchable,
     ListFacts!Touchable, List!RemoveAt, ListFacts!RemoveAt, List!CanDelete,
     ListFacts!CanDelete, List!Without, ListFacts!Without, List!LoadSaveData,
     ListFacts!LoadSaveData, List!Live, ListFacts!Live, List!screenVars,
     ListFacts!screenVars, List!Fetched, ListFacts!Fetched, List!FreshAfterFetch,
     ListFacts!FreshAfterFetch
<1>7. \A k \in List!Ids : List!CommitBeyond(k) <=> ListFacts!CommitBeyond(k)
  BY SameFetch DEF List!CommitBeyond, ListFacts!CommitBeyond, List!Up, ListFacts!Up,
     List!Touchable, ListFacts!Touchable, List!Die, ListFacts!Die, List!IdleWorker,
     ListFacts!IdleWorker, List!NoGroup, ListFacts!NoGroup
<1>8. \A k \in List!Ids : List!ShowDetail(k) <=> ListFacts!ShowDetail(k)
  BY DEF List!ShowDetail, ListFacts!ShowDetail, List!Up, ListFacts!Up, List!Touchable,
     ListFacts!Touchable, List!storeVars, ListFacts!storeVars, List!listVars,
     ListFacts!listVars
<1>9. List!CommitEmptyState <=> ListFacts!CommitEmptyState
  BY SameFetch DEF List!CommitEmptyState, ListFacts!CommitEmptyState, List!Up,
     ListFacts!Up, List!Touchable, ListFacts!Touchable, List!Die, ListFacts!Die,
     List!IdleWorker, ListFacts!IdleWorker, List!NoGroup, ListFacts!NoGroup
<1> QED
  BY <1>1, <1>2, <1>3, <1>4, <1>5, <1>6, <1>7, <1>8, <1>9

LEMMA SameOtherActions ==
  /\ List!CompletionLeaves <=> ListFacts!CompletionLeaves
  /\ List!FilterFetch <=> ListFacts!FilterFetch
  /\ List!FilterShow <=> ListFacts!FilterShow
  /\ List!DetailAlert <=> ListFacts!DetailAlert
  /\ List!OtherAlert <=> ListFacts!OtherAlert
  /\ \A g \in Groups : List!Notify(g) <=> ListFacts!Notify(g)
  /\ List!HomeAdds <=> ListFacts!HomeAdds
  /\ List!HomeAddFails <=> ListFacts!HomeAddFails
  /\ List!HomeAlert <=> ListFacts!HomeAlert
  /\ List!DismissAlert <=> ListFacts!DismissAlert
  /\ List!Relaunch <=> ListFacts!Relaunch
<1>1. List!CompletionLeaves <=> ListFacts!CompletionLeaves
  BY DEF List!CompletionLeaves, ListFacts!CompletionLeaves, List!UpdateReturns,
     ListFacts!UpdateReturns, List!NoGroup, ListFacts!NoGroup, List!screenVars,
     ListFacts!screenVars, List!Up, ListFacts!Up, List!IdleWorker, ListFacts!IdleWorker
<1>2. List!FilterFetch <=> ListFacts!FilterFetch
  BY SameFetch DEF List!FilterFetch, ListFacts!FilterFetch, List!Up, ListFacts!Up,
     List!Live, ListFacts!Live, List!storeVars, ListFacts!storeVars, List!screenVars,
     ListFacts!screenVars
<1>3. List!FilterShow <=> ListFacts!FilterShow
  BY DEF List!FilterShow, ListFacts!FilterShow, List!Up, ListFacts!Up, List!NoJob,
     ListFacts!NoJob, List!storeVars, ListFacts!storeVars, List!screenVars,
     ListFacts!screenVars, List!Templates, ListFacts!Templates
<1>4. List!DetailAlert <=> ListFacts!DetailAlert
  BY DEF List!DetailAlert, ListFacts!DetailAlert, List!Up, ListFacts!Up, List!Touchable,
     ListFacts!Touchable, List!storeVars, ListFacts!storeVars, List!listVars,
     ListFacts!listVars
<1>5. \A g \in Groups : List!Notify(g) <=> ListFacts!Notify(g)
  BY SameFetch DEF List!Notify, ListFacts!Notify, List!Up, ListFacts!Up,
     List!LoadSaveData, ListFacts!LoadSaveData, List!Live, ListFacts!Live,
     List!screenVars, ListFacts!screenVars, List!Fetched, ListFacts!Fetched,
     List!FreshAfterFetch, ListFacts!FreshAfterFetch
<1>6. List!HomeAdds <=> ListFacts!HomeAdds
  BY DEF List!HomeAdds, ListFacts!HomeAdds, List!AddPackage, ListFacts!AddPackage,
     List!listVars, ListFacts!listVars, List!Up, ListFacts!Up, List!ManagerConflict,
     ListFacts!ManagerConflict, List!Live, ListFacts!Live, List!NewRow, ListFacts!NewRow,
     List!SavedRows, ListFacts!SavedRows, List!Ask, ListFacts!Ask, List!NoGroup,
     ListFacts!NoGroup, List!HalfDone, ListFacts!HalfDone
<1>7. List!HomeAddFails <=> ListFacts!HomeAddFails
  BY SameFetch DEF List!HomeAddFails, ListFacts!HomeAddFails, List!AddPackageFails,
     ListFacts!AddPackageFails, List!Up, ListFacts!Up, List!ManagerConflict,
     ListFacts!ManagerConflict, List!Die, ListFacts!Die, List!Live, ListFacts!Live,
     List!IdleWorker, ListFacts!IdleWorker, List!NoGroup, ListFacts!NoGroup
<1>8. List!HomeAlert <=> ListFacts!HomeAlert
  BY DEF List!HomeAlert, ListFacts!HomeAlert, List!Up, ListFacts!Up, List!storeVars,
     ListFacts!storeVars, List!listVars, ListFacts!listVars
<1>9. List!DismissAlert <=> ListFacts!DismissAlert
  BY DEF List!DismissAlert, ListFacts!DismissAlert, List!Up, ListFacts!Up, List!storeVars,
     ListFacts!storeVars, List!listVars, ListFacts!listVars
<1>10. List!Relaunch <=> ListFacts!Relaunch
  BY SameFetch DEF List!Relaunch, ListFacts!Relaunch, List!Restart, ListFacts!Restart,
     List!Live, ListFacts!Live, List!Up, ListFacts!Up
<1>11. List!OtherAlert <=> ListFacts!OtherAlert
  BY DEF List!OtherAlert, ListFacts!OtherAlert, List!MenuAlert, ListFacts!MenuAlert, List!Present,
     ListFacts!Present, List!Up, ListFacts!Up, List!storeVars, ListFacts!storeVars,
     List!listVars, ListFacts!listVars
<1> QED
  BY <1>1, <1>2, <1>3, <1>4, <1>5, <1>6, <1>7, <1>8, <1>9, <1>10, <1>11

LEMMA SameNext == List!Next <=> ListFacts!Next
<1>1. List!UserStep <=> ListFacts!UserStep
  BY SameUserActions DEF List!UserStep, ListFacts!UserStep, List!Ids, ListFacts!Ids
<1>2. List!ListStep <=> ListFacts!ListStep
  BY <1>1, SameOtherActions DEF List!ListStep, ListFacts!ListStep
<1> QED
  BY <1>2, SameStoreStep, SameOtherActions DEF List!Next, ListFacts!Next

LEMMA IsAList == Spec => ListFacts!Spec
<1>1. List!Init => ListFacts!Init
  BY DEF List!Init, ListFacts!Init, List!StoreInit, ListFacts!StoreInit, List!ScreenInit,
     ListFacts!ScreenInit, List!NoJob, ListFacts!NoJob, List!IdleWorker, ListFacts!IdleWorker,
     List!NoGroup, ListFacts!NoGroup
<1>2. [List!Next]_List!vars => [ListFacts!Next]_ListFacts!vars
  BY SameNext DEF List!vars, ListFacts!vars, List!storeVars, ListFacts!storeVars,
     List!screenVars, ListFacts!screenVars, List!listVars, ListFacts!listVars
<1> QED
  BY <1>1, <1>2, ImplementsList, PTL DEF ListImplemented, List!Spec, ListFacts!Spec

\* While two refreshes overlap and the real form registers packages, a row
\* number still means the same package in both arrays.
THEOREM ArraysAgree == Spec => []SameNumbers
<1>1. ListFacts!Spec => []ListFacts!SameNumbers
  BY ListAssumptionsHold, ListFacts!ArraysAgree
<1>2. ListFacts!SameNumbers => SameNumbers
  BY DEF ListFacts!SameNumbers, SameNumbers, List!SameNumbers
<1> QED
  BY <1>1, <1>2, IsAList, PTL

\* The form's requests, which belong to no group, leave none, and every other
\* completion finds its row in its group.
THEOREM GroupsStayBalanced == Spec => []GroupsBalanced
<1>1. ListFacts!Spec => []ListFacts!GroupsBalanced
  BY ListAssumptionsHold, ListFacts!GroupsStayBalanced
<1>2. ListFacts!GroupsBalanced => GroupsBalanced
  BY DEF ListFacts!GroupsBalanced, GroupsBalanced, List!GroupsBalanced, ListFacts!NoGroup,
     List!NoGroup, ListFacts!Live, List!Live
<1> QED
  BY <1>1, <1>2, IsAList, PTL

\* What the form does adds no case in which a swipe is out of range.
THEOREM TrapsUnrefreshed == Spec => TrapsOnlyUnrefreshed
<1>1. ListFacts!Spec => ListFacts!TrapsOnlyUnrefreshed
  BY ListAssumptionsHold, ListFacts!TrapsUnrefreshed
<1>2. ListFacts!TrapsOnlyUnrefreshed => TrapsOnlyUnrefreshed
  <2>1. [ListFacts!Up /\ proc' = "outOfRange" =>
           open # {} \/ shownFrom = "stack" \/ deletes # {} \/ coreData = <<>>]_ListFacts!vars
        => [List!Up /\ proc' = "outOfRange" =>
              open # {} \/ shownFrom = "stack" \/ deletes # {} \/ coreData = <<>>]_List!vars
    BY DEF ListFacts!Up, List!Up, List!vars, ListFacts!vars, List!storeVars,
       ListFacts!storeVars, List!screenVars, ListFacts!screenVars, List!listVars,
       ListFacts!listVars
  <2> QED
    BY <2>1, PTL DEF ListFacts!TrapsOnlyUnrefreshed, TrapsOnlyUnrefreshed,
       List!TrapsOnlyUnrefreshed
<1> QED
  BY <1>1, <1>2, IsAList, PTL

\* What the store keeps, in the whole app: a deleted package never comes back, no
\* package changes its code or its name, and a failed delete blocks the later ones.
THEOREM StoreKeepsInApp ==
  Spec => List!NoResurrection /\ List!IdentityKept /\ List!FailedDeleteBlocksDeletes
<1>1. ListFacts!Spec => /\ ListFacts!NoResurrection
                        /\ ListFacts!IdentityKept
                        /\ ListFacts!FailedDeleteBlocksDeletes
  BY ListAssumptionsHold, ListFacts!DeletedStaysDeleted, ListFacts!KeepsIdentity,
     ListFacts!FailedDeleteBlocks
<1>2. ListFacts!NoResurrection => List!NoResurrection
  BY DEF ListFacts!NoResurrection, List!NoResurrection, ListFacts!Ids, List!Ids, ListFacts!Live,
     List!Live, ListFacts!storeVars, List!storeVars
<1>3. ListFacts!IdentityKept => List!IdentityKept
  BY DEF ListFacts!IdentityKept, List!IdentityKept, ListFacts!Live, List!Live,
     ListFacts!storeVars, List!storeVars
<1>4. ListFacts!FailedDeleteBlocksDeletes => List!FailedDeleteBlocksDeletes
  BY DEF ListFacts!FailedDeleteBlocksDeletes, List!FailedDeleteBlocksDeletes, ListFacts!Live,
     List!Live, ListFacts!storeVars, List!storeVars
<1> QED
  BY <1>1, <1>2, <1>3, <1>4, IsAList

\* What the list shows, in the whole app: whatever the real form registers
\* meanwhile, the shown packages exist, a swipe deletes one package, the shown
\* one, and a package leaves the filter of its status only by a registration
\* between the halves of its update.
THEOREM ListShowsInApp ==
  Spec => /\ []List!ShownPackagesExist
          /\ List!MisfiledOnlyByRegistration
          /\ List!OneSwipeOnePackage
<1>1. ListFacts!Spec => /\ []ListFacts!ShownPackagesExist
                        /\ ListFacts!MisfiledOnlyByRegistration
                        /\ ListFacts!OneSwipeOnePackage
  BY ListAssumptionsHold, ListFacts!ShowsWhatExists, ListFacts!FilesByStatus,
     ListFacts!SwipesOne
<1>2. ListFacts!ShownPackagesExist => List!ShownPackagesExist
  BY DEF ListFacts!ShownPackagesExist, List!ShownPackagesExist, ListFacts!Elements,
     List!Elements, ListFacts!Live, List!Live
<1>3. ListFacts!MisfiledOnlyByRegistration => List!MisfiledOnlyByRegistration
  <2>1. \A t, i : ListFacts!Belongs(t, i) <=> List!Belongs(t, i)
    BY DEF ListFacts!Belongs, List!Belongs, ListFacts!ErrorWords, List!ErrorWords,
       ListFacts!DoneWords, List!DoneWords, ListFacts!Keywords, List!Keywords
  <2>2. \A row : ListFacts!Misfiled(row) <=> List!Misfiled(row)
    BY <2>1, SameFetch DEF ListFacts!Misfiled, List!Misfiled, ListFacts!Templates,
       List!Templates, ListFacts!Settled, List!Settled
  <2>3. [\A id \in ListFacts!Live' : ListFacts!Misfiled(rows'[id]) =>
           \/ /\ id \in ListFacts!Live
              /\ rows[id].status = rows'[id].status /\ rows[id].image = rows'[id].image
              /\ ~(worker.id = id /\ worker.phase = "blanked" /\ worker'.phase = "loop")
           \/ lastId' > lastId /\ worker.id = id /\ worker.phase = "dated"]_ListFacts!storeVars
        => [\A id \in List!Live' : List!Misfiled(rows'[id]) =>
              \/ /\ id \in List!Live
                 /\ rows[id].status = rows'[id].status /\ rows[id].image = rows'[id].image
                 /\ ~(worker.id = id /\ worker.phase = "blanked" /\ worker'.phase = "loop")
              \/ lastId' > lastId /\ worker.id = id /\ worker.phase = "dated"]_List!storeVars
    BY <2>2 DEF ListFacts!Live, List!Live, ListFacts!storeVars, List!storeVars
  <2> QED
    BY <2>3, PTL DEF ListFacts!MisfiledOnlyByRegistration, List!MisfiledOnlyByRegistration
<1>4. ListFacts!OneSwipeOnePackage => List!OneSwipeOnePackage
  BY DEF ListFacts!OneSwipeOnePackage, List!OneSwipeOnePackage, ListFacts!Live, List!Live,
     ListFacts!Touchable, List!Touchable, ListFacts!Up, List!Up, ListFacts!Elements, List!Elements,
     ListFacts!vars, List!vars, ListFacts!storeVars, List!storeVars, ListFacts!screenVars,
     List!screenVars, ListFacts!listVars, List!listVars
<1> QED
  BY <1>1, <1>2, <1>3, <1>4, IsAList, PTL

-----------------------------------------------------------------------------
(* The list, seen from the form *)

\* What the form needs to know of the list: marks that were left behind keep
\* the other context from deleting anything.
ShownToForm ==
  /\ tab \in Tabs
  /\ Live \subseteq Ids
  /\ fresh \subseteq Live
  /\ deletes # {} => ~CanDelete(deletes)

LEMMA ShownAlways == Spec => []ShownToForm
<1>1. ListFacts!Spec => []ListFacts!TypeOK /\ []ListFacts!ListInv
  BY ListAssumptionsHold, ListFacts!TypeCorrect, ListFacts!ListInvAlways
<1>2. ListFacts!TypeOK /\ ListFacts!ListInv => ShownToForm
  BY DEF ListFacts!TypeOK, ListFacts!StoreTypeOK, ListFacts!RowsTypeOK, ListFacts!ScreenTypeOK,
     ListFacts!Tabs, ListFacts!Live, ListFacts!ListInv, ListFacts!MarksAreStuck,
     ListFacts!CanDelete, ShownToForm, Tabs, Live, Ids, CanDelete
<1> QED
  BY <1>1, <1>2, IsAList, PTL

\* What may happen to the form besides its being edited and submitted.
BesideForm == FormView!OtherTouch \/ FormView!SystemStep

\* The form's own steps, without what the other context knows and has marked.
LEMMA HomeTabIsForm ==
  ASSUME HomeTab
  PROVE  (Form!FormStep /\ FormView!FormStep) \/ BesideForm
<1>1. CASE Form!FormStep
  <2>1. FormView!FormStep
    BY <1>1 DEF Form!FormStep, Form!EditTrackingNumber, Form!EditDescription,
       Form!SubmitRegistered, Form!SubmitUnfilled, Form!SubmitValid, Form!Up, Form!Touchable,
       Form!Present, Form!NotRegistered, Form!Live, Form!Filled, Form!storeVars,
       Form!screenVars, Form!formVars, FormView!FormStep, FormView!EditTrackingNumber,
       FormView!EditDescription, FormView!SubmitRegistered, FormView!SubmitUnfilled,
       FormView!SubmitValid, FormView!Up, FormView!Touchable, FormView!Present,
       FormView!NotRegistered, FormView!Live, FormView!Filled, FormView!storeVars,
       FormView!screenVars, FormView!formVars
  <2> QED
    BY <1>1, <2>1
<1>2. CASE Form!DismissAlert
  <2>1. FormView!DismissAlert
    BY <1>2 DEF Form!DismissAlert, Form!Up, Form!storeVars, Form!formVars,
       FormView!DismissAlert, FormView!Up, FormView!storeVars, FormView!formVars
  <2> QED
    BY <2>1 DEF BesideForm, FormView!OtherTouch
<1>3. CASE \E code \in Texts : Form!Success(code)
  <2>1. PICK code \in Texts : Form!Success(code)
    BY <1>3
  <2>2. FormView!AddPackage(trackingNumber, description)
    BY <2>1 DEF Form!Success, Form!AddPackage, Form!Up, Form!ManagerConflict, Form!Live,
       Form!NewRow, Form!SavedRows, Form!HalfDone, Form!Ask, Form!NoGroup,
       FormView!AddPackage, FormView!Up, FormView!ManagerConflict, FormView!Live,
       FormView!NewRow, FormView!SavedRows, FormView!HalfDone, FormView!Ask, FormView!NoGroup
  <2>3. FormView!Success(code)
    BY <2>1, <2>2 DEF Form!Success, Form!AnswerTo, Form!Present, FormView!Success,
       FormView!AnswerTo, FormView!Present
  <2> QED
    BY <2>3 DEF BesideForm, FormView!SystemStep
<1>4. CASE \E code \in Texts : Form!Failure(code)
  <2>1. \E code \in Texts : FormView!Failure(code)
    BY <1>4 DEF Form!Failure, Form!AnswerTo, Form!Present, Form!Up, Form!storeVars,
       FormView!Failure, FormView!AnswerTo, FormView!Present, FormView!Up, FormView!storeVars
  <2> QED
    BY <2>1 DEF BesideForm, FormView!SystemStep
<1>5. CASE Form!SuccessFails
  <2>1. FormView!SuccessFails
    BY <1>5 DEF Form!SuccessFails, Form!AddPackageFails, Form!Up, Form!ManagerConflict,
       Form!Live, Form!Die, Form!IdleWorker, Form!NoGroup, Form!NewScreens,
       Form!NothingValidating, FormView!SuccessFails, FormView!AddPackageFails, FormView!Up,
       FormView!ManagerConflict, FormView!Live, FormView!Die, FormView!IdleWorker,
       FormView!NoGroup, FormView!NewScreens, FormView!NothingValidating
  <2> QED
    BY <2>1 DEF BesideForm, FormView!SystemStep
<1> QED
  BY <1>1, <1>2, <1>3, <1>4, <1>5 DEF HomeTab, Form!Answers

\* A death in the list takes the form with it.
LEMMA DeathsEndForm ==
  ASSUME List!Up, NEW why \in {"outOfRange", "unresolved"}, List!Die(why),
         List!NewScreens({}), FormFollows
  PROVE  BesideForm
<1>1. FormView!ListDies
  BY DEF List!Up, List!Die, List!IdleWorker, List!NoGroup, List!NewScreens, FormFollows,
     Form!NothingValidating, FormView!ListDies, FormView!Up, FormView!Die, FormView!IdleWorker,
     FormView!NoGroup, FormView!NewScreens, FormView!NothingValidating
<1> QED
  BY <1>1 DEF BesideForm, FormView!SystemStep

\* A swipe deletes one package, or none: with an earlier mark in its way the
\* save is rejected, so that nothing but the swiped package can go.
LEMMA CommitIsDelete ==
  ASSUME ShownToForm, NEW k \in List!Ids, List!Commit(k), FormFollows
  PROVE  [BesideForm]_FormView!vars
<1> DEFINE marked == deletes \cup {eventArray[k]}
<1>1. /\ UNCHANGED <<lastId, inflight, worker, proc, tab, alert>>
      /\ UNCHANGED <<trackingNumber, description, validating>>
      /\ proc = "up"
  BY DEF List!Commit, List!Up, List!screenVars, FormFollows, formVars
<1>2. CASE marked \subseteq fresh
  <2>1. deletes = {} /\ eventArray[k] \in Live
    BY <1>2 DEF ShownToForm, CanDelete
  <2>2. rows' = [id \in Live \ {eventArray[k]} |-> rows[id]]
    BY <1>2, <2>1 DEF List!Commit, List!CanDelete, List!Without, List!Live, Live
  <2>3. FormView!ListDeletes(eventArray[k])
    BY <1>1, <2>1, <2>2 DEF List!Commit, List!Touchable, FormView!ListDeletes, FormView!Up,
       FormView!Touchable, FormView!Live, FormView!Without, FormView!screenVars,
       FormView!formVars, Live
  <2>4. eventArray[k] \in FormView!Ids
    BY <2>1 DEF ShownToForm, FormView!Ids, Ids
  <2> QED
    BY <2>3, <2>4 DEF BesideForm, FormView!OtherTouch
<1>3. CASE ~(marked \subseteq fresh)
  <2>1. rows' = rows
    BY <1>3 DEF List!Commit, List!CanDelete
  <2> QED
    BY <1>1, <2>1 DEF FormView!vars, FormView!storeVars, FormView!screenVars, FormView!formVars
<1> QED
  BY <1>2, <1>3

LEMMA UserStepsAllowed ==
  ASSUME ShownToForm, List!UserStep, FormFollows
  PROVE  [BesideForm]_FormView!vars
<1>1. CASE List!Appear
  <2>1. FormView!ShowList
    BY <1>1 DEF List!Appear, List!Up, List!Ask, List!Live, FormFollows, formVars, ShownToForm,
       Tabs, FormView!ShowList, FormView!Up, FormView!Touchable, FormView!Ask, FormView!Live,
       FormView!formVars
  <2> QED
    BY <2>1 DEF BesideForm, FormView!OtherTouch
<1>2. CASE List!LeaveTab
  <2>1. FormView!LeaveTab
    BY <1>2 DEF List!LeaveTab, List!SwitchTab, List!Up, List!storeVars, FormFollows, formVars,
       FormView!LeaveTab, FormView!SwitchTab, FormView!Up, FormView!storeVars,
       FormView!formVars
  <2> QED
    BY <2>1 DEF BesideForm, FormView!OtherTouch
<1>3. CASE List!OpenFilter
  <2>1. FormView!OtherAlert
    BY <1>3 DEF List!OpenFilter, List!Up, List!Touchable, List!storeVars, FormFollows,
       formVars, FormView!OtherAlert, FormView!Up, FormView!Touchable, FormView!storeVars,
       FormView!formVars
  <2> QED
    BY <2>1 DEF BesideForm, FormView!OtherTouch
<1>4. CASE List!CancelFilter \/ \E t \in OfferedTemplates : List!ChooseFilter(t)
  <2>1. FormView!DismissAlert
    BY <1>4 DEF List!CancelFilter, List!ChooseFilter, List!Up, List!storeVars, FormFollows,
       formVars, FormView!DismissAlert, FormView!Up, FormView!storeVars, FormView!formVars
  <2> QED
    BY <2>1 DEF BesideForm, FormView!OtherTouch
<1>5. CASE \E k \in List!Ids : List!Commit(k)
  BY <1>5, CommitIsDelete
<1>6. CASE \E k \in List!Ids : List!CommitBeyond(k)
  BY <1>6, DeathsEndForm DEF List!CommitBeyond
<1>7. CASE \E k \in List!Ids : List!ShowDetail(k)
  <2>1. FormView!ShowDetail
    BY <1>7 DEF List!ShowDetail, List!Up, List!Touchable, List!storeVars, FormFollows,
       formVars, FormView!ShowDetail, FormView!Up, FormView!Touchable, FormView!storeVars,
       FormView!formVars
  <2> QED
    BY <2>1 DEF BesideForm, FormView!OtherTouch
<1>8. CASE List!CommitEmptyState
  BY <1>8, DeathsEndForm DEF List!CommitEmptyState
<1> QED
  BY <1>1, <1>2, <1>3, <1>4, <1>5, <1>6, <1>7, <1>8 DEF List!UserStep

LEMMA WarningTabAllowed ==
  ASSUME ShownToForm, WarningTab
  PROVE  [BesideForm]_FormView!vars
<1>1. CASE List!UserStep
  BY <1>1, UserStepsAllowed DEF WarningTab
<1>2. CASE List!CompletionLeaves
  <2>1. FormView!StoreStep
    BY <1>2 DEF WarningTab, List!CompletionLeaves, List!UpdateReturns, List!Up,
       List!IdleWorker, List!NoGroup, List!screenVars, FormFollows, formVars,
       FormView!StoreStep, FormView!UpdateReturns, FormView!Up, FormView!IdleWorker,
       FormView!NoGroup, FormView!ScreensFollow, FormView!screenVars, FormView!formVars
  <2> QED
    BY <2>1 DEF BesideForm, FormView!SystemStep
<1>3. CASE List!FilterFetch \/ List!FilterShow
  BY <1>3 DEF WarningTab, List!FilterFetch, List!FilterShow, List!Up, List!storeVars,
     List!screenVars, FormFollows, formVars, FormView!vars, FormView!storeVars,
     FormView!screenVars, FormView!formVars
<1>4. CASE List!DetailAlert
  <2>1. FormView!OtherAlert
    BY <1>4 DEF WarningTab, List!DetailAlert, List!Up, List!Touchable, List!storeVars,
       FormFollows, formVars, FormView!OtherAlert, FormView!Up, FormView!Touchable,
       FormView!storeVars, FormView!formVars
  <2> QED
    BY <2>1 DEF BesideForm, FormView!OtherTouch
<1>5. CASE \E g \in Groups : List!Notify(g)
  BY <1>5 DEF WarningTab, List!Notify, List!Up, List!screenVars, FormFollows, formVars,
     FormView!vars, FormView!storeVars, FormView!screenVars, FormView!formVars
<1>6. CASE List!OtherAlert
  <2>1. FormView!OtherAlert
    BY <1>6 DEF WarningTab, List!OtherAlert, List!MenuAlert, List!Present, List!Up,
       List!storeVars, FormFollows, formVars, FormView!OtherAlert, FormView!MenuAlert,
       FormView!Present, FormView!Up, FormView!storeVars, FormView!formVars
  <2> QED
    BY <2>1 DEF BesideForm, FormView!OtherTouch
<1> QED
  BY <1>1, <1>2, <1>3, <1>4, <1>5, <1>6 DEF WarningTab, List!ListStep

LEMMA ProcessAllowed ==
  ASSUME ShownToForm, Process
  PROVE  BesideForm
<1>1. CASE List!EnterBackground
  <2>1. List!Die("unresolved") /\ List!Up
    BY <1>1 DEF List!EnterBackground, List!CanDelete, ShownToForm, CanDelete
  <2>2. List!NewScreens({})
    BY <2>1 DEF Process, List!StoreStep, List!ScreensFollow, List!Die
  <2> QED
    BY <2>1, <2>2, DeathsEndForm DEF Process
<1>2. CASE List!QueueStep
  <2>1. FormView!QueueStep
    <3>1. CASE \E r \in inflight, s \in Statuses, n \in 0..MaxEvents : List!Answered(r, s, n)
      BY <3>1 DEF List!Answered, List!Up, FormView!QueueStep, FormView!Answered, FormView!Up
    <3>2. CASE List!BlankImage
      BY <3>2 DEF List!BlankImage, List!Up, FormView!QueueStep, FormView!BlankImage, FormView!Up
    <3>3. CASE List!SaveUpdate
      <4>1. List!ImageOf(worker.status) = FormView!ImageOf(worker.status)
        BY DEF List!ImageOf, List!ErrorWords, List!DoneWords, FormView!ImageOf,
           FormView!ErrorWords, FormView!DoneWords
      <4> QED
        BY <3>3, <4>1 DEF List!SaveUpdate, List!Up, List!Live, FormView!QueueStep,
           FormView!SaveUpdate, FormView!Up, FormView!Live, FormView!Outdate
    <3>4. CASE List!SetStatus
      BY <3>4 DEF List!SetStatus, List!Up, FormView!QueueStep, FormView!SetStatus, FormView!Up
    <3> QED
      BY <1>2, <3>1, <3>2, <3>3, <3>4 DEF List!QueueStep
  <2>2. UNCHANGED <<tab, alert, trackingNumber, description, validating>> /\ proc' = "up"
    BY <1>2 DEF Process, List!StoreStep, List!ScreensFollow, List!screenVars, List!QueueStep,
       List!Answered, List!SetStatus, List!BlankImage, List!SaveUpdate, List!Up, FormFollows,
       formVars
  <2>3. FormView!StoreStep
    BY <2>1, <2>2 DEF FormView!StoreStep, FormView!ScreensFollow, FormView!screenVars,
       FormView!formVars
  <2> QED
    BY <2>3 DEF BesideForm, FormView!SystemStep
<1>3. CASE List!QueueDeath \/ List!Kill
  <2>1. FormView!QueueDeath \/ FormView!Kill
    BY <1>3 DEF List!QueueDeath, List!AnsweredWithError, List!SaveUpdateFails, List!Kill,
       List!Up, List!Live, List!Die, List!IdleWorker, List!NoGroup, FormView!QueueDeath,
       FormView!AnsweredWithError, FormView!SaveUpdateFails, FormView!Kill, FormView!Up,
       FormView!Live, FormView!Die, FormView!IdleWorker, FormView!NoGroup
  <2>2. proc' # "up"
    BY <1>3 DEF List!QueueDeath, List!AnsweredWithError, List!SaveUpdateFails, List!Kill,
       List!Die
  <2>3. FormView!NewScreens
    BY <2>2 DEF Process, List!StoreStep, List!ScreensFollow, List!NewScreens, FormFollows,
       Form!NothingValidating, FormView!NewScreens, FormView!NothingValidating
  <2>4. FormView!StoreStep
    BY <2>1, <2>2, <2>3 DEF FormView!StoreStep, FormView!ScreensFollow
  <2> QED
    BY <2>4 DEF BesideForm, FormView!SystemStep
<1> QED
  BY <1>1, <1>2, <1>3 DEF Process, List!StoreStep

LEMMA FormSteps ==
  ASSUME ShownToForm, [Next]_vars
  PROVE  (Form!FormStep /\ FormView!FormStep) \/ [BesideForm]_FormView!vars
<1>1. CASE HomeTab
  BY <1>1, HomeTabIsForm
<1>2. CASE WarningTab
  BY <1>2, WarningTabAllowed
<1>3. CASE Process
  BY <1>3, ProcessAllowed
<1>4. CASE Relaunch
  <2>1. FormView!Relaunch
    BY <1>4 DEF Relaunch, Form!Relaunch, Form!Restart, Form!Up, Form!NewScreens,
       Form!NothingValidating, FormView!Relaunch, FormView!Restart, FormView!Up,
       FormView!NewScreens, FormView!NothingValidating
  <2> QED
    BY <2>1 DEF BesideForm, FormView!SystemStep
<1>5. CASE UNCHANGED vars
  BY <1>5 DEF vars, storeVars, screenVars, formVars, FormView!vars, FormView!storeVars,
     FormView!screenVars, FormView!formVars
<1> QED
  BY <1>1, <1>2, <1>3, <1>4, <1>5 DEF Next

LEMMA FormSimulation == ShownToForm /\ [Next]_vars => [FormView!Next]_FormView!vars
  BY FormSteps DEF BesideForm, FormView!Next

\* The app does to the form and the store nothing that Registration does not
\* allow: every way the list has to change what both share is one of its steps.
THEOREM ImplementsForm == Spec => FormImplemented
<1>1. Init => FormView!Init
  BY DEF Init, Form!Init, Form!StoreInit, Form!ScreenInit, Form!IdleWorker, Form!NoGroup,
     Form!NothingValidating, FormView!Init, FormView!StoreInit, FormView!ScreenInit,
     FormView!IdleWorker, FormView!NoGroup, FormView!NothingValidating
<1> QED
  BY <1>1, FormSimulation, ShownAlways, PTL DEF Spec, FormImplemented, FormView!Spec

-----------------------------------------------------------------------------
(* What is proved of the form holds in the app.  As for the list, RastreioApp's *)
(* FormView and the form of FormFacts are two instances of one module.          *)

\* What RegistrationProofs proves of the form, about what it sees of the app.
FormFacts == INSTANCE RegistrationProofs WITH fresh <- {}, deletes <- {}

LEMMA FormAssumptionsHold ==
  /\ FormFacts!StoreAssumption
  /\ FormFacts!ScreenAssumption
  /\ FormFacts!FormAssumption
<1>1. FormFacts!ScreenAssumption
  BY ScreenAssumption DEF ScreenAssumption, FormFacts!ScreenAssumption
<1>2. FormFacts!StoreAssumption /\ FormFacts!FormAssumption
  BY DEF FormFacts!StoreAssumption, FormFacts!FormAssumption, Keywords, FormFacts!Keywords,
     ErrorWords, FormFacts!ErrorWords, DoneWords, FormFacts!DoneWords
<1> QED
  BY <1>1, <1>2

LEMMA SameFormSteps == FormView!FormStep <=> FormFacts!FormStep
  BY DEF FormView!FormStep, FormFacts!FormStep, FormView!EditTrackingNumber,
     FormFacts!EditTrackingNumber, FormView!EditDescription, FormFacts!EditDescription,
     FormView!SubmitRegistered, FormFacts!SubmitRegistered, FormView!SubmitUnfilled,
     FormFacts!SubmitUnfilled, FormView!SubmitValid, FormFacts!SubmitValid,
     FormView!NotRegistered, FormFacts!NotRegistered, FormView!Filled, FormFacts!Filled,
     FormView!Up, FormFacts!Up, FormView!Live, FormFacts!Live, FormView!storeVars,
     FormFacts!storeVars, FormView!screenVars, FormFacts!screenVars, FormView!formVars,
     FormFacts!formVars, FormView!Touchable, FormFacts!Touchable, FormView!Present,
     FormFacts!Present

LEMMA SameTouches == FormView!OtherTouch <=> FormFacts!OtherTouch
  BY DEF FormView!OtherTouch, FormFacts!OtherTouch, FormView!DismissAlert, FormFacts!DismissAlert,
     FormView!ShowList, FormFacts!ShowList, FormView!LeaveTab, FormFacts!LeaveTab,
     FormView!SwitchTab, FormFacts!SwitchTab, FormView!MenuAlert, FormFacts!MenuAlert,
     FormView!ShowDetail, FormFacts!ShowDetail, FormView!OtherAlert, FormFacts!OtherAlert,
     FormView!ListDeletes, FormFacts!ListDeletes, FormView!Ask, FormFacts!Ask,
     FormView!Without, FormFacts!Without, FormView!Ids, FormFacts!Ids, FormView!Up,
     FormFacts!Up, FormView!Live, FormFacts!Live, FormView!storeVars, FormFacts!storeVars,
     FormView!screenVars, FormFacts!screenVars, FormView!formVars, FormFacts!formVars,
     FormView!Touchable, FormFacts!Touchable, FormView!Present, FormFacts!Present

\* Registering a package, and the answers of the service.
LEMMA SameAnswers ==
  /\ \A code \in Texts : FormView!Success(code) <=> FormFacts!Success(code)
  /\ \A code \in Texts : FormView!Failure(code) <=> FormFacts!Failure(code)
  /\ FormView!SuccessFails <=> FormFacts!SuccessFails
<1>1. FormView!AddPackage(trackingNumber, description)
        <=> FormFacts!AddPackage(trackingNumber, description)
  BY DEF FormView!AddPackage, FormFacts!AddPackage, FormView!ManagerConflict,
     FormFacts!ManagerConflict, FormView!NewRow, FormFacts!NewRow, FormView!SavedRows,
     FormFacts!SavedRows, FormView!HalfDone, FormFacts!HalfDone, FormView!Ask,
     FormFacts!Ask, FormView!NoGroup, FormFacts!NoGroup, FormView!Up, FormFacts!Up,
     FormView!Live, FormFacts!Live
<1>2. \A code \in Texts : FormView!Success(code) <=> FormFacts!Success(code)
  BY <1>1 DEF FormView!Success, FormFacts!Success, FormView!AnswerTo, FormFacts!AnswerTo,
     FormView!Present, FormFacts!Present
<1>3. \A code \in Texts : FormView!Failure(code) <=> FormFacts!Failure(code)
  BY DEF FormView!Failure, FormFacts!Failure, FormView!AnswerTo, FormFacts!AnswerTo,
     FormView!Present, FormFacts!Present, FormView!Up, FormFacts!Up, FormView!storeVars,
     FormFacts!storeVars
<1>4. FormView!SuccessFails <=> FormFacts!SuccessFails
  BY DEF FormView!SuccessFails, FormFacts!SuccessFails, FormView!AddPackageFails,
     FormFacts!AddPackageFails, FormView!ManagerConflict, FormFacts!ManagerConflict,
     FormView!Die, FormFacts!Die, FormView!IdleWorker, FormFacts!IdleWorker,
     FormView!NoGroup, FormFacts!NoGroup, FormView!NewScreens, FormFacts!NewScreens,
     FormView!NothingValidating, FormFacts!NothingValidating, FormView!Up, FormFacts!Up,
     FormView!Live, FormFacts!Live
<1> QED
  BY <1>2, <1>3, <1>4

LEMMA SameQueue ==
  /\ FormView!QueueStep <=> FormFacts!QueueStep
  /\ FormView!QueueDeath <=> FormFacts!QueueDeath
  /\ FormView!UpdateReturns <=> FormFacts!UpdateReturns
  /\ FormView!Kill <=> FormFacts!Kill
<1>1. \A s : FormView!ImageOf(s) = FormFacts!ImageOf(s)
  <2>1. FormView!ErrorWords = FormFacts!ErrorWords /\ FormView!DoneWords = FormFacts!DoneWords
    BY DEF FormView!ErrorWords, FormFacts!ErrorWords, FormView!DoneWords, FormFacts!DoneWords
  <2> QED
    BY <2>1 DEF FormView!ImageOf, FormFacts!ImageOf
<1>2. \A r \in inflight, s \in Statuses, n \in 0..MaxEvents :
        FormView!Answered(r, s, n) <=> FormFacts!Answered(r, s, n)
  BY DEF FormView!Answered, FormFacts!Answered, FormView!Up, FormFacts!Up
<1>3. /\ FormView!SetStatus <=> FormFacts!SetStatus
      /\ FormView!BlankImage <=> FormFacts!BlankImage
  BY DEF FormView!SetStatus, FormFacts!SetStatus, FormView!BlankImage, FormFacts!BlankImage,
     FormView!Up, FormFacts!Up
<1>4. FormView!SaveUpdate <=> FormFacts!SaveUpdate
  BY <1>1 DEF FormView!SaveUpdate, FormFacts!SaveUpdate, FormView!Outdate, FormFacts!Outdate,
     FormView!Up,
     FormFacts!Up, FormView!Live, FormFacts!Live
<1>5. FormView!QueueStep <=> FormFacts!QueueStep
  BY <1>2, <1>3, <1>4 DEF FormView!QueueStep, FormFacts!QueueStep
<1>6. FormView!QueueDeath <=> FormFacts!QueueDeath
  BY DEF FormView!QueueDeath, FormFacts!QueueDeath, FormView!AnsweredWithError,
     FormFacts!AnsweredWithError, FormView!SaveUpdateFails, FormFacts!SaveUpdateFails,
     FormView!Die, FormFacts!Die, FormView!IdleWorker, FormFacts!IdleWorker,
     FormView!NoGroup, FormFacts!NoGroup, FormView!Up, FormFacts!Up, FormView!Live,
     FormFacts!Live
<1>7. FormView!UpdateReturns <=> FormFacts!UpdateReturns
  BY DEF FormView!UpdateReturns, FormFacts!UpdateReturns, FormView!IdleWorker, FormFacts!IdleWorker,
     FormView!NoGroup, FormFacts!NoGroup, FormView!Up, FormFacts!Up
<1>8. FormView!Kill <=> FormFacts!Kill
  BY DEF FormView!Kill, FormFacts!Kill, FormView!Die, FormFacts!Die, FormView!IdleWorker,
     FormFacts!IdleWorker, FormView!NoGroup, FormFacts!NoGroup, FormView!Up, FormFacts!Up
<1> QED
  BY <1>5, <1>6, <1>7, <1>8

LEMMA SameSystemSteps == FormView!SystemStep <=> FormFacts!SystemStep
<1>1. FormView!NewScreens <=> FormFacts!NewScreens
  BY DEF FormView!NewScreens, FormFacts!NewScreens, FormView!NothingValidating,
     FormFacts!NothingValidating
<1>2. FormView!ListDies <=> FormFacts!ListDies
  BY <1>1 DEF FormView!ListDies, FormFacts!ListDies, FormView!Die, FormFacts!Die,
     FormView!IdleWorker,
     FormFacts!IdleWorker, FormView!NoGroup, FormFacts!NoGroup, FormView!Up, FormFacts!Up
<1>3. FormView!StoreStep <=> FormFacts!StoreStep
  BY <1>1, SameQueue DEF FormView!StoreStep, FormFacts!StoreStep, FormView!ScreensFollow,
     FormFacts!ScreensFollow,
     FormView!screenVars, FormFacts!screenVars, FormView!formVars, FormFacts!formVars
<1>4. FormView!Relaunch <=> FormFacts!Relaunch
  BY <1>1 DEF FormView!Relaunch, FormFacts!Relaunch, FormView!Restart, FormFacts!Restart,
     FormView!Up,
     FormFacts!Up
<1> QED
  BY <1>2, <1>3, <1>4, SameAnswers DEF FormView!SystemStep, FormFacts!SystemStep

LEMMA IsAForm == Spec => FormFacts!Spec
<1>1. FormView!Init => FormFacts!Init
  BY DEF FormView!Init, FormFacts!Init, FormView!StoreInit, FormFacts!StoreInit,
     FormView!ScreenInit,
     FormFacts!ScreenInit, FormView!IdleWorker, FormFacts!IdleWorker, FormView!NoGroup,
     FormFacts!NoGroup, FormView!NothingValidating, FormFacts!NothingValidating
<1>2. [FormView!Next]_FormView!vars => [FormFacts!Next]_FormFacts!vars
  BY SameFormSteps, SameTouches, SameSystemSteps DEF FormView!Next, FormFacts!Next, FormView!vars,
     FormFacts!vars, FormView!storeVars,
     FormFacts!storeVars, FormView!screenVars, FormFacts!screenVars, FormView!formVars,
     FormFacts!formVars
<1> QED
  BY <1>1, <1>2, ImplementsForm, PTL DEF FormImplemented, FormView!Spec, FormFacts!Spec

\* Whatever the list deletes and refreshes meanwhile: the package that the
\* message on the screen announces is stored.
THEOREM SavedInApp == Spec => []FormView!SavedMeansStored
<1>1. FormFacts!Spec => []FormFacts!SavedMeansStored
  BY FormAssumptionsHold, FormFacts!SavedIsStored
<1>2. FormFacts!SavedMeansStored => FormView!SavedMeansStored
  BY DEF FormFacts!SavedMeansStored, FormView!SavedMeansStored, FormFacts!Live, FormView!Live
<1> QED
  BY <1>1, <1>2, IsAForm, PTL

-----------------------------------------------------------------------------
(* The whole app, used by somebody who waits for the answer on the Home tab   *)

\* The form is edited and submitted only while nothing is being validated; the
\* list may be used all the time.
FormWaits == Form!FormStep => validating = Form!NothingValidating

PatientApp == Init /\ [][Next /\ FormWaits]_vars

LEMMA PatientIsAnApp == PatientApp => Spec
<1>1. [Next /\ FormWaits]_vars => [Next]_vars
  OBVIOUS
<1> QED
  BY <1>1, PTL DEF PatientApp, Spec

LEMMA PatientSteps ==
  ASSUME ShownToForm, [Next /\ FormWaits]_vars
  PROVE  [FormFacts!PatientNext]_FormFacts!vars
<1>1. CASE [BesideForm]_FormView!vars
  BY <1>1, SameTouches, SameSystemSteps DEF BesideForm, FormFacts!PatientNext, FormView!vars,
     FormFacts!vars, FormView!storeVars, FormFacts!storeVars, FormView!screenVars,
     FormFacts!screenVars, FormView!formVars, FormFacts!formVars
<1>2. CASE Form!FormStep /\ FormView!FormStep
  <2>1. CASE Next /\ FormWaits
    BY <1>2, <2>1, SameFormSteps DEF FormWaits, FormFacts!PatientNext, Form!NothingValidating,
       FormFacts!NothingValidating
  <2>2. CASE UNCHANGED vars
    BY <2>2 DEF vars, storeVars, screenVars, formVars, FormFacts!vars, FormFacts!storeVars,
       FormFacts!screenVars, FormFacts!formVars
  <2> QED
    BY <2>1, <2>2
<1> QED
  BY <1>1, <1>2, FormSteps

\* In the whole app, who waits on the Home tab waits in the sense of
\* Registration: nothing the list does is a step of the form.
LEMMA WaitsInApp == PatientApp => FormFacts!PatientSpec
<1>1. Init => FormFacts!Init
  BY DEF Init, Form!Init, Form!StoreInit, Form!ScreenInit, Form!IdleWorker, Form!NoGroup,
     Form!NothingValidating, FormFacts!Init, FormFacts!StoreInit, FormFacts!ScreenInit,
     FormFacts!IdleWorker, FormFacts!NoGroup, FormFacts!NothingValidating
<1> QED
  BY <1>1, PatientSteps, ShownAlways, PatientIsAnApp, PTL DEF PatientApp, FormFacts!PatientSpec

\* The promise of the Home tab in the whole app, refreshes, filters, deletes and
\* deaths of the list included: only filled packages are stored, none twice.
THEOREM FilledOnceInApp == PatientApp => [](FormView!StoredFilled /\ FormView!StoredOnce)
<1>1. FormFacts!PatientSpec => []FormFacts!StoredFilled /\ []FormFacts!StoredOnce
  BY FormAssumptionsHold, FormFacts!PatientStoresFilled, FormFacts!PatientStoresOnce
<1>2. FormFacts!StoredFilled /\ FormFacts!StoredOnce => FormView!StoredFilled /\ FormView!StoredOnce
  BY DEF FormFacts!StoredFilled, FormFacts!StoredOnce, FormView!StoredFilled,
     FormView!StoredOnce, FormFacts!Live, FormView!Live
<1> QED
  BY <1>1, <1>2, WaitsInApp, PTL

\* And the app as a whole implements the abstract registry of packages.
THEOREM RegistryInApp == PatientApp => FormView!RegistryImplemented
<1>1. FormFacts!PatientSpec => FormFacts!RegistryImplemented
  BY FormAssumptionsHold, FormFacts!PatientImplementsRegistry
<1>2. FormFacts!Registry!Spec => FormView!Registry!Spec
  BY DEF FormFacts!Registry!Spec, FormView!Registry!Spec, FormFacts!Registry!Init,
     FormView!Registry!Init, FormFacts!Registry!Next, FormView!Registry!Next,
     FormFacts!Registry!Register, FormView!Registry!Register, FormFacts!Registry!Remove,
     FormView!Registry!Remove, FormFacts!Registry!Packages, FormView!Registry!Packages,
     FormFacts!Live, FormView!Live
<1>3. FormFacts!RegistryImplemented => FormView!RegistryImplemented
  BY <1>2 DEF FormFacts!RegistryImplemented, FormView!RegistryImplemented
<1> QED
  BY <1>1, <1>3, WaitsInApp
=============================================================================
