---------------------------- MODULE RastreioApp -----------------------------
(***************************************************************************)
(* The two tabs in one process: module Registration and module PackageList *)
(* share the store, the session's queue and the screen.  Each is written   *)
(* with a model of what the other one does to the shared state; here the   *)
(* real steps of both take the place of these models, and FormImplemented  *)
(* and ListImplemented say that the models allow whatever they do, so that *)
(* the safety properties of both modules hold in the whole app.            *)
(***************************************************************************)
EXTENDS PackageStore, Screen

CONSTANTS OfferedTemplates, TypedCodes, TypedNames, Spaced, Indented,
          MaxValidating

ASSUME AppAssumption ==
  /\ OfferedTemplates \subseteq Templates
  /\ TypedCodes \cup TypedNames \subseteq Texts
  /\ Spaced \subseteq Texts \ {Empty}
  /\ Indented \subseteq Spaced
  /\ MaxValidating \in Nat

VARIABLES
  coreData, shownFrom, eventArray, open, waiting, filterJob,  \* PackageList
  trackingNumber, description, validating                     \* Registration

\* The list is ready for any package the form may store.
HomePackages == Texts \X Texts

Form == INSTANCE Registration
List == INSTANCE PackageList

formVars == <<trackingNumber, description, validating>>
listVars == <<coreData, shownFrom, eventArray, open, waiting, filterJob>>
vars == <<storeVars, screenVars, listVars, formVars>>

Init == Form!Init /\ List!Init

\* A process that ends takes the state of the form with it.
FormFollows ==
  IF proc' = "up" THEN UNCHANGED formVars
  ELSE /\ trackingNumber' = Empty
       /\ description' = Empty
       /\ validating' = Form!NothingValidating

ListFollows ==
  IF proc' = "up" THEN UNCHANGED listVars ELSE List!NewScreens({})

\* Steps of the Home tab; a sheet of the list is not its to dismiss.
HomeTab ==
  /\ \/ Form!FormStep
     \/ alert # "filter" /\ Form!DismissAlert
     \/ Form!Answers
     \/ Form!SuccessFails
  /\ ListFollows

\* Steps of the Packages tab, of the tab bar and of the menu's late error.
WarningTab == List!ListStep /\ FormFollows

Process == List!StoreStep /\ FormFollows

Relaunch == Form!Relaunch /\ List!Relaunch

Next == HomeTab \/ WarningTab \/ Process \/ Relaunch

Spec == Init /\ [][Next]_vars

-----------------------------------------------------------------------------
\* What the Home tab cannot see: the other context's knowledge and marks.
FormView == INSTANCE Registration WITH fresh <- {}, deletes <- {}

\* The app does to the form and the store nothing that Registration does not
\* allow: in particular a swipe in the list, with all it does to the other
\* context, is a deletion of one package or nothing.
FormImplemented == FormView!Spec

\* The app does to the list nothing that PackageList does not allow: in
\* particular the form registers packages and covers the screen with alerts,
\* and touches neither array.
ListImplemented == List!Spec

\* PackageList's SameNumbers in the whole app: with packages that the real form
\* registers while two refreshes overlap, a row number still means the same
\* package in both arrays.
SameNumbers == List!SameNumbers

\* PackageList's GroupsBalanced in the whole app: validations of the form, which
\* belong to no group, leave none, and every other completion finds its group.
GroupsBalanced == List!GroupsBalanced

\* PackageList's TrapsOnlyUnrefreshed in the whole app: registering packages and
\* covering the list with the form's alerts adds no case in which a swipe is out
\* of range.
TrapsOnlyUnrefreshed == List!TrapsOnlyUnrefreshed
=============================================================================
