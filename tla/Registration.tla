---------------------------- MODULE Registration ----------------------------
(***************************************************************************)
(* The "Home" tab: TrackingViewController, its view model and the form of  *)
(* TrackingView.  Submitting checks the code against the store and the     *)
(* fields against emptiness, then asks the service whether the code        *)
(* exists.  The answer arrives on the main queue, whatever the user has    *)
(* done meanwhile: nothing blocks the form, and success() reads the fields *)
(* again before it stores the package.                                     *)
(***************************************************************************)
EXTENDS PackageStore, Screen

CONSTANTS
  TypedCodes,    \* texts the user types as a tracking number
  TypedNames,    \* texts the user types as a description
  Spaced,        \* texts with a space: refused as a tracking number
  Indented,      \* texts that begin with one: refused as a description too
  MaxValidating  \* bound: validation requests in flight for one code

ASSUME FormAssumption ==
  /\ TypedCodes \cup TypedNames \subseteq Texts
  /\ Spaced \subseteq Texts \ {Empty}
  /\ Indented \subseteq Spaced
  /\ MaxValidating \in Nat

VARIABLES
  trackingNumber,  \* text of trackingNumberTextField
  description,     \* text of descriptionTextField
  validating       \* for each code, its validation requests in flight

formVars == <<trackingNumber, description, validating>>
vars == <<storeVars, screenVars, formVars>>

FormTypeOK ==
  /\ trackingNumber \in Texts
  /\ description \in Texts
  /\ validating \in [Texts -> 0..MaxValidating]

TypeOK == StoreTypeOK /\ ScreenTypeOK /\ FormTypeOK

NothingValidating == [c \in Texts |-> 0]

Init ==
  /\ StoreInit
  /\ ScreenInit
  /\ trackingNumber = Empty
  /\ description = Empty
  /\ validating = NothingValidating

\* Mutant: only the tracking number is checked.
Filled_CodeOnly(code, name) == code \notin {Empty} \cup Spaced

\* checkTextFieldsAreNotEmpty
Filled(code, name) ==
  /\ code \notin {Empty} \cup Spaced
  /\ name \notin {Empty} \cup Indented

-----------------------------------------------------------------------------
(* The user *)

EditTrackingNumber(text) ==
  /\ Up
  /\ Touchable("home")
  /\ trackingNumber' = text
  /\ UNCHANGED <<storeVars, screenVars, description, validating>>

EditDescription(text) ==
  /\ Up
  /\ Touchable("home")
  /\ description' = text
  /\ UNCHANGED <<storeVars, screenVars, trackingNumber, validating>>

\* actionSubmitButton, the code is in the store: alreadyRegisteredMessage.
SubmitRegistered ==
  /\ Up
  /\ Touchable("home")
  /\ ~NotRegistered(trackingNumber)
  /\ Present("home", "registered")
  /\ UNCHANGED <<storeVars, tab, formVars>>

\* actionSubmitButton, a field is empty or spaced: dataMustBeFilledMessage.
SubmitUnfilled ==
  /\ Up
  /\ Touchable("home")
  /\ NotRegistered(trackingNumber)
  /\ ~Filled(trackingNumber, description)
  /\ Present("home", "fill")
  /\ UNCHANGED <<storeVars, tab, formVars>>

\* actionSubmitButton, fetchHistory: the service is asked about the code.  For
\* a code that makes no URL it returns and its completion is never called.
SubmitValid ==
  /\ Up
  /\ Touchable("home")
  /\ NotRegistered(trackingNumber)
  /\ Filled(trackingNumber, description)
  /\ validating[trackingNumber] < MaxValidating
  /\ validating' = IF trackingNumber \in Malformed THEN validating
                   ELSE [validating EXCEPT ![trackingNumber] = @ + 1]
  /\ UNCHANGED <<storeVars, screenVars, trackingNumber, description>>

DismissAlert ==
  /\ Up
  /\ alert # "none"
  /\ alert' = "none"
  /\ UNCHANGED <<storeVars, tab, formVars>>

-----------------------------------------------------------------------------
(* The other tabs, as far as they touch what is shared (module PackageList    *)
(* models the list; module RastreioApp shows that it does nothing else here)  *)

\* Showing the list asks for the status of every package.
ShowList ==
  /\ Up
  /\ Touchable("home") \/ Touchable("detail") \/ Touchable("menu")
  /\ tab' = "warning"
  /\ \E g \in Groups :
       inflight' = inflight \cup Ask([id \in Live |-> rows[id].code], g)
  /\ UNCHANGED <<rows, lastId, fresh, deletes, worker, proc, alert, formVars>>

LeaveTab == Up /\ SwitchTab /\ UNCHANGED <<storeVars, formVars>>

ShowDetail ==
  /\ Up
  /\ Touchable("warning")
  /\ tab' = "detail"
  /\ UNCHANGED <<storeVars, alert, formVars>>

\* The filter sheet, the alert of a failed request of the detail screen, or
\* the menu's error, which may come up over this tab.
OtherAlert ==
  /\ Up
  /\ \/ Touchable("warning") /\ alert' = "filter" /\ UNCHANGED tab
     \/ Touchable("detail") /\ alert' = "wrong" /\ UNCHANGED tab
     \/ MenuAlert
  /\ UNCHANGED <<storeVars, formVars>>

\* A package is deleted; what the AppDelegate's context knows and has marked
\* does not concern this tab.
ListDeletes(id) ==
  /\ Up
  /\ Touchable("warning")
  /\ id \in Live
  /\ rows' = Without({id})
  /\ UNCHANGED <<lastId, fresh, deletes, inflight, worker, proc, screenVars, formVars>>

-----------------------------------------------------------------------------
(* The service answers a validation request, on the main queue *)

\* Mutants: the completion runs once too often; it runs again and again.
AnswerTo_Unasked(code) == validating' = [validating EXCEPT ![code] = @ - 1]
AnswerTo_Again(code) == validating[code] > 0 /\ validating' = validating

\* The completion handler of fetchHistory runs once.
AnswerTo(code) ==
  /\ validating[code] > 0
  /\ validating' = [validating EXCEPT ![code] = @ - 1]

\* success: what the fields hold NOW is stored, and the fields are cleared.
Success(code) ==
  /\ AnswerTo(code)
  /\ AddPackage(trackingNumber, description)
  /\ Present("home", "saved")
  /\ trackingNumber' = Empty
  /\ description' = Empty
  /\ UNCHANGED tab

\* Mutants: failure shows nothing; it shows the message of success.
Failure_Silent(code) ==
  /\ Up
  /\ AnswerTo(code)
  /\ UNCHANGED <<storeVars, screenVars, trackingNumber, description>>

Failure_Saved(code) ==
  /\ Up
  /\ AnswerTo(code)
  /\ Present("home", "saved")
  /\ UNCHANGED <<storeVars, tab, trackingNumber, description>>

\* failure: wrongCodeMessage; the fields stay.
Failure(code) ==
  /\ Up
  /\ AnswerTo(code)
  /\ Present("home", "wrong")
  /\ UNCHANGED <<storeVars, tab, trackingNumber, description>>

-----------------------------------------------------------------------------
(* The rest of the process *)

NewScreens ==
  /\ tab' = "home"
  /\ alert' = "none"
  /\ trackingNumber' = Empty
  /\ description' = Empty
  /\ validating' = NothingValidating

\* The form dies with the process and outlives every other step of the store.
ScreensFollow ==
  IF proc' = "up" THEN UNCHANGED <<screenVars, formVars>> ELSE NewScreens

\* success() at which a save is rejected, its own or that of a running update.
SuccessFails ==
  /\ validating # NothingValidating
  /\ AddPackageFails
  /\ NewScreens

\* The list, or the save on entering the background, ends the process.
ListDies == Up /\ (Die("outOfRange") \/ Die("unresolved")) /\ NewScreens

StoreStep ==
  /\ QueueStep \/ QueueDeath \/ UpdateReturns \/ Kill
  /\ ScreensFollow

Relaunch == Restart /\ NewScreens

FormStep ==
  \/ \E text \in TypedCodes : EditTrackingNumber(text)
  \/ \E text \in TypedNames : EditDescription(text)
  \/ SubmitRegistered \/ SubmitUnfilled \/ SubmitValid

OtherTouch ==
  \/ DismissAlert
  \/ ShowList \/ LeaveTab \/ ShowDetail \/ OtherAlert
  \/ \E id \in Ids : ListDeletes(id)

SystemStep ==
  \/ \E code \in Texts : Success(code) \/ Failure(code)
  \/ SuccessFails
  \/ ListDies
  \/ StoreStep
  \/ Relaunch

Next == FormStep \/ OtherTouch \/ SystemStep

Spec == Init /\ [][Next]_vars

\* A user who waits: leaves the form alone between a valid submission and its
\* answer.  The code does not make the user wait; what it promises to one who
\* does is stated apart from what it promises to everybody.
PatientNext ==
  (validating = NothingValidating /\ FormStep) \/ OtherTouch \/ SystemStep

PatientSpec == Init /\ [][PatientNext]_vars

\* The URL session ends every request: an answer, an error or its time-out.
Answers == \E code \in Texts : Success(code) \/ Failure(code)

FairPatientSpec == PatientSpec /\ WF_vars(Answers \/ SuccessFails)

-----------------------------------------------------------------------------
(* Properties *)

\* dataMustBeFilledMessage (RastreioBF.strings:62): only packages whose fields
\* are filled in are stored.
StoredFilled ==
  \A id \in Live :
    /\ rows[id].code \notin {Empty} \cup Spaced
    /\ rows[id].name \notin {Empty} \cup Indented

\* alreadyRegisteredMessage (RastreioBF.strings:63): no code is stored twice.
StoredOnce ==
  \A i, j \in Live : i # j => rows[i].code # rows[j].code

\* The answer of a validation is for the text that is in the field when it
\* arrives, for a code that is not in the store, and it is the only one.
AnswerFitsForm ==
  \A code \in Texts : validating[code] > 0 =>
    /\ code = trackingNumber
    /\ Filled(code, description)
    /\ NotRegistered(code)
    /\ validating = [NothingValidating EXCEPT ![code] = 1]

\* To a user who waits the form is a registry of filled packages with unique
\* codes, whatever the updates and the list do to the rows.
Registry == INSTANCE PackageRegistry
              WITH registered <- {[code |-> rows[id].code, name |-> rows[id].name] : id \in Live}

RegistryImplemented == Registry!Spec

\* While dataSavedMessage is on screen, the package it announces is stored.
SavedMeansStored == alert = "saved" => lastId \in Live

\* To a user who waits on the Home tab every answer is announced: no alert of
\* the form, the list or the detail screen is in its way.  Only the refusal of a
\* removal asked for in the menu can be, and then the answer is lost under it.
AnswersAnnounced ==
  [][\A code \in Texts :
       validating'[code] < validating[code] /\ Up /\ Up' /\ tab = "home"
         => \/ alert = "none"  /\ alert' \in {"saved", "wrong"}
            \/ alert = "error" /\ alert' = "error"]_vars

\* To a user who waits every validation ends, for a full store too.
ValidationEnds ==
  validating # NothingValidating ~> validating = NothingValidating
=============================================================================
