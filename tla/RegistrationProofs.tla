------------------------- MODULE RegistrationProofs -------------------------
(***************************************************************************)
(* Theorems about the Home tab.                                            *)
(*                                                                         *)
(* For every user: types, and the truth of the "saved" message.  For a     *)
(* user who waits for the answer: filled packages with unique codes.  The  *)
(* argument for the latter is AnswerFitsForm: while a request is on its    *)
(* way it is the only one, it asks about the text that is in the field,    *)
(* and that code is not in the store; so when success() reads the fields   *)
(* again it reads what was checked.                                        *)
(***************************************************************************)
EXTENDS Registration, PackageStoreProofs

USE StoreAssumption, FormAssumption, ScreenAssumption

\* The tab knows nothing of the other context.
NoOtherContext == fresh = {} /\ deletes = {}

FormInv == StoreInv /\ ScreenTypeOK /\ FormTypeOK /\ NoOtherContext

LEMMA FormInvInit == Init => FormInv
  BY StoreInitInv DEF Init, FormInv, StoreInit, ScreenInit, ScreenTypeOK, FormTypeOK,
     NoOtherContext, NothingValidating, Tabs, Alerts

LEMMA NewScreensType ==
  ASSUME NewScreens
  PROVE  (ScreenTypeOK /\ FormTypeOK)'
  BY DEF NewScreens, ScreenTypeOK, FormTypeOK, NothingValidating, Tabs, Alerts

LEMMA ScreensFollowType ==
  ASSUME ScreenTypeOK, FormTypeOK, ScreensFollow
  PROVE  (ScreenTypeOK /\ FormTypeOK)'
  BY NewScreensType DEF ScreensFollow, screenVars, formVars, ScreenTypeOK, FormTypeOK

\* The steps that leave the store alone.
LEMMA StoreUntouched ==
  ASSUME StoreInv, NoOtherContext, UNCHANGED storeVars
  PROVE  (StoreInv /\ NoOtherContext)'
  BY DEF storeVars, StoreInv, RowsTypeOK, WorkerInv, InflightInv, Live, NoOtherContext

\* Answering one of the requests in flight.
LEMMA AnswerToType ==
  ASSUME FormTypeOK, NEW code \in Texts, AnswerTo(code)
  PROVE  validating' \in [Texts -> 0..MaxValidating]
  BY DEF FormTypeOK, AnswerTo

LEMMA FormStepInv ==
  ASSUME FormInv, FormStep
  PROVE  FormInv'
<1>1. CASE \E text \in TypedCodes : EditTrackingNumber(text)
  BY <1>1, StoreUntouched DEF EditTrackingNumber, FormInv, ScreenTypeOK, FormTypeOK, screenVars
<1>2. CASE \E text \in TypedNames : EditDescription(text)
  BY <1>2, StoreUntouched DEF EditDescription, FormInv, ScreenTypeOK, FormTypeOK, screenVars
<1>3. CASE SubmitRegistered \/ SubmitUnfilled
  BY <1>3, StoreUntouched DEF SubmitRegistered, SubmitUnfilled, Present, FormInv, ScreenTypeOK,
     FormTypeOK, formVars, Alerts
<1>4. CASE SubmitValid
  <2>1. validating' \in [Texts -> 0..MaxValidating]
    BY <1>4 DEF SubmitValid, FormInv, FormTypeOK
  <2> QED
    BY <1>4, <2>1, StoreUntouched DEF SubmitValid, FormInv, ScreenTypeOK, FormTypeOK, screenVars
<1> QED
  BY <1>1, <1>2, <1>3, <1>4 DEF FormStep

LEMMA OtherTouchInv ==
  ASSUME FormInv, OtherTouch
  PROVE  FormInv'
<1>1. CASE DismissAlert \/ LeaveTab \/ ShowDetail \/ OtherAlert
  <2>1. UNCHANGED storeVars /\ UNCHANGED formVars
    BY <1>1 DEF DismissAlert, LeaveTab, ShowDetail, OtherAlert
  <2>2. ScreenTypeOK'
    BY <1>1 DEF DismissAlert, LeaveTab, SwitchTab, ShowDetail, OtherAlert, MenuAlert, Present,
       FormInv,
       ScreenTypeOK, Tabs, Alerts
  <2> QED
    BY <2>1, <2>2, StoreUntouched DEF FormInv, FormTypeOK, formVars
<1>2. CASE ShowList
  <2>1. PICK g \in Groups :
          inflight' = inflight \cup Ask([id \in Live |-> rows[id].code], g)
    BY <1>2 DEF ShowList
  <2>2. StoreInv'
    BY <1>2, <2>1, AskAllInv DEF ShowList, FormInv
  <2> QED
    BY <1>2, <2>2 DEF ShowList, FormInv, ScreenTypeOK, FormTypeOK, formVars, NoOtherContext, Tabs
<1>3. CASE \E id \in Ids : ListDeletes(id)
  <2>1. PICK id \in Ids : ListDeletes(id)
    BY <1>3
  <2>2. StoreInv'
    BY <2>1, RemoveRowsInv DEF ListDeletes, FormInv, NoOtherContext
  <2> QED
    BY <2>1, <2>2 DEF ListDeletes, FormInv, ScreenTypeOK, FormTypeOK, screenVars, formVars,
       NoOtherContext
<1> QED
  BY <1>1, <1>2, <1>3 DEF OtherTouch

LEMMA SystemStepInv ==
  ASSUME FormInv, SystemStep
  PROVE  FormInv'
<1>1. CASE \E code \in Texts : Success(code)
  <2>1. PICK code \in Texts : Success(code)
    BY <1>1
  <2>2. StoreInv'
    BY <2>1, AddPackageInv DEF Success, FormInv, FormTypeOK
  <2>3. validating' \in [Texts -> 0..MaxValidating]
    BY <2>1, AnswerToType DEF Success, FormInv
  <2> QED
    BY <2>1, <2>2, <2>3 DEF Success, Present, AddPackage, FormInv, ScreenTypeOK, FormTypeOK,
       NoOtherContext, Alerts
<1>2. CASE \E code \in Texts : Failure(code)
  <2>1. PICK code \in Texts : Failure(code)
    BY <1>2
  <2>2. validating' \in [Texts -> 0..MaxValidating]
    BY <2>1, AnswerToType DEF Failure, FormInv
  <2> QED
    BY <2>1, <2>2, StoreUntouched DEF Failure, Present, FormInv, ScreenTypeOK, FormTypeOK, Alerts
<1>3. CASE SuccessFails \/ ListDies
  <2>1. \E why \in Deaths : Die(why)
    BY <1>3 DEF SuccessFails, AddPackageFails, ListDies, Deaths
  <2> QED
    BY <1>3, <2>1, DieInv, NewScreensType DEF SuccessFails, ListDies, FormInv, Die, NoOtherContext
<1>4. CASE StoreStep
  <2>1. StoreInv'
    BY <1>4, QueueInv, UpdateReturnsInv, DieInv DEF StoreStep, FormInv, Kill, Deaths
  <2>2. NoOtherContext'
    BY <1>4 DEF StoreStep, QueueStep, QueueDeath, Kill, Die, UpdateReturns, Answered, SetStatus,
       BlankImage,
       SaveUpdate, Outdate, AnsweredWithError, SaveUpdateFails, FormInv, NoOtherContext
  <2> QED
    BY <1>4, <2>1, <2>2, ScreensFollowType DEF StoreStep, FormInv
<1>5. CASE Relaunch
  BY <1>5, RestartInv, NewScreensType DEF Relaunch, Restart, FormInv, NoOtherContext
<1> QED
  BY <1>1, <1>2, <1>3, <1>4, <1>5 DEF SystemStep

LEMMA FormInvNext == FormInv /\ [Next]_vars => FormInv'
<1> SUFFICES ASSUME FormInv, [Next]_vars PROVE FormInv'
  OBVIOUS
<1>1. CASE UNCHANGED vars
  BY <1>1, StoreUntouched DEF vars, FormInv, ScreenTypeOK, FormTypeOK, screenVars, formVars
<1> QED
  BY <1>1, FormStepInv, OtherTouchInv, SystemStepInv DEF Next

\* The types of the form, the screen and the store, for every user.
THEOREM TypeCorrect == Spec => []TypeOK
<1>1. FormInv => TypeOK
  BY DEF FormInv, StoreInv, NoOtherContext, StoreTypeOK, TypeOK
<1> QED
  BY <1>1, FormInvInit, FormInvNext, PTL DEF Spec

-----------------------------------------------------------------------------
(* The user who waits *)

PatientInv == FormInv /\ StoredFilled /\ StoredOnce /\ AnswerFitsForm

LEMMA PatientStepIsStep == PatientNext => Next
  BY DEF PatientNext, Next

\* Steps that leave codes, names, fields and requests alone, or take packages away.
LEMMA FewerPackages ==
  ASSUME PatientInv,
         Live' \subseteq Live,
         \A id \in Live' : rows'[id].code = rows[id].code /\ rows'[id].name = rows[id].name,
         UNCHANGED formVars
  PROVE  (StoredFilled /\ StoredOnce /\ AnswerFitsForm)'
<1>1. StoredFilled' /\ StoredOnce'
  BY DEF PatientInv, StoredFilled, StoredOnce
<1>2. \A code : NotRegistered(code) => NotRegistered(code)'
  BY DEF NotRegistered
<1>3. AnswerFitsForm'
  BY <1>2 DEF PatientInv, AnswerFitsForm, formVars, Filled, NothingValidating
<1> QED
  BY <1>1, <1>3

\* The process has ended, or started again: nothing is on its way.
LEMMA NewProcess ==
  ASSUME PatientInv, UNCHANGED rows, NewScreens
  PROVE  (StoredFilled /\ StoredOnce /\ AnswerFitsForm)'
<1>1. StoredFilled' /\ StoredOnce'
  BY DEF PatientInv, StoredFilled, StoredOnce, Live
<1>2. AnswerFitsForm'
  BY DEF NewScreens, AnswerFitsForm, NothingValidating
<1> QED
  BY <1>1, <1>2

\* Editing and submitting, while nothing is on its way.
LEMMA PatientForm ==
  ASSUME PatientInv, validating = NothingValidating, FormStep
  PROVE  (StoredFilled /\ StoredOnce /\ AnswerFitsForm)'
<1>1. UNCHANGED rows
  BY DEF FormStep, EditTrackingNumber, EditDescription, SubmitRegistered, SubmitUnfilled,
     SubmitValid, storeVars
<1>2. StoredFilled' /\ StoredOnce'
  BY <1>1 DEF PatientInv, StoredFilled, StoredOnce, Live
<1>3. CASE SubmitValid
  <2>1. /\ UNCHANGED <<trackingNumber, description>>
        /\ Filled(trackingNumber, description) /\ NotRegistered(trackingNumber)
        /\ trackingNumber \in Texts
    BY <1>3 DEF SubmitValid, PatientInv, FormInv, FormTypeOK
  <2>2. \/ validating' = NothingValidating
        \/ validating' = [NothingValidating EXCEPT ![trackingNumber] = 1]
    BY <1>3, <2>1 DEF SubmitValid, NothingValidating
  <2>3. NotRegistered(trackingNumber)'
    BY <1>1, <2>1 DEF NotRegistered, Live
  <2> QED
    BY <1>2, <2>1, <2>2, <2>3 DEF AnswerFitsForm, NothingValidating, Filled
<1>4. CASE ~SubmitValid
  <2>1. validating' = NothingValidating
    BY <1>4 DEF FormStep, EditTrackingNumber, EditDescription, SubmitRegistered, SubmitUnfilled,
       formVars
  <2> QED
    BY <1>2, <2>1 DEF AnswerFitsForm, NothingValidating
<1> QED
  BY <1>3, <1>4

\* The answer: what success() reads is what was checked.
LEMMA PatientSuccess ==
  ASSUME PatientInv, NEW code \in Texts, Success(code)
  PROVE  (StoredFilled /\ StoredOnce /\ AnswerFitsForm)'
<1> DEFINE new == lastId + 1
<1>1. /\ code = trackingNumber
      /\ Filled(code, description)
      /\ NotRegistered(code)
      /\ validating = [NothingValidating EXCEPT ![code] = 1]
  BY DEF Success, AnswerTo, PatientInv, FormInv, FormTypeOK, AnswerFitsForm
<1>2. /\ SavedRows \in [Live -> Row]
      /\ \A id \in Live : /\ SavedRows[id].code = rows[id].code
                          /\ SavedRows[id].name = rows[id].name
  BY SavedRowsType DEF Success, AddPackage, PatientInv, FormInv
<1>3. /\ Live' = Live \cup {new}
      /\ new \notin Live
      /\ \A id \in Live : rows'[id].code = rows[id].code /\ rows'[id].name = rows[id].name
      /\ rows'[new].code = code /\ rows'[new].name = description
  BY <1>1, <1>2 DEF Success, AddPackage, NewRow, Live, PatientInv, FormInv, StoreInv, RowsTypeOK
<1>4. StoredFilled'
  BY <1>1, <1>3 DEF PatientInv, StoredFilled, Filled
<1>5. StoredOnce'
  BY <1>1, <1>3 DEF PatientInv, StoredOnce, NotRegistered
<1>6. validating' = NothingValidating
  BY <1>1 DEF Success, AnswerTo, NothingValidating
<1>7. AnswerFitsForm'
  BY <1>6 DEF AnswerFitsForm, NothingValidating
<1> QED
  BY <1>4, <1>5, <1>7

LEMMA PatientFailure ==
  ASSUME PatientInv, NEW code \in Texts, Failure(code)
  PROVE  (StoredFilled /\ StoredOnce /\ AnswerFitsForm)'
<1>1. UNCHANGED rows
  BY DEF Failure, storeVars
<1>2. validating = [NothingValidating EXCEPT ![code] = 1]
  BY DEF Failure, AnswerTo, PatientInv, FormInv, FormTypeOK, AnswerFitsForm
<1>3. validating' = NothingValidating
  BY <1>2 DEF Failure, AnswerTo, NothingValidating
<1>4. AnswerFitsForm'
  BY <1>3 DEF AnswerFitsForm, NothingValidating
<1> QED
  BY <1>1, <1>4 DEF PatientInv, StoredFilled, StoredOnce, Live

LEMMA PatientInvNext == PatientInv /\ [PatientNext]_vars => PatientInv'
<1> SUFFICES ASSUME PatientInv, [PatientNext]_vars
             PROVE  (StoredFilled /\ StoredOnce /\ AnswerFitsForm)'
  BY FormInvNext, PatientStepIsStep DEF PatientInv
<1>1. CASE UNCHANGED vars
  BY <1>1, FewerPackages DEF vars, storeVars, Live
<1>2. CASE validating = NothingValidating /\ FormStep
  BY <1>2, PatientForm
<1>3. CASE OtherTouch
  <2>1. CASE DismissAlert \/ ShowList \/ LeaveTab \/ ShowDetail \/ OtherAlert
    BY <2>1, FewerPackages DEF DismissAlert, ShowList, LeaveTab, ShowDetail, OtherAlert,
       storeVars, Live
  <2>2. CASE \E id \in Ids : ListDeletes(id)
    BY <2>2, FewerPackages DEF ListDeletes, Without, Live
  <2> QED
    BY <1>3, <2>1, <2>2 DEF OtherTouch
<1>4. CASE \E code \in Texts : Success(code) \/ Failure(code)
  BY <1>4, PatientSuccess, PatientFailure
<1>5. CASE SuccessFails \/ ListDies \/ Relaunch
  BY <1>5, NewProcess DEF SuccessFails, AddPackageFails, ListDies, Die, Relaunch, Restart
<1>6. CASE StoreStep
  <2>1. /\ Live' = Live
        /\ \A id \in Live : rows'[id].code = rows[id].code /\ rows'[id].name = rows[id].name
    BY <1>6, QueueKeepsIdentity DEF StoreStep, PatientInv, FormInv
  <2>2. CASE UNCHANGED formVars
    BY <2>1, <2>2, FewerPackages
  <2>3. CASE ~Up'
    <3>1. NewScreens
      BY <1>6, <2>3 DEF StoreStep, ScreensFollow, Up
    <3>2. UNCHANGED rows
      BY <1>6, <2>3 DEF StoreStep, QueueStep, QueueDeath, Kill, Die, UpdateReturns, Answered,
         SetStatus, BlankImage, SaveUpdate, AnsweredWithError, SaveUpdateFails, Up
    <3> QED
      BY <3>1, <3>2, NewProcess
  <2> QED
    BY <1>6, <2>2, <2>3 DEF StoreStep, ScreensFollow, Up
<1> QED
  BY <1>1, <1>2, <1>3, <1>4, <1>5, <1>6 DEF PatientNext, SystemStep

LEMMA PatientInvInit == Init => PatientInv
<1> SUFFICES ASSUME Init PROVE StoredFilled /\ StoredOnce /\ AnswerFitsForm
  BY FormInvInit DEF PatientInv
<1> QED
  BY DEF Init, StoreInit, Live, StoredFilled, StoredOnce, AnswerFitsForm, NothingValidating

\* No package with an empty or spaced field is stored for a user who waits.
THEOREM PatientStoresFilled == PatientSpec => []StoredFilled
<1>1. PatientInv => StoredFilled
  BY DEF PatientInv
<1> QED
  BY <1>1, PatientInvInit, PatientInvNext, PTL DEF PatientSpec

\* No code is stored twice for a user who waits, whatever the updates, the list,
\* deaths of the process and rejected saves do in between.
THEOREM PatientStoresOnce == PatientSpec => []StoredOnce
<1>1. PatientInv => StoredOnce
  BY DEF PatientInv
<1> QED
  BY <1>1, PatientInvInit, PatientInvNext, PTL DEF PatientSpec

\* The invariant both rest on.
THEOREM PatientAnswersFit == PatientSpec => []AnswerFitsForm
<1>1. PatientInv => AnswerFitsForm
  BY DEF PatientInv
<1> QED
  BY <1>1, PatientInvInit, PatientInvNext, PTL DEF PatientSpec

-----------------------------------------------------------------------------
(* The registry a waiting user sees: every step of the detailed              *)
(* specification registers a package, removes one, or changes nothing.        *)

Registered == {[code |-> rows[id].code, name |-> rows[id].name] : id \in Live}

\* No code or name changes and no package comes or goes: a stutter.
LEMMA SameRegistered ==
  ASSUME Live' = Live,
         \A id \in Live : rows'[id].code = rows[id].code /\ rows'[id].name = rows[id].name
  PROVE  Registered' = Registered
  BY DEF Registered

\* A package with a code of its own goes: Remove.
LEMMA DeleteRemoves ==
  ASSUME PatientInv, NEW id \in Ids, ListDeletes(id)
  PROVE  \E package \in Registered : Registered' = Registered \ {package}
<1> DEFINE Of(i) == [code |-> rows[i].code, name |-> rows[i].name]
<1>1. id \in Live /\ Live' = Live \ {id} /\ \A i \in Live' : rows'[i] = rows[i]
  BY WithoutRows DEF ListDeletes
<1>2. \A i \in Live \ {id} : Of(i) # Of(id)
  <2>1. \A i \in Live \ {id} : rows[i].code # rows[id].code
    BY <1>1 DEF PatientInv, StoredOnce
  <2> QED
    BY <2>1
<1>3. Registered' = {Of(i) : i \in Live \ {id}}
  BY <1>1 DEF Registered
<1>4. Registered = {Of(i) : i \in Live} /\ Of(id) \in Registered
  BY <1>1 DEF Registered
<1>5. {Of(i) : i \in Live \ {id}} = {Of(i) : i \in Live} \ {Of(id)}
  BY <1>1, <1>2
<1> QED
  BY <1>3, <1>4, <1>5

\* The package of an answer is stored: Register.
LEMMA SuccessRegisters ==
  ASSUME PatientInv, NEW code \in Texts, Success(code)
  PROVE  \E package \in Registry!Packages :
           /\ \A other \in Registered : other.code # package.code
           /\ Registered' = Registered \cup {package}
<1> DEFINE package == [code |-> code, name |-> description]
<1>1. /\ code = trackingNumber
      /\ Filled(code, description)
      /\ NotRegistered(code)
      /\ description \in Texts
  BY DEF Success, AnswerTo, PatientInv, FormInv, FormTypeOK, AnswerFitsForm
<1>2. AddPackage(code, description) /\ StoreInv
  BY <1>1 DEF Success, PatientInv, FormInv
<1>3. /\ Live' = Live \cup {lastId'}
      /\ lastId' \notin Live
      /\ rows'[lastId'] = NewRow(code, description)
      /\ \A id \in Live : rows'[id].code = rows[id].code /\ rows'[id].name = rows[id].name
  BY <1>2, AddPackageRows
<1>4. package \in Registry!Packages
  BY <1>1 DEF Registry!Packages, Filled
<1>5. \A other \in Registered : other.code # package.code
  BY <1>1 DEF Registered, NotRegistered
<1>6. Registered' = Registered \cup {package}
  BY <1>3 DEF Registered, NewRow
<1> QED
  BY <1>4, <1>5, <1>6

LEMMA RegistryStep ==
  ASSUME PatientInv, [PatientNext]_vars
  PROVE  [Registry!Next]_Registered
<1> DEFINE Same == /\ Live' = Live
                   /\ \A id \in Live :
                        rows'[id].code = rows[id].code /\ rows'[id].name = rows[id].name
<1>1. CASE UNCHANGED rows
  <2>1. Same
    BY <1>1 DEF Live
  <2> QED
    BY <2>1, SameRegistered
<1>2. CASE StoreStep
  <2>1. Same
    BY <1>2, QueueKeepsIdentity DEF StoreStep, PatientInv, FormInv
  <2> QED
    BY <2>1, SameRegistered
<1>3. CASE \E id \in Ids : ListDeletes(id)
  <2>1. \E package \in Registered : Registered' = Registered \ {package}
    BY <1>3, DeleteRemoves
  <2>2. Registry!Next
    BY <2>1 DEF Registry!Next, Registry!Remove, Registered
  <2> QED
    BY <2>2
<1>4. CASE \E code \in Texts : Success(code)
  <2>1. \E package \in Registry!Packages :
           /\ \A other \in Registered : other.code # package.code
           /\ Registered' = Registered \cup {package}
    BY <1>4, SuccessRegisters
  <2>2. Registry!Next
    BY <2>1 DEF Registry!Next, Registry!Register, Registered
  <2> QED
    BY <2>2
<1>5. CASE FormStep \/ UNCHANGED vars
  BY <1>1, <1>5 DEF FormStep, EditTrackingNumber, EditDescription, SubmitRegistered, SubmitUnfilled,
     SubmitValid, storeVars, vars
<1>6. CASE OtherTouch /\ ~\E id \in Ids : ListDeletes(id)
  BY <1>1, <1>6 DEF OtherTouch, DismissAlert, ShowList, LeaveTab, ShowDetail, OtherAlert, storeVars
<1>7. CASE (\E code \in Texts : Failure(code)) \/ SuccessFails \/ ListDies \/ Relaunch
  BY <1>1, <1>7 DEF Failure, SuccessFails, AddPackageFails, ListDies, Die, Relaunch, Restart,
     storeVars
<1> QED
  BY <1>2, <1>3, <1>4, <1>5, <1>6, <1>7 DEF PatientNext, SystemStep

\* To a user who waits, the Home tab with everything that runs beside it
\* implements the registry of filled packages with unique codes.
THEOREM PatientImplementsRegistry == PatientSpec => RegistryImplemented
<1>1. Init => Registry!Init
  BY DEF Init, StoreInit, Live, Registry!Init
<1>2. PatientInv /\ [PatientNext]_vars =>
        [Registry!Next]_{[code |-> rows[id].code, name |-> rows[id].name] : id \in Live}
  BY RegistryStep DEF Registered
<1> QED
  BY <1>1, <1>2, PatientInvInit, PatientInvNext, PTL
     DEF PatientSpec, RegistryImplemented, Registry!Spec

-----------------------------------------------------------------------------
(* The message of success *)

SavedInv == FormInv /\ SavedMeansStored

LEMMA SavedInvNext == SavedInv /\ [Next]_vars => SavedInv'
<1> SUFFICES ASSUME SavedInv, [Next]_vars PROVE SavedMeansStored'
  BY FormInvNext DEF SavedInv
<1>1. CASE UNCHANGED <<rows, lastId, alert>>
  BY <1>1 DEF SavedInv, SavedMeansStored, Live
<1>2. CASE alert' # "saved"
  BY <1>2 DEF SavedMeansStored
<1>3. CASE UNCHANGED <<Live, lastId, alert>>
  BY <1>3 DEF SavedInv, SavedMeansStored
<1>4. CASE \E code \in Texts : Success(code)
  BY <1>4, AddPackageRows DEF Success, SavedInv, FormInv, SavedMeansStored
<1>5. CASE StoreStep
  <2>1. Live' = Live
    BY <1>5, QueueKeepsIdentity DEF StoreStep, SavedInv, FormInv
  <2>2. CASE proc' = "up"
    <3>1. UNCHANGED <<lastId, alert>>
      BY <1>5, <2>2 DEF StoreStep, ScreensFollow, screenVars, QueueStep, QueueDeath, Kill, Die,
         UpdateReturns, Answered, SetStatus, BlankImage, SaveUpdate, AnsweredWithError,
         SaveUpdateFails
    <3> QED
      BY <1>3, <2>1, <3>1
  <2>3. CASE proc' # "up"
    BY <1>2, <1>5, <2>3 DEF StoreStep, ScreensFollow, NewScreens
  <2> QED
    BY <2>2, <2>3
<1>6. CASE FormStep
  BY <1>1, <1>2, <1>6 DEF FormStep, EditTrackingNumber, EditDescription, SubmitRegistered,
     SubmitUnfilled, SubmitValid, Present, Touchable, storeVars, screenVars
<1>7. CASE OtherTouch
  BY <1>1, <1>2, <1>7 DEF OtherTouch, DismissAlert, ShowList, LeaveTab, SwitchTab, ShowDetail,
     OtherAlert, MenuAlert, Present, ListDeletes, Touchable, storeVars, screenVars
<1>8. CASE (\E code \in Texts : Failure(code)) \/ SuccessFails \/ ListDies \/ Relaunch
  BY <1>1, <1>2, <1>8 DEF Failure, Present, SuccessFails, ListDies, Relaunch, NewScreens, storeVars
<1>9. CASE UNCHANGED vars
  BY <1>1, <1>9 DEF vars, storeVars, screenVars
<1> QED
  BY <1>4, <1>5, <1>6, <1>7, <1>8, <1>9 DEF Next, SystemStep

\* For every user: as long as dataSavedMessage is on screen its package is stored.
THEOREM SavedIsStored == Spec => []SavedMeansStored
<1>1. Init => SavedInv
  BY FormInvInit DEF SavedInv, SavedMeansStored, Init, ScreenInit
<1>2. SavedInv => SavedMeansStored
  BY DEF SavedInv
<1> QED
  BY <1>1, <1>2, SavedInvNext, PTL DEF Spec

-----------------------------------------------------------------------------
(* No answer is lost behind another alert *)

\* While an answer is outstanding no alert covers the Home tab but the menu's
\* error: the request came from the button of this tab, and alerts of the other
\* tabs go before they are left.
HomeIsQuiet ==
  tab = "home" /\ validating # NothingValidating => alert \in {"none", "error"}

LEMMA QuietNext ==
  ASSUME PatientInv, HomeIsQuiet, [PatientNext]_vars
  PROVE  HomeIsQuiet'
<1>1. CASE UNCHANGED vars
  BY <1>1 DEF vars, screenVars, formVars, HomeIsQuiet, NothingValidating
<1>2. CASE validating = NothingValidating /\ FormStep
  BY <1>2 DEF FormStep, EditTrackingNumber, EditDescription, SubmitRegistered, SubmitUnfilled,
     SubmitValid, Touchable, screenVars, formVars, HomeIsQuiet, NothingValidating
<1>3. CASE OtherTouch
  BY <1>3 DEF OtherTouch, DismissAlert, ShowList, LeaveTab, SwitchTab, ShowDetail,
     OtherAlert, MenuAlert, Present, ListDeletes, Touchable, screenVars, formVars, HomeIsQuiet,
     NothingValidating
<1>4. CASE \E code \in Texts : Success(code) \/ Failure(code)
  <2>1. validating' = NothingValidating
    BY <1>4 DEF Success, Failure, AnswerTo, PatientInv, FormInv, FormTypeOK, AnswerFitsForm,
       NothingValidating
  <2> QED
    BY <2>1 DEF HomeIsQuiet, NothingValidating
<1>5. CASE NewScreens
  BY <1>5 DEF NewScreens, HomeIsQuiet
<1>6. CASE UNCHANGED <<screenVars, formVars>>
  BY <1>6 DEF screenVars, formVars, HomeIsQuiet, NothingValidating
<1> QED
  BY <1>1, <1>2, <1>3, <1>4, <1>5, <1>6 DEF PatientNext, SystemStep, SuccessFails, ListDies,
     StoreStep,
     ScreensFollow, Relaunch

LEMMA AnswerIsTold ==
  ASSUME PatientInv, HomeIsQuiet, [PatientNext]_vars, NEW code \in Texts,
         validating'[code] < validating[code], Up, Up', tab = "home"
  PROVE  \/ alert = "none"  /\ alert' \in {"saved", "wrong"}
         \/ alert = "error" /\ alert' = "error"
<1>1. CASE \E c \in Texts : Success(c) \/ Failure(c)
  <2>1. validating # NothingValidating
    BY <1>1 DEF Success, Failure, AnswerTo, NothingValidating
  <2> QED
    BY <1>1, <2>1 DEF Success, Failure, Present, HomeIsQuiet
<1>2. validating[code] \in Nat
  BY DEF PatientInv, FormInv, FormTypeOK
<1>3. CASE UNCHANGED validating
  BY <1>2, <1>3
<1>4. CASE validating = NothingValidating /\ FormStep
  BY <1>2, <1>3, <1>4 DEF FormStep, EditTrackingNumber, EditDescription, SubmitRegistered,
     SubmitUnfilled, SubmitValid, formVars, NothingValidating
<1>5. CASE OtherTouch \/ UNCHANGED vars
  BY <1>3, <1>5 DEF OtherTouch, DismissAlert, ShowList, LeaveTab, ShowDetail, OtherAlert,
     ListDeletes,
     formVars, vars
<1>6. CASE SuccessFails \/ ListDies \/ Relaunch
  BY <1>6 DEF SuccessFails, AddPackageFails, ListDies, Relaunch, Restart, Die, Up
<1>7. CASE StoreStep
  BY <1>3, <1>7 DEF StoreStep, ScreensFollow, formVars, Up
<1> QED
  BY <1>1, <1>4, <1>5, <1>6, <1>7 DEF PatientNext, SystemStep

\* Who waits on the Home tab is told what became of every validation, unless the
\* refusal of a removal asked for in the menu covers the tab when it comes.
THEOREM PatientIsTold == PatientSpec => AnswersAnnounced
<1>1. Init => HomeIsQuiet
  BY DEF Init, HomeIsQuiet
<1>2. PatientInv /\ HomeIsQuiet /\ [PatientNext]_vars =>
        [\A code \in Texts :
           validating'[code] < validating[code] /\ Up /\ Up' /\ tab = "home"
             => \/ alert = "none"  /\ alert' \in {"saved", "wrong"}
                \/ alert = "error" /\ alert' = "error"]_vars
  BY AnswerIsTold
<1> QED
  BY <1>1, <1>2, QuietNext, PatientInvInit, PatientInvNext, PTL DEF PatientSpec, AnswersAnnounced

-----------------------------------------------------------------------------
(* How a validation ends *)

\* A validation that is on its way is let alone by every step but the one that
\* ends it, and every answer ends it.
OnlyEnds ==
  validating # NothingValidating =>
    /\ validating' \in {validating, NothingValidating}
    /\ Answers => validating' = NothingValidating

LEMMA ValidationStep ==
  ASSUME PatientInv, [PatientNext]_vars, validating # NothingValidating
  PROVE  OnlyEnds
<1>1. Answers => validating' = NothingValidating
  BY DEF Answers, Success, Failure, AnswerTo, PatientInv, FormInv, FormTypeOK, AnswerFitsForm,
     NothingValidating
<1>2. NewScreens => validating' = NothingValidating
  BY DEF NewScreens
<1>3. OtherTouch \/ UNCHANGED vars => UNCHANGED validating
  BY DEF OtherTouch, DismissAlert, ShowList, LeaveTab, ShowDetail, OtherAlert, ListDeletes,
     formVars, vars
<1>4. StoreStep => UNCHANGED validating \/ NewScreens
  BY DEF StoreStep, ScreensFollow, formVars
<1> QED
  BY <1>1, <1>2, <1>3, <1>4 DEF PatientNext, SystemStep, SuccessFails, ListDies, Relaunch, Answers,
     OnlyEnds

\* What ValidationEnds rests on besides fairness: to a user who waits a single
\* answer ends the validation, whatever comes before it, and none comes back.
THEOREM AnswersEnd == PatientSpec => [][OnlyEnds]_vars
<1>1. PatientInv /\ [PatientNext]_vars => [OnlyEnds]_vars
  <2> SUFFICES ASSUME PatientInv, [PatientNext]_vars PROVE OnlyEnds
    OBVIOUS
  <2> QED
    BY ValidationStep DEF OnlyEnds
<1> QED
  BY <1>1, PatientInvInit, PatientInvNext, PTL DEF PatientSpec
=============================================================================
