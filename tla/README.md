# A TLA+ verification of RastreioBF

RastreioBF is an iOS app (Swift, UIKit, Core Data) with which a user registers
the tracking codes of parcels and follows their status. This directory holds
TLA+ models of its logic, TLC configurations that check them on small
instances, and TLAPS proofs. Paths below are relative to `src/RastreioBF/`.

## 1. The system

| Part | State | Operations | Talks to |
|---|---|---|---|
| Package store: `Data/CoreDataManager.swift`, `Data/DataProduct.xcdatamodeld`, `Service/` | the SQLite rows; the manager's context with at most one half-updated object; requests on the URL session | duplicate check, fetch, insert, update (on the session's queue), save | every tab |
| `AppDelegate`, `SceneDelegate` | a second Core Data stack on the same file; objects marked for deletion | delete (from the Avisos tab), save on entering the background, launch | the store |
| Home tab: `Scenes/TabBar/Home/ViewController` | two text fields, validation requests in flight | edit, submit, `success`, `failure` | store, service, alerts |
| Avisos tab: `Scenes/TabBar/Warning` | `coreData` and `eventArray`, dispatch groups, a filter's fetch | `viewWillAppear`, swipe to delete, filter, `didUpdatePackages` | store, both stacks, a third stack (`Data/CoreDataStack.swift`) for filters |
| Alerts, tab bar: `Scenes/Alert`, `Scenes/TabBar/MainTabBar` | what is in front | present, dismiss, switch | every controller |
| Detail screen: `Scenes/TabBar/DetailVC` | one package, one answer | show, fetch, go back (which refreshes the list) | service |
| Sign-up: `Scenes/SignUp`, `Masks` | five fields and their error labels, requests in flight | edit, sign up, the completions, the alerts | Firebase |
| Login, onboarding, menu: `Scenes/Login`, `Scenes/Onboard`, `Scenes/TabBar/Menu` | Firebase's current user, two navigation stacks, the menu's static sections | sign in (e-mail, Google), log out, remove the account | Firebase, Google |
| Password reset: `Scenes/ResetPassword` | the navigation it shares with the login and sign-up screens, requests in flight | ask for a mail, the completions, the alerts, go back | Firebase |
| Firebase Authentication: `Pods/FirebaseAuth` | accounts, the current user, its unanswered requests | sign in, create, sign out, send a mail, delete, sign out by force | the server |

What makes it hard to test:

* **Three Core Data stacks on one file.** `CoreDataManager.shared` inserts and
  updates, the `AppDelegate` deletes, the filter's stack reads. None hears of
  the others' saves; conflicts appear only when a save is rejected, and each
  caller treats that differently (`fatalError`, `print`, `fatalError`).
* **Two arrays, one row number.** A swiped row of `coreData` is looked up in
  `eventArray`, which another context loaded at another time.
* **A background queue changing main-queue objects.** `updatePackage` runs
  where the URL session calls back; its loop sets the status, clears the icon,
  sets it and saves, while registrations insert into the same context and save
  it from the main queue.
* **Answers that arrive late.** The form stays usable while a code is
  validated, and `success()` reads the fields again.
* **Asking who is signed in, later.** The completions of sign-in, sign-up and
  removal look at `Auth.auth().currentUser`, not at their own answer, and
  Google's sign-in never sets it.
* **Screens that are gone, and answer.** A request keeps its screen alive; the
  button of the password reset's alert pops whatever is on top by then.
* **Crashes by design.** `fatalError` guards the saves and the updates; the rows
  survive, everything else starts again.

Every hazard found is listed with its line and its properties in
`PROJECT.json`.

## 2. Modules

```
Classification            the seven words, the three icons, the four filters
   PackageStore           rows, contexts, requests, the session's queue, crashes
      + Screen            tab and alert in front
      |-- Registration    Home tab     --implements-->  PackageRegistry
      |-- PackageList     Avisos tab
      '-- RastreioApp     both tabs in one process (INSTANCE of both)
AccountService            Firebase Authentication
      |-- SignUpForm      sign-up screen, with the rest of the app left open
      '-- Session         login, onboarding, tabs, menu   --implements-->  Access
PasswordReset             the reset screen in the navigation of the login screens
MC*                       constants for TLC
*Proofs                   theorems; RastreioAppProofs: each tab implements the
                          other one's model of it
```

**Classification** (`CoreDataManager.swift:90-108`, `DataModel/contents:14-17`,
`RastreioBF.strings:101-131`). A status is the set of the seven words its text
contains, because `String.contains` is all the code asks of it. `ImageOf` is the
`if / else if` cascade, `Finds` the predicates of the stored fetch requests.

**PackageStore.** `rows` are the saved packages by primary key. The manager's
context is `worker.dirty`: at most one object of it, the one the worker has
begun to update and not saved, differs from the store. The AppDelegate's context is
`fresh` (rows unchanged since it last fetched them; everything optimistic
locking needs) and `deletes` (marks a rejected save left behind). `inflight`
are the tracking requests, `worker` the one completion the session's serial
queue is running, split wherever another thread's save finds something else to
write (`SetStatus`, `BlankImage`, `SaveUpdate`). A registration's own insert,
not yet filled, is what the worker's save may find: the required attributes are
missing and the process ends (`AddPackageFails`). `Die` is the end of the process by any
cause: memory goes, rows stay; `Restart` begins again. Alternatives of one
call that end differently are separate actions (`AddPackage` /
`AddPackageFails`, `SaveUpdate` / `SaveUpdateFails`).

**Screen.** Which tab or detail screen is shown and which alert covers it. `Present` is
`Alert.getAlert`: UIKit drops a presentation while another alert is up; asked by
a controller that another tab covers, it presents from the container they share
or drops it, and the model allows both. Of the menu there is the tab (`SwitchTab`)
and the error that a refused removal presents when its answer comes, over
whatever tab is shown by then (`MenuAlert`).

**Registration.** `actionSubmitButton` in its three outcomes, in the order of
its conditions; `validating` counts requests per code; `Success` and `Failure`
are the completions with everything they call (`addPackage`, its save, the
tracking request, the alert, the cleared fields). What the other tabs do to
shared state is in the actions under "The other tabs".

**PackageList.** One action per handler of `WarningViewController` and
`WarningViewModel`. Main-queue blocks that follow each other without anything
between them are one action. `NewScreens` builds the view model of a new
process, whose `init` has fetched the rows.

**PackageRegistry.** What the messages of the form promise, without keys,
contexts, requests or screens: filled packages, unique codes, changed by
removal only.

**RastreioApp.** The real steps of each tab take the place of the other
module's model of them. `FormImplemented` and `ListImplemented` say that each
module's model of its environment was generous enough. `FormImplemented` hides
`fresh` and `deletes`, of which the form knows nothing. Both are proved.

**AccountService** (`Pods/FirebaseAuth/.../FIRAuth.m`, `FIRUser.m`). Accounts,
the e-mails whose link was followed, the SDK's `currentUser` and what it knows
of that user's activation. Every sign-in makes a new `FIRUser`; a request is
made by one of them, and an answer that says its token is taken no more signs
it out by force only if it is still the current one: the SDK compares the `uid`
strings by their address. `asks` are the unanswered requests of the current
`FIRUser`, so that a new sign-in empties it. The module declares no `Next`: its
operators are conjuncts of the actions of the two modules below.

**SignUpForm.** `hidden` is the error label of each field, set by `Edit` from
that field alone (`Accepts` is `Masks`; a text is told apart by the three
formats it may have). A sign-up is answered in two steps: the service creates
the account and sets the user (`CreateSucceeds`), and the completion runs later
(`SendVerificationMail`, `SendNothing`); it may also be refused, or be lost after the account
was made (`CreateUnfinished`), and the activation mail may be refused with the
token (`MailRefused`). Every visit is a new controller; the
covered ones still get their answers, which is why requests carry the visit,
and keep what was typed (`below`). The button of the password reset's alert pops
what is on top: a screen in front (`PopSignUp`), or what covers one, which is
then in front again with its request under way (`Uncover`). `showing` numbers
the times a sign-up screen comes in front.
`Elsewhere` is what the other screens may do to the SDK's user meanwhile;
the history variable `overtaken` remembers after whose answer they did.

**Session.** `screen` is what is in front, `nav` the navigation it was pushed
into: `LoginViewController` is the root of one navigation and is pushed into
the menu's own by a logout or a removal, and everything after it is pushed
there. `menuLoaded` and `ownMenu` model `MenuViewModel`'s static sections: the
rows of every later menu run the handlers of the process's first one, which push
into *its* navigation and present from *its* controller. `covered` says that a
later push to the root has covered that menu's tab bar. `owner` is a history
variable: who opened the screen in front; `expelled` another: a refused token
has signed the user out since. Sign-ins are answered in two steps,
as above, and any number of screens may be pushed by late answers; a removal is
done (`RemovalAnswered`, then its completion `RemovalDone`), refused, lost
after it was served, or answered by a refused token. Left open:
whether a sign-in leads to the onboarding or to the tabs (the code compares
two dates of the service), and whether a covered controller's alert appears.
The sign-up screen counts as the login screen it came from, with an account
that may be made there at any time (`SignUpCreates`, `SignUpCompletes`); the
login screen it leads to is the same one (the code pushes another copy into the
same navigation). One removal's completion waits at a time.

**Access.** What `Session` promises to who waits: who is in the app by an
e-mail has an active account with it, nobody takes the place of who is in, and an account
goes only after somebody in the app has confirmed it. No SDK, no screens, no
navigation, no requests but the removals confirmed.

**PasswordReset.** `EmailConfirmationViewController` in the navigation it shares
with the login and the sign-up screens, which is modelled as it is: a stack of
screens, each with a number that requests and alerts carry. `Present` lets a
screen that was popped present nothing; `Ok` after the good news pops the top.
Sign-ins that a login screen below still waits for push the app over
everything; what happens in it is `Session`'s. That the button may pop the app
or the login screen in front is not in `Session`, whose screens leave only by
what pushes the next.

### Assumed of Core Data, UIKit and Firebase

The definitions marked external in the map state what is used of the
libraries: a save is one transaction; it is rejected when an object it updates
or deletes was changed or deleted through another coordinator since this
context read it (default error merge policy); keys grow and are not reused; an
unsorted fetch returns rows by key and leaves out rows the context has marked;
`URLSession.shared` calls completions one at a time; a presented alert takes
all touches; a controller pushed into a navigation that is not in front is not
seen. Of Firebase: an e-mail names one account; the SDK sets `currentUser`
before it queues the completion, keeps it across launches, and learns of an
activation only at a sign-in; a created account is signed in unless its data
cannot be fetched. Refusals (wrong password, no network, an e-mail
in use, a login that is too old for a removal, a token that was revoked) may
happen at any request. Its automatic token refresh is off, as the app never
asks for it; a keychain that cannot be written is left out. A navigation
whose bar is hidden has no swipe back (`LoginViewController.swift:47`).
These assumptions are not checked here. Reading or opening the
store never fails in the model (the code prints or ends the process).

## 3. Runs

| Run | Shows | Bounds |
|---|---|---|
| `ListFilters` | classification and when a registration upsets it, ghost rows, deleted stays deleted, identity, half-done updates, failed deletes, one swipe one package | 2 packages, 1 filter, 2 statuses (one with words of both lists), 1 event, 1 refresh; the menu is in `App`, `FormPatient` and `ListLive` |
| `ListLive` | `RefreshEnds`, and `QueueDrains`: the queue's steps use up its work, which only a refresh or a registration adds to | 2 packages, 1 refresh, up to 2 events, codes without URL |
| `ManagerSave`, `BackgroundSave` | **violations**: the saves that "cannot fail" do | 1 package; 2 packages |
| `FormPatient` | filled, unique, fitting answers, announced but under the menu's error, saved means stored, `ValidationEnds`, implements the registry | 2 packages, 2 good codes and one with a space, two descriptions, one of them with an inner space; 1 validation per code; codes without URL are in `App` and `ListLive` |
| `FormUnfilled` | **violation**: an empty package | 2 validations per code |
| `SignUp` | `AccountsWellFormed`: what the field-by-field checks add up to; `AskedOncePerShowing`: one request while the screen is in front; `NewAccountsGetMail`: when an account is left without its activation mail | 2 visits, 3 showings, 2 members, the e-mail of one typed (in use, free once the account is removed, then a new account's), a good and a bad password, all orders of edits |
| `SignUpPassword` | **violation**: an unconfirmed password | 1 visit, 2 good passwords |
| `Session` | `SignedOutIsShown` for every user; `NilNeverUnwrapped`, `TabsBelongToUser` for one who waits; implements `Access` | 2 e-mails (one a member before) and Google, 2 unfinished sign-ins |
| `SessionRemoval` | **violation**: another user's account removed | the same |
| `PasswordReset` | `AlertsOfScreens`: who announces what; `LinkSentLeadsBack`: what the button of the good news pops, for every user and for who waits; `ResetsAnnounced`: who waits is told by the screen that asked | 5 screens pushed, 2 unanswered requests per screen |
| `App` | both tabs together implement each module; `SameNumbers`: both arrays number the same packages; `GroupsBalanced`: no leave without an enter; `TrapsOnlyUnrefreshed`: where a swipe may be out of range | 2 packages, 2 refreshes at a time, a code without URL, no filter (`ListFilters` has them) |

Bounds by name: `MaxRows` packages ever inserted, `MaxEvents` events per
answer, `Groups` refreshes open at a time, `MaxValidating` validations in
flight per code; one filter fetch at a time (the guard of `OpenFilter`);
`PlainTabs` the tabs besides the list that are shown; `MaxVisits` sign-up screens
pushed in one process and `MaxShowings` the times one of them comes in front; `MaxSignIns` sign-ins
that are not finished, over both e-mails and navigations; `MaxPushes` screens
pushed and `MaxRequests` unanswered requests of one screen in `PasswordReset`. Two
packages are enough for a delete to hit the wrong one, for one to be half done
while the other is registered, and for a duplicate; two events for the loop of `updatePackage` to run twice
between two saves; two groups for an old handler to meet a new group; two visits
for an answer to meet another form and for one screen to be popped off another,
three showings for a covered one to come back and ask again; two e-mails for one user to be taken for
the other, each signing in from both navigations at once; five pushes for an
answer to find the app, a sign-up and a second login over the reset screen that asked. The
deaths of a process are not bounded: every run includes restarts. With
`MaxRows` reached, a registration is no longer answered by `Success`, and
`Failure` stays possible.

Deadlock is checked in every run: `Kill` and `Restart` (`Relaunch`) are always
possible in one of the process states, as on the device.

### Findings

1. *An empty package* (`FormUnfilled`). Tap "Salvar" twice: the first answer
   stores the package and clears the fields, the second stores the cleared
   fields (`TrackingViewController.swift:85-88`), although
   `dataMustBeFilledMessage` says fields must be filled in.
2. *Deleting while an update is on its way ends the process* (`ManagerSave`,
   `CoreDataManager.swift:119`).
3. *A rejected delete ends the process later* (`BackgroundSave`): it is
   printed, its mark stays, and entering the background saves it again
   (`AppDelegate.swift:99`).
4. *A password nobody confirmed* (`SignUpPassword`). Type the password, confirm
   it, edit the password: its confirmation is not checked again
   (`SignUpViewController.swift:102-105`).
5. *Somebody else's account is removed* (`SessionRemoval`,
   `MenuScreenVC.swift:45`): in the app by Google, with the user of an earlier
   sign-in still held by the SDK.

Not given a run of their own, as they are the same gaps seen from another side
or plain from one line: editing the number, or submitting it again, before the
answer stores a code twice (the duplicate check is made on submission); the
congratulations of the sign-up come before its answer, and an e-mail in use is
only printed (`SignUpViewController.swift:160-168`); the activation mail is
asked for whoever is signed in when the completion runs (`:132`), and
`NewAccountsGetMail` states when that leaves a new account without one; removing
"all your data (packages, account ...)" leaves the packages in the store
(`MenuScreenVC.swift:46-52`).

Also seen, and kept in the model as the code has it, without a text it would
contradict: with a filter applied, a swipe deletes the package that has this
row number without the filter; a swipe before the first refresh has ended, or
on the row of the empty state, traps (`CommitBeyond`, `CommitEmptyState`); a
code that makes no URL keeps its refresh open for ever, and its submission is
never answered; a registration that inserts its package while an update is saved
ends the process (`AddPackageFails`), and one that comes between the halves of an update
stores the new status under the old icon, or under none, until the update goes
on (`MisfiledOnlyByRegistration`, `HalfDoneOnlyByRegistration`); the error of a
refused removal may hide a validation's answer; a sign-up screen that the
password reset brings back can ask for a second account.

### Fairness

`ListLive`: the URL session ends every request (strong fairness per request:
the serial queue is busy again and again, but serves in order, so no request
is overtaken for ever), the running completion goes on, a group that is empty
is notified. `RefreshEnds` counts an error as an end: the process dies of it.
`FormPatient` (`FairPatientSpec`): a validation is answered or
fails; Alamofire ends a request by its time-out at the latest.
`PasswordReset` (`FairSpec`): every request of the screen is answered, an error
or the SDK's time-out counting as an answer. Nothing is assumed of the user, the filters or the
system's kills.

### The waiting user

In `Registration`, `PatientSpec` is `Spec` with one restriction: the form is
left alone while a validation is in flight. The code does not enforce it, and the violation
run shows what happens without it; the properties of `PatientSpec` say that
this is the *only* way to break the promises: no update, delete, filter, tab
switch, kill or restart does. (Only an answer's alert may be lost to the menu's late
error, as `AnswersAnnounced` says.) `SavedMeansStored` is proved for every user.

In `Session`, the history variable `hurried` tells whether the user, since the
launch, asked the account service for something while an answer was
outstanding. `NilNeverUnwrapped` and `TabsBelongToUser` are about who did not: a
sign-out between an answer and its completion leaves nothing to unwrap. The
same variable is what `Access` calls `orderly`: to who hurried it promises only
that no account goes that nobody has confirmed. `PasswordReset` has one of its
own: with two answers on their way, the alert of the first hides the second, and
its button may pop another screen than the one that asked. To every user
`LinkSentLeadsBack` says that one screen goes, and none below the one that asked.
`SignedOutIsShown` says what is left for every user: the exceptions it
names are the ways the code has to get there.

## 4. Proofs

| Theorem | For every constant |
|---|---|
| `RegistrationProofs!TypeCorrect` | `Spec => []TypeOK` |
| `RegistrationProofs!SavedIsStored` | `Spec => []SavedMeansStored` |
| `RegistrationProofs!PatientStoresFilled`, `PatientStoresOnce`, `PatientAnswersFit` | the three invariants of a waiting user |
| `RegistrationProofs!PatientIsTold` | `PatientSpec => AnswersAnnounced` |
| `RegistrationProofs!PatientImplementsRegistry` | `PatientSpec => RegistryImplemented` |
| `PackageListProofs!FilesByStatus`, `HalfDoneNeedsRegistration` | `MisfiledOnlyByRegistration`, `HalfDoneOnlyByRegistration` |
| `PackageListProofs!DeletedStaysDeleted`, `KeepsIdentity`, `FailedDeleteBlocks`, `Drains` | four action properties |
| `PackageListProofs!BackgroundNeverDeletes` | entering the background with a mark left ends the process, and deletes nothing |
| `ListArraysProofs!TypeCorrect`, `ArraysAgree`, `ShowsWhatExists`, `GroupsStayBalanced` | `Spec => []` of `TypeOK`, `SameNumbers`, `ShownPackagesExist`, `GroupsBalanced` |
| `ListArraysProofs!SwipesOne`, `TrapsUnrefreshed` | `OneSwipeOnePackage`, `TrapsOnlyUnrefreshed` |
| `RastreioAppProofs!ImplementsList`, `ImplementsForm` | `Spec => ListImplemented`, `Spec => FormImplemented` |
| `RastreioAppProofs!ArraysAgree`, `GroupsStayBalanced`, `TrapsUnrefreshed` | the same three properties of the whole app |
| `RastreioAppProofs!StoreKeepsInApp`, `ListShowsInApp`, `SavedInApp` | six further properties of the list and the store, and `SavedMeansStored`, of the whole app |
| `RastreioAppProofs!FilledOnceInApp`, `RegistryInApp` | `StoredFilled`, `StoredOnce`, `RegistryImplemented` of the whole app, for who waits on the Home tab |
| `SignUpFormProofs!TypeCorrect`, `CreatesWellFormed`, `AsksOnce`, `GetsMail` | the type invariant, `AccountsWellFormed`, `AskedOncePerShowing`, `NewAccountsGetMail` |
| `SessionProofs!TypeCorrect`, `LeavesNobodySignedOut` | `Spec => []TypeOK`, `Spec => []SignedOutIsShown` |
| `SessionProofs!NilNever`, `TabsMine` | `NilNeverUnwrapped` and `TabsBelongToUser`, for a waiting user |
| `SessionProofs!ImplementsAccess` | `Spec => AccessImplemented` |
| `PasswordResetProofs!TypeCorrect`, `AlertsComeFromScreens`, `LeadsToLogin` | `TypeOK`, `AlertsOfScreens`, `LinkSentLeadsBack` |
| `PackageListProofs!SavesUnlessOverlapped`, `SavesUnlessOutdated` | `ManagerSaves`, `BackgroundSaves`, on the right side of findings 2 and 3 |
| `SignUpFormProofs!ConfirmsPassword`, `SessionProofs!RemovesOnlyMine` | `ConfirmedPassword`, `RemovalRemovesMine`, on the right side of findings 4 and 5 |
| `RegistrationProofs!AnswersEnd`, `ListArraysProofs!RefreshesShrink`, `PasswordResetProofs!NoneForgotten` | the safety halves of `ValidationEnds`, `RefreshEnds`, `ResetsAnnounced` |

`PackageStoreProofs` has the lemmas about the store that both tabs use.
`StoreInv` strengthens the type invariant: a request or a busy worker belongs
to a key that was given out (so an update never touches a row of the future);
only a worker within an iteration is dirty, and one that is not dirty there has
been saved half done by a registration. That a chosen icon is the one of its
status is no invariant; `FilesByStatus` says by which step it ceases to be.
One lemma per action of `PackageStore` says that it preserves `StoreInv`; the
component modules add one lemma per action of their own.

*The form.* The argument for a waiting user is `AnswerFitsForm`: a request in
flight is the only one, is about the text in the field, for a filled form, with
a code that is not in the store. It is inductive because only `SubmitValid`
starts a request, `FormStep` is disabled until it ends, and no other action
inserts rows; so what `success()` reads again is what was checked, and
`StoredFilled` and `StoredOnce` follow, and each `Success` is a `Register` step.
With `HomeIsQuiet` (no alert but the menu's error covers the Home tab while an
answer is outstanding, because the other tabs can be left only without one)
every other answer is announced.

*Deletes.* For the failed ones the invariant is `deletes # {} => ~(deletes
\subseteq fresh)`: a mark stays only because one of the marked rows is not
fresh, a fetch does not refresh marked rows, so no later save can succeed
either.

*The two arrays.* `ListArraysProofs` begins with `InOrder`: the place of an
element is the number of those below it, every place is taken (there is a
smallest element among those too far up), so a fetch lists each row
once, ascending. From that: a fetch without the `k`-th row is `RemoveAt` of it
(`InOrderRemove`), and a fetch of the rows below some key is the beginning of the
fetch of all (`InOrderBeginning`). The invariant `ArraysAre` says that, until a
filter is applied or a delete fails, *both arrays are beginnings of the fetch of
all rows*: a registration makes each a shorter beginning, a delete takes the
same row out of both. So they agree wherever both have a row; and with no
refresh open the table's is not the longer one, so that a swipe is in range.
`GroupsInv` says who still has to leave which group; it needs that a request is not in
flight while it is being handled, that a dead process has none, and that a new
key is in no group.

*The composition.* Each step of the Home tab is mapped to one of
`PackageList`'s steps about the form (`HomeAdds`, `HomeAlert`, ...) or a
stutter, which needs only that the fields hold `Texts`. The theorems about the
list then hold in the app. Conversely each step of the list is one of
`Registration`'s steps about the other tab; here the failed deletes matter: a
swipe with an earlier mark left deletes nothing, and the save on
entering the background only ever dies, so that no step deletes two packages.

*Sign-up.* `FormInv` carries what the checks of one moment still mean
later: a hidden label over a text that is not empty vouches for the e-mail's
and the password's own format (`LabelsMean`), because only `Edit` writes either
and it writes both, and a request keeps the texts it was made of. There is no
such clause for the confirmation, whose label speaks of another field: that is
finding 4. The same is said of the covered forms (`below`), since any of them may
come back. `AskInv` adds that a request was made in no later showing than the
present one (`FromShowings`), so that each showing starts without any.
`MailInv`: until its completion runs, the user of a new account is signed in
and, if he is active already, has asked for the mail before; because an account
that is removed loses its activation, and nobody activates what was not asked for.

*Session.* `SignedOutIsShown` is inductive with the types: whatever signs the
user out pushes the login screen in the same step, or is a removal's answer,
whose completion does, or a refused token. For who waits the invariant is
`Waits`: one sign-in is unfinished at most and the user is before its login
screen (`OneSignIn`); between answer and completion the SDK's user is the
answer's (`AnsweredIsCurrent`); alerts, new accounts and removals fit the
screen; who has come in is the current user, or a removal or a refusal has
signed him out (`OwnerInside`); and nothing that is pushed is covered
(`NothingCovered`), which is why the static sections of the menu do no harm to who waits. Each
step is then one of `Access` or a stutter.

*Password reset.* Below a reset screen is a login screen, ids grow from the
bottom to the top (`StackOK`), and the first screen asks for no link and tells of
none (`FirstAsksNothing`), so that the button of the good news always has a
screen to take, and takes none below the one that asked. Who waits waits for one answer, before the screen
that asked (`OneAnswer`), so that good news comes from the screen in front
(`NewsInFront`), and the pop removes that one, and that no other alert stands in
the way of an answer.

*On the right side of the findings.* A violation run shows that a promise can be
broken; four theorems say by what only, each for `Spec` with one condition on
the user's steps. `UpdatesFinishFirst`: no package is deleted while a request or
the worker is about it, and none registered while the worker runs; then each of
these is about a saved row (`UpdatesFit`), no insert is half made, and the
manager's save has nothing to fail of. `SwipesCurrent`: the
swiped row is one the AppDelegate's context has at its current version; then no
delete is rejected, and the background finds no mark. `PasswordFirst`: the
password of a screen is edited only over an empty confirmation (another screen
coming in front is no edit); then `FormInv` gets the
clause it lacks (`Confirmed`). `RemovesByEmail`: who waits, and came in by
e-mail, removes the data; then `OwnerInside` says whose account it is.

*What liveness rests on.* That fair steps come is for TLC; what they
come to is proved for all constants. `QueueDrains`: the queue's work
(`Work`, weighing a request more than the events of its answer, which are not
known before) goes down with each of its steps, so it never runs on the
spot. `RefreshesShrink`: an open refresh never waits for more, and its rows
leave before their handlers do. `AnswersEnd`: one answer ends a validation and
no other step disturbs it. `NoneForgotten`: while the process lives, a request of
who waits leaves the books only with an alert of its own screen that says what
became of it, by `OneAnswer`.

*The whole app.* `ListFacts` and `FormFacts` are the proof modules of the two
tabs, instantiated with what each sees of the app; that `RastreioApp` implements
the modules (`IsAList`, `IsAForm`) carries their theorems over. For who waits on the
Home tab this needs more than the implementation: that no step of the list
is mapped to one of the form (`FormSteps`), so that the whole list may be used
meanwhile (`WaitsInApp`). So `RegistryInApp` says of the app with both tabs,
three Core Data stacks, the queue and all its deaths, that it is a set of filled
packages with unique codes. For it `AppAssumption` says of the texts what
`FormAssumption` does.

The proofs use the named assumptions `StoreAssumption`, `FormAssumption`,
`ScreenAssumption`, `ListAssumption`, `AppAssumption`, `ServiceAssumption`, `SignUpAssumption`,
`SessionAssumption` and `ResetAssumption` about the constants and nothing else.

Only model-checked: liveness (`ValidationEnds`, `RefreshEnds`,
`ResetsAnnounced`), as fairness is about ENABLED, which is out of TLAPS' reach. Every safety property of the
passing runs is also proved.

## 5. Not modelled

Paging through the onboarding; the login's red label and its check for empty
fields; the table of events of the detail screen; cells, layout, texts; the
privacy page; the pods, but for what of FirebaseAuth the app calls; the older
copies of the app under `src/Scenes`, `src/APIRestFull` and
`src/RastreioBF/RastreioBF`, which the Xcode project does not build. Nearly all
of the repository's lines are vendored pods (gRPC, BoringSSL, leveldb,
Firestore, ...), of which the app calls a handful of functions. Code
that nothing calls (`deleteAllPackages`, `getDate`, `updatePackages` of the
Home view model, `updatePackage` of the list's, `validateTextFields`) has no
action. In the package modules the menu is a tab without state and its late
error; its questions are left out, as what they hide is hidden behind the menu
anyway.

## 6. Plan

1. Done: store, form, list, their composition, the first theorems.
2. Done: account service, sign-up form and session; refused tokens, lost
   answers; `Access`; the password reset.
3. Done: every safety property of the passing runs proved, the composition
   included; the boundaries of the findings; the safety halves of liveness; the
   promises of both tabs in the whole app.
4. Left: `SignUpForm`, `Session` and `PasswordReset` composed, as `RastreioApp`
   composes the tabs (each is checked against its own model of the others:
   `Elsewhere` and `AlertElsewhere`, `SignUpCreates`, `SignInAnswered`), with the
   reset's pop over the app, which only such a composition can follow into the
   session; the menu's effect on the
   packages (none today, although it says it removes them).
