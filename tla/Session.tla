------------------------------ MODULE Session ------------------------------
(***************************************************************************)
(* LoginViewController, the onboarding and the menu: who is in the app and *)
(* who the account service takes for signed in.  A sign-in is answered in  *)
(* two steps, as the SDK sets currentUser before it runs the completion on *)
(* the main queue, and the completion looks at currentUser, not at its     *)
(* own answer.  Google's sign-in never reaches the account service.        *)
(* Logging out pushes a login screen into the menu's own navigation; the   *)
(* sections of MenuViewModel are static, so that every later menu runs the *)
(* handlers of the first one.  The sign-up screen is module SignUpForm.    *)
(***************************************************************************)
EXTENDS AccountService, Naturals

LOCAL INSTANCE Functions

CONSTANTS
  Google,     \* somebody who came in by Google's sign-in
  MaxSignIns  \* bound: sign-ins that are not finished

ASSUME SessionAssumption ==
  /\ Google \notin Texts \cup {Nobody}
  /\ MaxSignIns \in Nat

VARIABLES
  proc,        \* "up", or "nilUser" after unwrapping a nil user
  screen,      \* "login" (or sign-up), "demo" or "tabs" in front
  alert,       \* the alert or sheet in front
  nav,         \* navigation the login screen is in: "root" or "menu"
  menuLoaded,  \* a menu has been loaded: its handlers are the ones used
  ownMenu,     \* ... by the tab bar in front
  covered,     \* the tab bar of that menu is covered in the root navigation
  signingIn,   \* per navigation and e-mail, sign-ins not answered
  signedIn,    \* ... and answered ones whose completion has not run
  creating,    \* the completion of a new account has not run
  removing,    \* users whose removal is not answered
  removed,     \* the completion of a removal has not run
  owner,       \* who opened the screen in front; nothing in the code knows
  expelled,    \* history: the SDK has signed the current user out by a refused
               \* request since he came in
  hurried      \* history: since the launch the user did not always wait

navVars == <<nav, menuLoaded, ownMenu, covered>>
signInVars == <<signingIn, signedIn>>
removalVars == <<removing, removed>>
requestVars == <<signInVars, creating, removalVars>>
ownerVars == <<owner, expelled>>
vars == <<serviceVars, proc, screen, alert, navVars, requestVars, ownerVars, hurried>>

Navs == {"root", "menu"}
Alerts == {"none", "google", "wrongEmailSignin", "leaveConfirmation", "removeData",
           "errorOccurred"}
UnfinishedSignIns ==
  SumFunction([p \in Navs \X Texts |-> signingIn[p[1]][p[2]] + signedIn[p[1]][p[2]]])

NoSignIn == [n \in Navs |-> [e \in Texts |-> 0]]

TypeOK ==
  /\ ServiceTypeOK
  /\ proc \in {"up", "nilUser"}
  /\ screen \in {"login", "demo", "tabs"}
  /\ alert \in Alerts
  /\ nav \in Navs
  /\ <<menuLoaded, ownMenu, covered>> \in BOOLEAN \X BOOLEAN \X BOOLEAN
  /\ signingIn \in [Navs -> [Texts -> Nat]]
  /\ signedIn \in [Navs -> [Texts -> Nat]]
  /\ asks \subseteq {"mail", "removal"}
  /\ creating \in BOOLEAN
  /\ removing \subseteq Texts
  /\ removed \in BOOLEAN
  /\ owner \in Texts \cup {Nobody, Google}
  /\ expelled \in BOOLEAN
  /\ hurried \in BOOLEAN

Init ==
  /\ ServiceInit
  /\ proc = "up" /\ screen = "login" /\ alert = "none"
  /\ nav = "root" /\ menuLoaded = FALSE /\ ownMenu = FALSE /\ covered = FALSE
  /\ signingIn = NoSignIn /\ signedIn = NoSignIn
  /\ creating = FALSE /\ removing = {} /\ removed = FALSE
  /\ owner = Nobody /\ expelled = FALSE
  /\ hurried = FALSE

Up == proc = "up"
Touchable(s) == Up /\ screen = s /\ alert = "none"

\* A controller presents: nothing over an alert; if it is covered, whether
\* UIKit presents from its container is left open.
Present(inFront, message) ==
  IF alert = "none" /\ inFront THEN alert' = message
  ELSE alert' = alert \/ (alert = "none" /\ alert' = message)

\* A screen is pushed into navigation n.  The root navigation is in front of
\* all; what is pushed into the menu's is seen unless a later push to the root
\* covers the menu's tab bar.
Push(n, s, person, refused) ==
  /\ covered' = (covered \/ (n = "root" /\ menuLoaded))
  /\ IF n = "root" \/ ~covered
       THEN /\ screen' = s
            /\ owner' = person /\ expelled' = refused
            /\ nav' = n
            /\ ownMenu' = (IF s = "tabs" THEN ~menuLoaded ELSE ownMenu)
       ELSE UNCHANGED <<screen, ownerVars, nav, ownMenu>>

-----------------------------------------------------------------------------
(* Login screen *)

\* actionLoginButton with both fields filled; the button stays enabled.
Login(e) ==
  /\ Touchable("login")
  /\ UnfinishedSignIns < MaxSignIns
  /\ signingIn' = [signingIn EXCEPT ![nav][e] = @ + 1]
  /\ UNCHANGED <<serviceVars, proc, screen, alert, navVars, signedIn, creating, removalVars,
                 ownerVars>>

\* signIn's completion with an error: the red label.
SignInFails(n, e) ==
  /\ Up
  /\ signingIn[n][e] > 0
  /\ signingIn' = [signingIn EXCEPT ![n][e] = @ - 1]
  /\ UNCHANGED <<serviceVars, proc, screen, alert, navVars, signedIn, creating, removalVars,
                 ownerVars>>

\* The service accepts: the SDK has a user, the completion is queued.
SignInAnswered(n, e) ==
  /\ Up
  /\ signingIn[n][e] > 0
  /\ e \in EmailsOf(accounts)
  /\ signingIn' = [signingIn EXCEPT ![n][e] = @ - 1]
  /\ signedIn' = [signedIn EXCEPT ![n][e] = @ + 1]
  /\ SignedIn(e)
  /\ UNCHANGED <<accounts, active, proc, screen, alert, navVars, creating, removalVars,
                 ownerVars>>

Completed(n, e) ==
  /\ Up
  /\ signedIn[n][e] > 0
  /\ signedIn' = [signedIn EXCEPT ![n][e] = @ - 1]
  /\ UNCHANGED <<serviceVars, signingIn, creating, removalVars, menuLoaded>>

\* Mutant: the e-mail need not be verified.
Enter_Unverified(n, e) ==
  /\ Completed(n, e)
  /\ currentUser # Nobody
  /\ \E s \in {"demo", "tabs"} : Push(n, s, e, FALSE)
  /\ UNCHANGED <<proc, alert>>

\* signIn's completion: the first sign-in of a user leads to the onboarding.
Enter(n, e) ==
  /\ Completed(n, e)
  /\ currentUser # Nobody /\ isEmailVerified
  /\ \E s \in {"demo", "tabs"} : Push(n, s, e, FALSE)
  /\ UNCHANGED <<proc, alert>>

\* The same, for a user who has not followed the link.
AskToVerify(n, e) ==
  /\ Completed(n, e)
  /\ currentUser # Nobody /\ ~isEmailVerified
  /\ Present(screen = "login" /\ nav = n, "wrongEmailSignin")
  /\ UNCHANGED <<proc, screen, nav, ownMenu, covered, ownerVars>>

\* A process that ends loses all but the SDK's user.  (A request that was served
\* and never answered has failed, in the model, just before.)
Ended ==
  /\ screen' = "login" /\ alert' = "none"
  /\ nav' = "root" /\ menuLoaded' = FALSE /\ ownMenu' = FALSE /\ covered' = FALSE
  /\ signingIn' = NoSignIn /\ signedIn' = NoSignIn
  /\ creating' = FALSE /\ removing' = {} /\ removed' = FALSE
  /\ owner' = Nobody /\ expelled' = FALSE
  /\ asks' = {}
  /\ UNCHANGED <<accounts, active, currentUser, isEmailVerified>>

\* currentUser! or authUser! without a user.
UnwrapsNil ==
  /\ Up
  /\ currentUser = Nobody
  /\ \/ \E n \in Navs, e \in Texts : signedIn[n][e] > 0
     \/ alert = "wrongEmailSignin"
  /\ proc' = "nilUser"
  /\ Ended

\* Ok of errorOccurred, Cancel of the others; logging out is no more than that
\* when the keychain cannot be written.
DismissAlert ==
  /\ Up
  /\ alert \notin {"none", "google"}
  /\ alert' = "none"
  /\ UNCHANGED <<serviceVars, proc, screen, navVars, requestVars, ownerVars>>

\* Ok of wrongEmailSignin.
SendVerificationMail ==
  /\ Up
  /\ alert = "wrongEmailSignin"
  /\ alert' = "none"
  /\ Asks("mail")
  /\ UNCHANGED <<proc, screen, navVars, requestVars, ownerVars>>

\* Its completion is empty, but the SDK signs out a user whose token the
\* service takes no more.  (Mails asked for by former users change nothing.)
MailAnswered ==
  /\ Up
  /\ "mail" \in asks
  /\ Answered("mail", currentUser)
  /\ UNCHANGED <<accounts, active, proc, screen, alert, navVars, requestVars, ownerVars>>

MailRefused ==
  /\ Up
  /\ "mail" \in asks
  /\ SignOutByForce("mail", currentUser)
  /\ expelled' = TRUE
  /\ UNCHANGED <<accounts, active, proc, screen, alert, navVars, requestVars, owner>>

\* signIn: Google's sheet.
OpenGoogle ==
  /\ Touchable("login")
  /\ alert' = "google"
  /\ UNCHANGED <<serviceVars, proc, screen, navVars, requestVars, ownerVars>>

CancelGoogle ==
  /\ Up
  /\ alert = "google"
  /\ alert' = "none"
  /\ UNCHANGED <<serviceVars, proc, screen, navVars, requestVars, ownerVars>>

\* Its completion without an error leads to the onboarding.
EnterWithGoogle ==
  /\ Up
  /\ alert = "google"
  /\ alert' = "none"
  /\ Push(nav, "demo", Google, FALSE)
  /\ UNCHANGED <<serviceVars, proc, menuLoaded, requestVars>>

-----------------------------------------------------------------------------
(* Onboarding, tabs and menu *)

\* skipTapped, nextTapped
LeaveDemo ==
  /\ Touchable("demo")
  /\ Push(nav, "tabs", owner, expelled)
  /\ UNCHANGED <<serviceVars, proc, alert, menuLoaded, requestVars>>

\* The menu tab loads its sections when it is shown.
OpenMenu ==
  /\ Touchable("tabs")
  /\ menuLoaded' = TRUE
  /\ UNCHANGED <<serviceVars, proc, screen, alert, nav, ownMenu, covered, requestVars,
                 ownerVars>>

\* A row of the menu: the handlers are those of the first menu of the process.
TapMenu(message) ==
  /\ Touchable("tabs")
  /\ menuLoaded
  /\ Present(ownMenu, message)
  /\ UNCHANGED <<serviceVars, proc, screen, navVars, requestVars, ownerVars>>

\* Mutant: the user is signed out and left where he is.
Logout_Stays ==
  /\ Up
  /\ alert = "leaveConfirmation"
  /\ alert' = "none"
  /\ SignedOut
  /\ UNCHANGED <<accounts, active, proc, screen, navVars, requestVars, ownerVars>>

\* Ok of leaveConfirmation.
Logout ==
  /\ Up
  /\ alert = "leaveConfirmation"
  /\ alert' = "none"
  /\ SignedOut
  /\ Push("menu", "login", Nobody, FALSE)
  /\ UNCHANGED <<accounts, active, proc, menuLoaded, requestVars>>

\* Mutant: the account is removed of the user and of nobody else, if any.
RemoveData_Always ==
  /\ Up
  /\ alert = "removeData"
  /\ alert' = "none"
  /\ removing' = removing \cup {currentUser}
  /\ asks' = asks \cup {"removal"}
  /\ UNCHANGED <<accounts, active, currentUser, isEmailVerified, proc, screen, navVars,
                 signInVars, creating, removed, ownerVars>>

\* Ok of removeData: user?.delete.  (Bound: one removal of an account at a time.)
RemoveData ==
  /\ Up
  /\ alert = "removeData"
  /\ alert' = "none"
  /\ currentUser \notin removing
  /\ Asks("removal")
  /\ removing' = removing \cup {currentUser}
  /\ UNCHANGED <<proc, screen, navVars, signInVars, creating, removed, ownerVars>>

\* The service has removed the account, and its FIRUser is signed out.  (Bound:
\* one completion waits at a time.)
RemovalAnswered(e) ==
  /\ Up
  /\ e \in removing /\ ~removed
  /\ removing' = removing \ {e}
  /\ removed' = TRUE
  /\ AccountsRemoved({e})
  /\ SignOutByForce("removal", e)
  /\ UNCHANGED <<proc, screen, alert, navVars, signInVars, creating, ownerVars>>

\* delete's completion: the login screen; or the alert of its error.
RemovalDone ==
  /\ Up
  /\ removed
  /\ removed' = FALSE
  /\ Push("menu", "login", Nobody, FALSE)
  /\ UNCHANGED <<serviceVars, proc, alert, menuLoaded, signInVars, creating, removing>>

RemovalEnds(e) ==
  /\ Up
  /\ e \in removing
  /\ removing' = removing \ {e}
  /\ Present(screen = "tabs" /\ ownMenu, "errorOccurred")
  /\ UNCHANGED <<proc, screen, navVars, signInVars, creating, removed, owner>>

\* The service refuses, or its answer is lost after the account was removed.
RemovalFails(e) ==
  /\ RemovalEnds(e)
  /\ Answered("removal", e)
  /\ AccountsRemoved({e}) \/ UNCHANGED <<accounts, active>>
  /\ UNCHANGED expelled

\* The service takes the user's token no more: the SDK signs this FIRUser out.
RemovalRefused(e) ==
  /\ RemovalEnds(e)
  /\ SignOutByForce("removal", e)
  /\ expelled' = (expelled \/ (currentUser # Nobody /\ currentUser' = Nobody))
  /\ UNCHANGED <<accounts, active>>

-----------------------------------------------------------------------------
(* The rest of the app and of the world *)

\* The sign-up screen creates an account, which signs its user in; or the account
\* is made and nobody is signed in.  (Bound: one completion waits at a time.
\* Passwords play no part in this module: an e-mail stands for its own.)
SignUpCreates ==
  /\ Up
  /\ ~creating
  /\ \E e \in Texts : LET c == [email |-> e, password |-> e] IN
       \/ Created(c) /\ creating' = TRUE
       \/ AccountMade(c) /\ UNCHANGED <<userVars, creating>>
  /\ UNCHANGED <<proc, screen, alert, navVars, signInVars, removalVars, ownerVars>>

\* Its completion asks for an activation mail of whoever is signed in by then.
SignUpCompletes ==
  /\ Up
  /\ creating
  /\ creating' = FALSE
  /\ IF currentUser # Nobody /\ ~isEmailVerified THEN Asks("mail") ELSE UNCHANGED serviceVars
  /\ UNCHANGED <<proc, screen, alert, navVars, signInVars, removalVars, ownerVars>>

FollowsLink ==
  /\ \E e \in EmailsOf(accounts) : Activate(e)
  /\ UNCHANGED <<proc, screen, alert, navVars, requestVars, ownerVars>>

\* The process is killed, or has trapped, and starts again.
Relaunch == proc' = "up" /\ Ended

NoRequest ==
  /\ signingIn = NoSignIn /\ signedIn = NoSignIn
  /\ ~creating /\ removing = {} /\ ~removed

AsksService == (\E e \in Texts : Login(e)) \/ OpenGoogle \/ SignUpCreates

OtherTouch ==
  \/ DismissAlert \/ SendVerificationMail \/ CancelGoogle \/ EnterWithGoogle \/ LeaveDemo
  \/ OpenMenu \/ TapMenu("leaveConfirmation") \/ TapMenu("removeData") \/ Logout \/ RemoveData

ServiceStep ==
  \/ \E n \in Navs, e \in Texts :
       \/ SignInFails(n, e) \/ SignInAnswered(n, e) \/ Enter(n, e) \/ AskToVerify(n, e)
  \/ UnwrapsNil
  \/ MailAnswered \/ MailRefused \/ SignUpCompletes
  \/ \E e \in Texts : RemovalAnswered(e) \/ RemovalFails(e) \/ RemovalRefused(e)
  \/ RemovalDone

\* A user who waits asks the account service for nothing while an answer is
\* outstanding (that of an activation mail does not show), and goes on from the
\* login screen only.  Nothing enforces it.
Next ==
  \/ AsksService /\ hurried' = (hurried \/ ~NoRequest \/ ~Touchable("login"))
  \/ (OtherTouch \/ ServiceStep \/ FollowsLink) /\ UNCHANGED hurried
  \/ Relaunch /\ hurried' = FALSE

Spec == Init /\ [][Next]_vars

-----------------------------------------------------------------------------
(* Properties *)

\* The user the SDK holds is there whenever the login screen unwraps it
\* (LoginViewController.swift:135, :137), if the user of the app waits.
NilNeverUnwrapped == ~hurried => proc = "up"

\* Who waits and has come in by e-mail is, in the onboarding and in the tabs,
\* signed in as the one who came in, with a verified e-mail, until a removal is
\* confirmed and unless the service refuses his token: logging out, coming back,
\* users kept from earlier launches, accounts made meanwhile and menus with the
\* first menu's handlers included.
TabsBelongToUser ==
  /\ ~hurried
  /\ screen \in {"demo", "tabs"}
  /\ owner \in Texts
  /\ removing = {} /\ ~removed /\ ~expelled
  => currentUser = owner /\ isEmailVerified

\* For every user: who came in by e-mail is left in the onboarding or the tabs
\* with nobody signed in only if a late answer to an impatient sign-in has
\* covered the menu's navigation, until the removal's completion has run, or
\* after a request that the service refused (the app shows its error and stays).
SignedOutIsShown ==
  /\ screen \in {"demo", "tabs"}
  /\ owner \in Texts
  /\ currentUser = Nobody
  => covered \/ removed \/ expelled

\* Refinement: signing in, logging out, removing the account and the relaunch
\* together do what Access promises.
App == INSTANCE Access WITH
  entitled <- active \cap EmailsOf(accounts),
  inside <- IF screen = "login" THEN Nobody ELSE owner,
  leaving <- removing,
  orderly <- ~hurried

AccessImplemented == App!Spec

\* removeDataMessage (RastreioBF.strings:74): what is removed is the account of
\* the user who confirms it.
RemovalRemovesMine ==
  [][\A e \in removing' \ removing : e = owner]_vars
=============================================================================
