--------------------------- MODULE SessionProofs ---------------------------
(***************************************************************************)
(* Session keeps its types, for every user, any accounts and any number of *)
(* unanswered sign-ins, and nobody is left in the tabs signed out for any  *)
(* other reason than a covered navigation, a removal on its way or a       *)
(* refused token.  Who waits never unwraps a user that is gone and is the  *)
(* user the SDK holds, and the session implements Access.                  *)
(***************************************************************************)
EXTENDS Session, TLAPS

USE ServiceAssumption, SessionAssumption

Counts == [Navs -> [Texts -> Nat]]

NavTypeOK ==
  /\ screen \in {"login", "demo", "tabs"}
  /\ nav \in Navs
  /\ menuLoaded \in BOOLEAN
  /\ ownMenu \in BOOLEAN
  /\ covered \in BOOLEAN
  /\ owner \in Texts \cup {Nobody, Google}
  /\ expelled \in BOOLEAN

RestTypeOK ==
  /\ proc \in {"up", "nilUser"}
  /\ alert \in Alerts
  /\ signingIn \in Counts
  /\ signedIn \in Counts
  /\ creating \in BOOLEAN
  /\ removing \subseteq Texts
  /\ removed \in BOOLEAN

AccountTypeOK == ServiceTypeOK /\ asks \subseteq {"mail", "removal"}

\* TypeOK, in the parts an action changes together.
Typed == AccountTypeOK /\ NavTypeOK /\ RestTypeOK

\* One sign-in more or less.
LEMMA CountsMore ==
  ASSUME NEW f \in Counts, NEW g, NEW n \in Navs, NEW e \in Texts,
         g = [f EXCEPT ![n][e] = @ + 1]
  PROVE  /\ g \in Counts
         /\ \A m \in Navs, d \in Texts :
              g[m][d] = IF m = n /\ d = e THEN f[n][e] + 1 ELSE f[m][d]
<1> DEFINE k == f[n][e] + 1
<1>1. k \in Nat /\ g = [f EXCEPT ![n][e] = k]
  BY DEF Counts
<1> HIDE DEF k
<1>2. /\ g \in Counts
      /\ \A m \in Navs, d \in Texts : g[m][d] = IF m = n /\ d = e THEN k ELSE f[m][d]
  BY <1>1 DEF Counts
<1> QED
  BY <1>2 DEF k

LEMMA CountsLess ==
  ASSUME NEW f \in Counts, NEW g, NEW n \in Navs, NEW e \in Texts, f[n][e] > 0,
         g = [f EXCEPT ![n][e] = @ - 1]
  PROVE  /\ g \in Counts
         /\ \A m \in Navs, d \in Texts :
              g[m][d] = IF m = n /\ d = e THEN f[n][e] - 1 ELSE f[m][d]
<1> DEFINE k == f[n][e] - 1
<1>1. k \in Nat /\ g = [f EXCEPT ![n][e] = k]
  BY DEF Counts
<1> HIDE DEF k
<1>2. /\ g \in Counts
      /\ \A m \in Navs, d \in Texts : g[m][d] = IF m = n /\ d = e THEN k ELSE f[m][d]
  BY <1>1 DEF Counts
<1> QED
  BY <1>2 DEF k

LEMMA PushType ==
  ASSUME NavTypeOK, NEW n \in Navs, NEW s \in {"login", "demo", "tabs"},
         NEW p \in Texts \cup {Nobody, Google}, NEW r \in BOOLEAN, Push(n, s, p, r),
         menuLoaded' \in BOOLEAN
  PROVE  NavTypeOK'
BY DEF NavTypeOK, Push, ownerVars

LEMMA PresentType ==
  ASSUME alert \in Alerts, NEW inFront \in BOOLEAN, NEW m \in Alerts, Present(inFront, m)
  PROVE  alert' \in Alerts
BY DEF Present

LEMMA NoSignInType == NoSignIn \in Counts
BY DEF NoSignIn, Counts

LEMMA EndedType ==
  ASSUME Typed, Ended, proc' \in {"up", "nilUser"}
  PROVE  Typed'
<1>1. AccountTypeOK'
  BY DEF Ended, Typed, AccountTypeOK, ServiceTypeOK
<1>2. NavTypeOK'
  BY DEF Ended, NavTypeOK, Navs
<1>3. RestTypeOK'
  BY NoSignInType DEF Ended, RestTypeOK, Alerts
<1> QED
  BY <1>1, <1>2, <1>3 DEF Typed

LEMMA TypeInit == Init => Typed
<1> SUFFICES ASSUME Init PROVE Typed
  OBVIOUS
<1>1. AccountTypeOK
  BY DEF Init, ServiceInit, AccountTypeOK, ServiceTypeOK, EmailsOf, Credentials
<1>2. NavTypeOK
  BY DEF Init, NavTypeOK, Navs
<1>3. RestTypeOK
  BY NoSignInType DEF Init, RestTypeOK, Alerts
<1> QED
  BY <1>1, <1>2, <1>3 DEF Typed

\* What the operations of the service do to its types.
LEMMA UserType ==
  ASSUME AccountTypeOK, UNCHANGED <<accounts, active>>, NEW e, NEW q,
         \/ e \in Texts /\ SignedIn(e)
         \/ SignedOut \/ Answered(q, e) \/ SignOutByForce(q, e)
         \/ UNCHANGED userVars
  PROVE  AccountTypeOK'
<1> USE DEF AccountTypeOK, ServiceTypeOK
<1>1. CASE e \in Texts /\ SignedIn(e)
  BY <1>1 DEF SignedIn
<1>2. CASE SignedOut
  BY <1>2 DEF SignedOut
<1>3. CASE Answered(q, e)
  BY <1>3 DEF Answered
<1>4. CASE SignOutByForce(q, e)
  BY <1>4 DEF SignOutByForce, SignedOut, userVars
<1>5. CASE UNCHANGED userVars
  BY <1>5 DEF userVars
<1> QED
  BY <1>1, <1>2, <1>3, <1>4, <1>5

LEMMA AccountsType ==
  ASSUME AccountTypeOK, NEW e
  PROVE  /\ \A c \in Credentials :
              Created(c) \/ (AccountMade(c) /\ UNCHANGED userVars) => AccountTypeOK'
         /\ \A q \in {"mail", "removal"} : Asks(q) => AccountTypeOK'
         /\ \A q : AccountsRemoved({e}) /\ (Answered(q, e) \/ SignOutByForce(q, e))
              => AccountTypeOK'
         /\ (\E d \in EmailsOf(accounts) : Activate(d)) => AccountTypeOK'
         /\ UNCHANGED serviceVars => AccountTypeOK'
<1> USE DEF AccountTypeOK, ServiceTypeOK, userVars
<1>1. \A c \in Credentials :
        Created(c) \/ (AccountMade(c) /\ UNCHANGED userVars) => AccountTypeOK'
  <2> SUFFICES ASSUME NEW c \in Credentials,
                      Created(c) \/ (AccountMade(c) /\ UNCHANGED userVars)
               PROVE  AccountTypeOK'
    OBVIOUS
  <2>1. accounts' \subseteq Credentials /\ active' \subseteq Texts
    BY DEF Created, AccountMade
  <2>2. c.email \in Texts
    BY DEF Credentials
  <2>3. CASE SignedIn(c.email)
    BY <2>1, <2>2, <2>3 DEF SignedIn
  <2>4. CASE UNCHANGED userVars
    BY <2>1, <2>4
  <2> QED
    BY <2>3, <2>4 DEF Created
<1>2. \A q \in {"mail", "removal"} : Asks(q) => AccountTypeOK'
  BY DEF Asks
<1>3. \A q : AccountsRemoved({e}) /\ (Answered(q, e) \/ SignOutByForce(q, e)) => AccountTypeOK'
  BY DEF AccountsRemoved, Answered, SignOutByForce, SignedOut
<1>4. (\E d \in EmailsOf(accounts) : Activate(d)) => AccountTypeOK'
  BY DEF Activate, EmailsOf, Credentials
<1>5. UNCHANGED serviceVars => AccountTypeOK'
  BY DEF serviceVars
<1> QED
  BY <1>1, <1>2, <1>3, <1>4, <1>5

LEMMA Unserved == AccountTypeOK /\ UNCHANGED serviceVars => AccountTypeOK'
BY AccountsType

LEMMA AsksType ==
  ASSUME Typed, AsksService
  PROVE  Typed'
<1> USE DEF Typed
<1>1. CASE \E e \in Texts : Login(e)
  <2>1. PICK e \in Texts : Login(e)
    BY <1>1
  <2>2. signingIn' \in Counts
    BY <2>1, CountsMore DEF Login, NavTypeOK, RestTypeOK
  <2> QED
    BY <2>1, <2>2, Unserved DEF Login, NavTypeOK, RestTypeOK, navVars, removalVars, ownerVars
<1>2. CASE OpenGoogle
  BY <1>2, Unserved DEF OpenGoogle, NavTypeOK, RestTypeOK, navVars, requestVars, signInVars,
     removalVars, ownerVars, Alerts
<1>3. CASE SignUpCreates
  <2>1. PICK e \in Texts : LET c == [email |-> e, password |-> e] IN
          \/ Created(c) /\ creating' = TRUE
          \/ AccountMade(c) /\ UNCHANGED <<userVars, creating>>
    BY <1>3 DEF SignUpCreates
  <2>2. [email |-> e, password |-> e] \in Credentials
    BY DEF Credentials
  <2>3. AccountTypeOK'
    BY <2>1, <2>2, AccountsType
  <2>4. creating' \in BOOLEAN
    BY <2>1 DEF RestTypeOK
  <2> QED
    BY <1>3, <2>3, <2>4 DEF SignUpCreates, NavTypeOK, RestTypeOK, navVars, signInVars,
       removalVars, ownerVars
<1> QED
  BY <1>1, <1>2, <1>3 DEF AsksService

LEMMA TouchType ==
  ASSUME Typed, OtherTouch
  PROVE  Typed'
<1> USE Unserved DEF Typed, requestVars, signInVars, removalVars
<1>1. CASE DismissAlert \/ CancelGoogle \/ OpenMenu
  <2>1. CASE DismissAlert
    BY <2>1 DEF DismissAlert, NavTypeOK, RestTypeOK, navVars, ownerVars, Alerts
  <2>2. CASE CancelGoogle
    BY <2>2 DEF CancelGoogle, NavTypeOK, RestTypeOK, navVars, ownerVars, Alerts
  <2>3. CASE OpenMenu
    BY <2>3 DEF OpenMenu, NavTypeOK, RestTypeOK, ownerVars
  <2> QED
    BY <1>1, <2>1, <2>2, <2>3
<1>2. CASE SendVerificationMail
  <2>1. AccountTypeOK'
    BY <1>2, AccountsType DEF SendVerificationMail
  <2> QED
    BY <1>2, <2>1 DEF SendVerificationMail, NavTypeOK, RestTypeOK, navVars, ownerVars, Alerts
<1>3. CASE EnterWithGoogle \/ LeaveDemo
  <2>1. NavTypeOK'
    BY <1>3, PushType DEF EnterWithGoogle, LeaveDemo, NavTypeOK
  <2> QED
    BY <1>3, <2>1 DEF EnterWithGoogle, LeaveDemo, RestTypeOK, Alerts
<1>4. CASE TapMenu("leaveConfirmation") \/ TapMenu("removeData")
  <2>1. alert' \in Alerts
    BY <1>4, PresentType DEF TapMenu, Alerts, NavTypeOK, RestTypeOK
  <2> QED
    BY <1>4, <2>1 DEF TapMenu, NavTypeOK, RestTypeOK, navVars, ownerVars
<1>5. CASE Logout
  <2>1. NavTypeOK'
    BY <1>5, PushType DEF Logout, NavTypeOK, Navs
  <2>2. AccountTypeOK'
    BY <1>5, UserType DEF Logout
  <2> QED
    BY <1>5, <2>1, <2>2 DEF Logout, RestTypeOK, Alerts
<1>6. CASE RemoveData
  <2>1. AccountTypeOK'
    BY <1>6, AccountsType DEF RemoveData
  <2>2. removing' \subseteq Texts
    BY <1>6 DEF RemoveData, Asks, AccountTypeOK, ServiceTypeOK, RestTypeOK
  <2> QED
    BY <1>6, <2>1, <2>2 DEF RemoveData, NavTypeOK, RestTypeOK, navVars, ownerVars, Alerts
<1> QED
  BY <1>1, <1>2, <1>3, <1>4, <1>5, <1>6 DEF OtherTouch

LEMMA SignInType ==
  ASSUME Typed, NEW n \in Navs, NEW e \in Texts,
         \/ SignInFails(n, e) \/ SignInAnswered(n, e) \/ Enter(n, e) \/ AskToVerify(n, e)
  PROVE  Typed'
<1> USE DEF Typed, removalVars
<1>1. CASE SignInFails(n, e)
  <2>1. signingIn' \in Counts
    BY <1>1, CountsLess DEF SignInFails, RestTypeOK
  <2> QED
    BY <1>1, <2>1, Unserved DEF SignInFails, NavTypeOK, RestTypeOK, navVars, ownerVars
<1>2. CASE SignInAnswered(n, e)
  <2>1. signingIn' \in Counts
    <3>1. signingIn \in Counts
      BY DEF RestTypeOK
    <3>2. signingIn[n][e] > 0 /\ signingIn' = [signingIn EXCEPT ![n][e] = @ - 1]
      BY <1>2 DEF SignInAnswered
    <3> QED
      BY <3>1, <3>2, CountsLess
  <2>2. signedIn' \in Counts
    BY <1>2, CountsMore DEF SignInAnswered, RestTypeOK
  <2>3. AccountTypeOK'
    BY <1>2, UserType DEF SignInAnswered
  <2>4. NavTypeOK'
    BY <1>2 DEF SignInAnswered, NavTypeOK, navVars, ownerVars
  <2>5. RestTypeOK'
    BY <1>2, <2>1, <2>2 DEF SignInAnswered, RestTypeOK
  <2> QED
    BY <2>3, <2>4, <2>5
<1>3. CASE Enter(n, e)
  <2>1. NavTypeOK'
    <3>1. PICK s \in {"demo", "tabs"} : Push(n, s, e, FALSE)
      BY <1>3 DEF Enter
    <3>2. NavTypeOK /\ menuLoaded' \in BOOLEAN
      BY <1>3 DEF Enter, Completed, NavTypeOK
    <3> QED
      BY <3>1, <3>2, PushType
  <2>2. signedIn' \in Counts
    BY <1>3, CountsLess DEF Enter, Completed, RestTypeOK
  <2> QED
    BY <1>3, <2>1, <2>2, Unserved DEF Enter, Completed, RestTypeOK
<1>4. CASE AskToVerify(n, e)
  <2>1. alert' \in Alerts
    BY <1>4, PresentType DEF AskToVerify, RestTypeOK, Alerts
  <2>2. signedIn' \in Counts
    BY <1>4, CountsLess DEF AskToVerify, Completed, RestTypeOK
  <2>3. AccountTypeOK'
    BY <1>4, Unserved DEF AskToVerify, Completed
  <2>4. NavTypeOK'
    BY <1>4 DEF AskToVerify, Completed, NavTypeOK, ownerVars
  <2>5. RestTypeOK'
    BY <1>4, <2>1, <2>2 DEF AskToVerify, Completed, RestTypeOK
  <2> QED
    BY <2>3, <2>4, <2>5
<1> QED
  BY <1>1, <1>2, <1>3, <1>4

LEMMA RemovalType ==
  ASSUME Typed, NEW e \in Texts,
         RemovalAnswered(e) \/ RemovalFails(e) \/ RemovalRefused(e)
  PROVE  Typed'
<1> USE DEF Typed, signInVars
<1>1. CASE RemovalAnswered(e)
  <2>1. AccountTypeOK'
    BY <1>1, AccountsType DEF RemovalAnswered
  <2> QED
    BY <1>1, <2>1 DEF RemovalAnswered, NavTypeOK, RestTypeOK, navVars, ownerVars
<1>2. CASE RemovalFails(e) \/ RemovalRefused(e)
  <2>1. alert' \in Alerts
    BY <1>2, PresentType DEF RemovalFails, RemovalRefused, RemovalEnds, NavTypeOK, RestTypeOK,
       Alerts
  <2>2. AccountTypeOK'
    BY <1>2, AccountsType, UserType DEF RemovalFails, RemovalRefused
  <2>3. expelled' \in BOOLEAN
    BY <1>2 DEF RemovalFails, RemovalRefused, NavTypeOK
  <2> QED
    BY <1>2, <2>1, <2>2, <2>3
       DEF RemovalFails, RemovalRefused, RemovalEnds, NavTypeOK, RestTypeOK, navVars
<1> QED
  BY <1>1, <1>2

LEMMA ServiceType ==
  ASSUME Typed, ServiceStep
  PROVE  Typed'
<1> USE DEF Typed, requestVars, signInVars, removalVars
<1>1. CASE UnwrapsNil
  BY <1>1, EndedType DEF UnwrapsNil
<1>2. CASE MailAnswered \/ MailRefused
  <2>1. AccountTypeOK'
    BY <1>2, UserType DEF MailAnswered, MailRefused
  <2>2. CASE MailAnswered
    BY <2>1, <2>2 DEF MailAnswered, NavTypeOK, RestTypeOK, navVars, ownerVars
  <2>3. CASE MailRefused
    BY <2>1, <2>3 DEF MailRefused, NavTypeOK, RestTypeOK, navVars
  <2> QED
    BY <1>2, <2>2, <2>3
<1>3. CASE SignUpCompletes
  <2>1. AccountTypeOK'
    BY <1>3, AccountsType DEF SignUpCompletes
  <2> QED
    BY <1>3, <2>1 DEF SignUpCompletes, NavTypeOK, RestTypeOK, navVars, ownerVars
<1>4. CASE RemovalDone
  <2>1. NavTypeOK'
    BY <1>4, PushType DEF RemovalDone, NavTypeOK, Navs
  <2> QED
    BY <1>4, <2>1, Unserved DEF RemovalDone, RestTypeOK
<1> QED
  BY <1>1, <1>2, <1>3, <1>4, SignInType, RemovalType DEF ServiceStep

LEMMA TypedNext == Typed /\ [Next]_vars => Typed'
<1> SUFFICES ASSUME Typed, [Next]_vars PROVE Typed'
  OBVIOUS
<1> USE DEF Typed, requestVars, signInVars, removalVars
<1>1. CASE FollowsLink
  <2>1. AccountTypeOK'
    BY <1>1, AccountsType DEF FollowsLink
  <2>2. NavTypeOK'
    BY <1>1 DEF FollowsLink, NavTypeOK, navVars, ownerVars
  <2>3. RestTypeOK'
    BY <1>1 DEF FollowsLink, RestTypeOK
  <2> QED
    BY <2>1, <2>2, <2>3
<1>2. CASE Relaunch
  BY <1>2, EndedType DEF Relaunch
<1>3. CASE UNCHANGED vars
  BY <1>3, Unserved DEF vars, NavTypeOK, RestTypeOK, navVars, ownerVars
<1> QED
  BY <1>1, <1>2, <1>3, AsksType, TouchType, ServiceType DEF Next

\* Every state of the session has its type, for every user.
THEOREM TypeCorrect == Spec => []TypeOK
<1> DEFINE HurriedType == hurried \in BOOLEAN
<1>1. Typed /\ HurriedType => TypeOK
  BY DEF Typed, TypeOK, AccountTypeOK, NavTypeOK, RestTypeOK, Counts
<1>2. Init => HurriedType
  BY DEF Init
<1>3. HurriedType /\ [Next]_vars => HurriedType'
  BY DEF Next, vars
<1> QED
  BY <1>1, <1>2, <1>3, TypeInit, TypedNext, PTL DEF Spec

-----------------------------------------------------------------------------
(* Signed out in the tabs *)

LEMMA SignedOutNext == Typed /\ SignedOutIsShown /\ [Next]_vars => SignedOutIsShown'
<1> SUFFICES ASSUME Typed, SignedOutIsShown, [Next]_vars PROVE SignedOutIsShown'
  OBVIOUS
<1> USE DEF SignedOutIsShown
<1>0. currentUser \in Texts \cup {Nobody}
  BY DEF Typed, AccountTypeOK, ServiceTypeOK
<1>1. CASE UNCHANGED <<screen, ownerVars, covered, currentUser, removed>>
  BY <1>1 DEF ownerVars
<1>2. CASE EnterWithGoogle \/ LeaveDemo
  BY <1>2 DEF EnterWithGoogle, LeaveDemo, Touchable, Push, ownerVars, serviceVars, userVars,
     requestVars, removalVars, Typed, NavTypeOK
<1>3. CASE Logout \/ RemovalDone
  BY <1>3 DEF Logout, RemovalDone, Push, ownerVars, Navs
<1>4. CASE \E n \in Navs, e \in Texts : Enter(n, e)
  BY <1>4 DEF Enter, Completed, serviceVars, userVars
<1>5. CASE \E n \in Navs, e \in Texts : SignInAnswered(n, e)
  BY <1>5 DEF SignInAnswered, SignedIn
<1>6. CASE SignUpCreates
  BY <1>1, <1>6 DEF SignUpCreates, Created, SignedIn, ownerVars, userVars, navVars, removalVars
<1>7. CASE \E e \in Texts : RemovalAnswered(e)
  BY <1>7 DEF RemovalAnswered
<1>8. CASE UnwrapsNil \/ Relaunch
  BY <1>8 DEF UnwrapsNil, Relaunch, Ended
<1>9. CASE MailRefused
  BY <1>9 DEF MailRefused
<1>10. CASE \E e \in Texts : RemovalRefused(e)
  <2>1. /\ UNCHANGED <<screen, owner, covered, removed>>
        /\ expelled' = (expelled \/ (currentUser # Nobody /\ currentUser' = Nobody))
    BY <1>10 DEF RemovalRefused, RemovalEnds, navVars
  <2> QED
    BY <2>1
<1>11. CASE MailAnswered \/ SendVerificationMail \/ SignUpCompletes \/ RemoveData
  BY <1>1, <1>11 DEF MailAnswered, SendVerificationMail, SignUpCompletes, RemoveData, Answered,
     Asks, serviceVars, userVars, navVars, requestVars, removalVars
<1>12. CASE \E e \in Texts : RemovalFails(e)
  BY <1>1, <1>12 DEF RemovalFails, RemovalEnds, Answered, ownerVars, navVars
<1>13. CASE \/ AsksService /\ ~SignUpCreates
            \/ DismissAlert \/ CancelGoogle \/ OpenMenu
            \/ TapMenu("leaveConfirmation") \/ TapMenu("removeData")
  BY <1>1, <1>13 DEF AsksService, Login, OpenGoogle, DismissAlert, CancelGoogle, OpenMenu,
     TapMenu, serviceVars, userVars, navVars, requestVars, removalVars
<1>14. CASE FollowsLink \/ \E n \in Navs, e \in Texts : SignInFails(n, e) \/ AskToVerify(n, e)
  BY <1>1, <1>14 DEF FollowsLink, SignInFails, AskToVerify, Completed, Activate, serviceVars,
     userVars, navVars, requestVars, removalVars
<1>15. CASE UNCHANGED vars
  BY <1>1, <1>15 DEF vars, serviceVars, userVars, navVars, requestVars, removalVars
<1> QED
  BY <1>2, <1>3, <1>4, <1>5, <1>6, <1>7, <1>8, <1>9, <1>10, <1>11, <1>12, <1>13, <1>14, <1>15
     DEF Next, OtherTouch, ServiceStep

\* Whatever the user taps and in whatever order the answers come: who is left
\* in the tabs with nobody signed in has a covered menu, a removal to end or a
\* token the service has refused.
THEOREM LeavesNobodySignedOut == Spec => []SignedOutIsShown
<1>1. Init => SignedOutIsShown
  BY DEF Init, SignedOutIsShown
<1> QED
  BY <1>1, TypeInit, TypedNext, SignedOutNext, PTL DEF Spec
-----------------------------------------------------------------------------
(* The user who waits *)

Idle == \A n \in Navs, e \in Texts : signingIn[n][e] = 0 /\ signedIn[n][e] = 0

\* At most one sign-in is unfinished, and the user is before its login screen.
OneSignIn ==
  \A n \in Navs, e \in Texts : signingIn[n][e] > 0 \/ signedIn[n][e] > 0 =>
    /\ signingIn[n][e] + signedIn[n][e] = 1
    /\ \A m \in Navs, d \in Texts :
         signingIn[m][d] > 0 \/ signedIn[m][d] > 0 => m = n /\ d = e
    /\ n = nav /\ screen = "login" /\ alert = "none"
    /\ ~creating /\ removing = {} /\ ~removed

\* Between its answer and its completion nothing happens to the user.
AnsweredIsCurrent ==
  \A n \in Navs, e \in Texts : signedIn[n][e] > 0 =>
    /\ currentUser = e /\ asks = {}
    /\ isEmailVerified => e \in active \cap EmailsOf(accounts)

AlertsFit ==
  /\ alert \in {"google", "wrongEmailSignin"} =>
       screen = "login" /\ Idle /\ ~creating /\ removing = {} /\ ~removed
  /\ alert = "wrongEmailSignin" => currentUser # Nobody /\ asks = {}
  /\ alert \in {"leaveConfirmation", "removeData"} => screen = "tabs" \/ currentUser = Nobody

CreatingFits ==
  creating => screen = "login" /\ alert = "none" /\ removing = {} /\ ~removed

\* A removal is that of the current user, or of nobody who is signed in.
RemovalFits ==
  /\ removing # {} /\ currentUser # Nobody => removing = {currentUser} /\ "removal" \in asks
  /\ removed => currentUser = Nobody
  /\ "removal" \in asks => removing = {currentUser}

\* Who has come in by e-mail is the current user, or the SDK has signed him out.
OwnerInside ==
  screen # "login" =>
    /\ owner # Nobody
    /\ owner \in Texts =>
         /\ currentUser = owner => isEmailVerified
         /\ currentUser # owner => currentUser = Nobody /\ (removed \/ expelled)

\* The screen pushed next is seen: no tab bar of a loaded menu is below.
NothingCovered == ~covered /\ (screen # "tabs" /\ nav = "root" => ~menuLoaded)

Fits == AlertsFit /\ CreatingFits /\ RemovalFits /\ OwnerInside /\ NothingCovered

Waits == proc = "up" /\ OneSignIn /\ AnsweredIsCurrent /\ Fits

WaitingInv == ~hurried => Waits

LEMMA WaitsInit == Init => Waits
BY DEF Init, ServiceInit, Waits, OneSignIn, AnsweredIsCurrent, Fits, AlertsFit, CreatingFits,
   RemovalFits, OwnerInside, NothingCovered, NoSignIn

\* With anything else under way no sign-in is.
LEMMA IdleElsewhere ==
  ASSUME Typed, OneSignIn,
         screen # "login" \/ alert # "none" \/ creating \/ removing # {} \/ removed
  PROVE  Idle
<1> SUFFICES ASSUME NEW n \in Navs, NEW e \in Texts
             PROVE  signingIn[n][e] = 0 /\ signedIn[n][e] = 0
  BY DEF Idle
<1>1. signingIn[n][e] \in Nat /\ signedIn[n][e] \in Nat
  BY DEF Typed, RestTypeOK, Counts
<1> QED
  BY <1>1 DEF OneSignIn

LEMMA IdleIsOne ==
  ASSUME Idle' PROVE OneSignIn' /\ AnsweredIsCurrent'
BY DEF Idle, OneSignIn, AnsweredIsCurrent

\* An action that leaves the sign-ins alone when there are none.
LEMMA WaitsIdle ==
  ASSUME Idle, UNCHANGED <<proc, signInVars>>, proc = "up", Fits'
  PROVE  Waits'
<1>1. Idle'
  BY DEF Idle, signInVars
<1> QED
  BY <1>1, IdleIsOne DEF Waits

-----------------------------------------------------------------------------
(* His requests and touches *)

LEMMA WaitsAsks ==
  ASSUME Typed, Waits, AsksService, NoRequest, Touchable("login")
  PROVE  Waits'
<1> USE DEF Waits
<1>0. /\ Idle /\ screen = "login" /\ alert = "none"
      /\ ~creating /\ removing = {} /\ ~removed
  BY DEF NoRequest, NoSignIn, Idle, Touchable
<1>1. CASE \E e \in Texts : Login(e)
  <2>1. PICK e \in Texts : Login(e)
    BY <1>1
  <2>2. /\ signingIn' = [signingIn EXCEPT ![nav][e] = @ + 1]
        /\ signingIn \in Counts /\ signedIn \in Counts /\ nav \in Navs
    BY <2>1 DEF Login, Typed, NavTypeOK, RestTypeOK
  <2>3. \A m \in Navs, d \in Texts :
          signingIn'[m][d] = IF m = nav /\ d = e THEN signingIn[nav][e] + 1 ELSE signingIn[m][d]
    <3> DEFINE k == signingIn[nav][e] + 1
    <3>1. signingIn' = [signingIn EXCEPT ![nav][e] = k]
      BY <2>2
    <3> HIDE DEF k
    <3>2. \A m \in Navs, d \in Texts :
            signingIn'[m][d] = IF m = nav /\ d = e THEN k ELSE signingIn[m][d]
      BY <2>2, <3>1 DEF Counts
    <3> QED
      BY <3>2 DEF k
  <2>4. \A m \in Navs, d \in Texts :
          signingIn'[m][d] = (IF m = nav /\ d = e THEN 1 ELSE 0) /\ signedIn'[m][d] = 0
    BY <1>0, <2>1, <2>2, <2>3 DEF Login, Idle
  <2>5. UNCHANGED <<serviceVars, proc, screen, alert, navVars, creating, removalVars, ownerVars>>
    BY <2>1 DEF Login
  <2>6. OneSignIn' /\ AnsweredIsCurrent'
    BY <1>0, <2>4, <2>5 DEF OneSignIn, AnsweredIsCurrent, navVars, removalVars
  <2>7. Fits'
    BY <1>0, <2>5 DEF Fits, AlertsFit, CreatingFits, RemovalFits, OwnerInside, NothingCovered,
       navVars, removalVars, ownerVars, serviceVars, userVars
  <2> QED
    BY <2>5, <2>6, <2>7
<1>2. CASE OpenGoogle
  <2>1. UNCHANGED <<serviceVars, proc, screen, navVars, requestVars, ownerVars>>
        /\ alert' = "google"
    BY <1>2 DEF OpenGoogle
  <2>2. Idle'
    BY <1>0, <2>1 DEF Idle, requestVars, signInVars
  <2>3. Fits'
    BY <1>0, <2>1, <2>2 DEF Fits, AlertsFit, CreatingFits, RemovalFits, OwnerInside,
       NothingCovered, navVars, requestVars, removalVars, ownerVars, serviceVars, userVars
  <2> QED
    BY <2>1, <2>2, <2>3, IdleIsOne
<1>3. CASE SignUpCreates
  <2>1. PICK e \in Texts : LET c == [email |-> e, password |-> e] IN
          \/ Created(c) /\ creating' = TRUE
          \/ AccountMade(c) /\ UNCHANGED <<userVars, creating>>
    BY <1>3 DEF SignUpCreates
  <2>2. UNCHANGED <<proc, screen, alert, navVars, signInVars, removalVars, ownerVars>>
    BY <1>3 DEF SignUpCreates
  <2>3. asks' = {} \/ UNCHANGED <<asks, currentUser>>
    BY <2>1 DEF Created, SignedIn, userVars
  <2>4. Fits'
    BY <1>0, <2>2, <2>3 DEF Fits, AlertsFit, CreatingFits, RemovalFits, OwnerInside,
       NothingCovered, navVars, removalVars, ownerVars
  <2> QED
    BY <1>0, <2>2, <2>4, WaitsIdle
<1> QED
  BY <1>1, <1>2, <1>3 DEF AsksService

LEMMA WaitsTouches ==
  ASSUME Typed, Waits, OtherTouch
  PROVE  Waits'
<1> USE DEF Waits, requestVars, removalVars, signInVars
<1>0. Idle
  <2>1. screen # "login" \/ alert # "none"
    BY DEF OtherTouch, DismissAlert, SendVerificationMail, CancelGoogle, EnterWithGoogle,
       LeaveDemo, OpenMenu, TapMenu, Logout, RemoveData, Touchable
  <2> QED
    BY <2>1, IdleElsewhere
<1>1. UNCHANGED <<proc, signInVars>>
  BY DEF OtherTouch, DismissAlert, SendVerificationMail, CancelGoogle, EnterWithGoogle,
     LeaveDemo, OpenMenu, TapMenu, Logout, RemoveData
<1>2. Idle'
  BY <1>0, <1>1 DEF Idle
<1> SUFFICES Fits'
  BY <1>0, <1>1, WaitsIdle
<1> USE DEF Fits, AlertsFit, CreatingFits, RemovalFits, OwnerInside, NothingCovered
<1>3. CASE DismissAlert \/ CancelGoogle \/ OpenMenu
  BY <1>2, <1>3 DEF DismissAlert, CancelGoogle, OpenMenu, Touchable, navVars, ownerVars,
     serviceVars, userVars
<1>4. CASE SendVerificationMail
  BY <1>2, <1>4 DEF SendVerificationMail, Asks, navVars, ownerVars
<1>5. CASE EnterWithGoogle
  <2>1. /\ screen' = "demo" /\ owner' = Google /\ nav' = nav /\ covered' = FALSE
        /\ alert' = "none" /\ menuLoaded' = menuLoaded
        /\ UNCHANGED <<serviceVars, creating, removing, removed>>
    BY <1>5 DEF EnterWithGoogle, Push, Typed, NavTypeOK
  <2>2. screen = "login" /\ ~creating /\ removing = {} /\ ~removed
    BY <1>5 DEF EnterWithGoogle
  <2> QED
    BY <2>1, <2>2 DEF serviceVars, userVars
<1>6. CASE LeaveDemo
  <2>1. /\ screen = "demo" /\ screen' = "tabs" /\ UNCHANGED ownerVars
        /\ covered' = FALSE /\ nav' = nav /\ alert = "none" /\ alert' = "none"
        /\ UNCHANGED <<serviceVars, creating, removing, removed, menuLoaded>>
    BY <1>6 DEF LeaveDemo, Touchable, Push, Typed, NavTypeOK, ownerVars
  <2> QED
    BY <2>1 DEF serviceVars, userVars, ownerVars
<1>7. CASE TapMenu("leaveConfirmation") \/ TapMenu("removeData")
  <2>1. /\ screen = "tabs" /\ alert = "none"
        /\ alert' \in {"none", "leaveConfirmation", "removeData"}
        /\ UNCHANGED <<serviceVars, screen, navVars, creating, removing, removed, ownerVars>>
    BY <1>7 DEF TapMenu, Touchable, Present
  <2> QED
    BY <2>1 DEF serviceVars, userVars, navVars, ownerVars
<1>8. CASE Logout
  <2>1. /\ screen' = "login" /\ nav' = "menu" /\ covered' = FALSE /\ alert' = "none"
        /\ currentUser' = Nobody /\ asks' = {}
        /\ UNCHANGED <<creating, removing, removed>>
    BY <1>8 DEF Logout, SignedOut, Push, Navs
  <2>2. ~creating
    BY <1>8 DEF Logout
  <2> QED
    BY <2>1, <2>2
<1>9. CASE RemoveData
  <2>1. /\ currentUser # Nobody /\ currentUser \notin removing
        /\ removing' = removing \cup {currentUser}
        /\ asks' = asks \cup {"removal"} /\ alert' = "none"
        /\ UNCHANGED <<currentUser, isEmailVerified, screen, navVars, creating, removed,
                       ownerVars>>
    BY <1>9 DEF RemoveData, Asks
  <2>2. removing = {} /\ ~creating
    BY <1>9, <2>1 DEF RemoveData
  <2> QED
    BY <2>1, <2>2 DEF navVars, ownerVars
<1> QED
  BY <1>3, <1>4, <1>5, <1>6, <1>7, <1>8, <1>9 DEF OtherTouch

-----------------------------------------------------------------------------
(* The answers he waits for *)

\* Before the completion of the one sign-in, and after it.
LEMMA LastSignIn ==
  ASSUME Typed, OneSignIn, NEW n \in Navs, NEW e \in Texts,
         signingIn[n][e] > 0 \/ signedIn[n][e] > 0
  PROVE  /\ signingIn \in Counts /\ signedIn \in Counts
         /\ signingIn[n][e] + signedIn[n][e] = 1
         /\ \A m \in Navs, d \in Texts :
              m # n \/ d # e => signingIn[m][d] = 0 /\ signedIn[m][d] = 0
         /\ n = nav /\ screen = "login" /\ alert = "none"
         /\ ~creating /\ removing = {} /\ ~removed
<1>1. signingIn \in Counts /\ signedIn \in Counts
  BY DEF Typed, RestTypeOK
<1>2. \A m \in Navs, d \in Texts : signingIn[m][d] \in Nat /\ signedIn[m][d] \in Nat
  BY <1>1 DEF Counts
<1> QED
  BY <1>1, <1>2 DEF OneSignIn

LEMMA WaitsFailure ==
  ASSUME Typed, Waits, NEW n \in Navs, NEW e \in Texts, SignInFails(n, e)
  PROVE  Waits'
<1> USE DEF Waits
<1>0. /\ UNCHANGED <<serviceVars, proc, screen, alert, navVars, signedIn, creating,
                     removalVars, ownerVars>>
      /\ signingIn[n][e] > 0
      /\ signingIn' = [signingIn EXCEPT ![n][e] = @ - 1]
  BY DEF SignInFails
<1>1. signedIn[n][e] = 0 /\ signingIn[n][e] - 1 = 0
  <2>1. /\ signingIn \in Counts /\ signedIn \in Counts
        /\ signingIn[n][e] + signedIn[n][e] = 1
    BY <1>0, LastSignIn
  <2>2. signingIn[n][e] \in Nat /\ signedIn[n][e] \in Nat
    BY <2>1 DEF Counts
  <2> QED
    BY <1>0, <2>1, <2>2
<1>2. \A m \in Navs, d \in Texts :
        signingIn'[m][d] = IF m = n /\ d = e THEN 0 ELSE signingIn[m][d]
  <2>1. signingIn \in Counts
    BY <1>0, LastSignIn
  <2>2. signingIn[n][e] > 0 /\ signingIn' = [signingIn EXCEPT ![n][e] = @ - 1]
    BY <1>0
  <2>3. \A m \in Navs, d \in Texts :
          signingIn'[m][d] = IF m = n /\ d = e THEN signingIn[n][e] - 1 ELSE signingIn[m][d]
    BY <1>1, <2>1, <2>2 DEF Counts
  <2> QED
    BY <1>1, <2>3
<1>3. Idle'
  BY <1>0, <1>1, <1>2, LastSignIn DEF Idle
<1>4. Fits'
  BY <1>0, <1>3 DEF Fits, AlertsFit, CreatingFits, RemovalFits, OwnerInside, NothingCovered,
     navVars, removalVars, ownerVars, serviceVars, userVars
<1> QED
  BY <1>0, <1>3, <1>4, IdleIsOne

LEMMA WaitsAnswer ==
  ASSUME Typed, Waits, NEW n \in Navs, NEW e \in Texts, SignInAnswered(n, e)
  PROVE  Waits'
<1> USE DEF Waits
<1>0. /\ UNCHANGED <<accounts, active, proc, screen, alert, navVars, creating, removalVars,
                     ownerVars>>
      /\ currentUser' = e /\ isEmailVerified' = (e \in active) /\ asks' = {}
      /\ e \in EmailsOf(accounts)
      /\ signingIn[n][e] > 0
      /\ signingIn' = [signingIn EXCEPT ![n][e] = @ - 1]
      /\ signedIn' = [signedIn EXCEPT ![n][e] = @ + 1]
  BY DEF SignInAnswered, SignedIn
<1>1. signedIn[n][e] + 1 = 1 /\ signingIn[n][e] - 1 = 0
  <2>1. signingIn[n][e] > 0
    BY <1>0
  <2>2. /\ signingIn \in Counts /\ signedIn \in Counts
        /\ signingIn[n][e] + signedIn[n][e] = 1
    BY <2>1, LastSignIn
  <2>3. signingIn[n][e] \in Nat /\ signedIn[n][e] \in Nat
    BY <2>2 DEF Counts
  <2> QED
    BY <2>1, <2>2, <2>3
<1>2. \A m \in Navs, d \in Texts :
        /\ signingIn'[m][d] = IF m = n /\ d = e THEN 0 ELSE signingIn[m][d]
        /\ signedIn'[m][d] = IF m = n /\ d = e THEN 1 ELSE signedIn[m][d]
  BY <1>0, <1>1, LastSignIn DEF Counts
<1>3. \A m \in Navs, d \in Texts :
        signingIn'[m][d] = 0 /\ signedIn'[m][d] = (IF m = n /\ d = e THEN 1 ELSE 0)
  <2>1. signingIn[n][e] > 0
    BY <1>0
  <2>2. \A m \in Navs, d \in Texts :
          m # n \/ d # e => signingIn[m][d] = 0 /\ signedIn[m][d] = 0
    BY <2>1, LastSignIn
  <2> QED
    BY <1>2, <2>2
<1>4. /\ n = nav /\ screen = "login" /\ alert = "none"
      /\ ~creating /\ removing = {} /\ ~removed
  BY <1>0, LastSignIn
<1>5. OneSignIn'
  BY <1>0, <1>3, <1>4 DEF OneSignIn, navVars, removalVars
<1>6. AnsweredIsCurrent'
  <2>1. isEmailVerified' => e \in active' \cap EmailsOf(accounts')
    BY <1>0
  <2>2. \A m \in Navs, d \in Texts : signedIn'[m][d] > 0 => d = e
    BY <1>3
  <2> QED
    BY <1>0, <2>1, <2>2 DEF AnsweredIsCurrent
<1>7. Fits'
  BY <1>0, <1>4 DEF Fits, AlertsFit, CreatingFits, RemovalFits, OwnerInside, NothingCovered,
     navVars, removalVars, ownerVars
<1> QED
  BY <1>0, <1>5, <1>6, <1>7

\* The completion of the one sign-in: there is none after it.
LEMMA CompletedIdle ==
  ASSUME Typed, OneSignIn, NEW n \in Navs, NEW e \in Texts, Completed(n, e)
  PROVE  Idle'
<1>0. /\ signedIn[n][e] > 0 /\ UNCHANGED signingIn
      /\ signedIn' = [signedIn EXCEPT ![n][e] = @ - 1]
  BY DEF Completed
<1>1. signedIn[n][e] - 1 = 0 /\ signingIn[n][e] = 0
  BY <1>0, LastSignIn DEF Counts
<1>2. \A m \in Navs, d \in Texts :
        signedIn'[m][d] = IF m = n /\ d = e THEN 0 ELSE signedIn[m][d]
  BY <1>0, <1>1, LastSignIn DEF Counts
<1> QED
  BY <1>0, <1>1, <1>2, LastSignIn DEF Idle

LEMMA WaitsCompletion ==
  ASSUME Typed, Waits, NEW n \in Navs, NEW e \in Texts, Enter(n, e) \/ AskToVerify(n, e)
  PROVE  Waits'
<1> USE DEF Waits
<1>0. Completed(n, e)
  BY DEF Enter, AskToVerify
<1>1. Idle'
  BY <1>0, CompletedIdle
<1>2. /\ UNCHANGED <<serviceVars, creating, removing, removed, menuLoaded>>
      /\ currentUser = e /\ currentUser # Nobody /\ asks = {}
  BY <1>0 DEF Completed, AnsweredIsCurrent, removalVars
<1>3. /\ n = nav /\ screen = "login" /\ alert = "none"
      /\ ~creating /\ removing = {} /\ ~removed
  BY <1>0, LastSignIn DEF Completed
<1>4. UNCHANGED proc
  BY DEF Enter, AskToVerify
<1> USE DEF Fits, AlertsFit, CreatingFits, RemovalFits, OwnerInside, NothingCovered
<1>5. CASE Enter(n, e)
  <2>1. isEmailVerified
    BY <1>5 DEF Enter
  <2>2. /\ screen' \in {"demo", "tabs"} /\ owner' = e /\ nav' = n /\ covered' = FALSE
        /\ alert' = "none"
    BY <1>3, <1>5 DEF Enter, Push, Typed, NavTypeOK
  <2>3. Fits'
    BY <1>1, <1>2, <1>3, <2>1, <2>2 DEF serviceVars, userVars
  <2> QED
    BY <1>1, <1>4, <2>3, IdleIsOne
<1>6. CASE AskToVerify(n, e)
  <2>1. /\ alert' \in {"none", "wrongEmailSignin"}
        /\ UNCHANGED <<screen, nav, ownMenu, covered, ownerVars>>
    BY <1>3, <1>6 DEF AskToVerify, Present
  <2>2. Fits'
    BY <1>1, <1>2, <1>3, <2>1 DEF serviceVars, userVars
  <2> QED
    BY <1>1, <1>4, <2>2, IdleIsOne
<1> QED
  BY <1>5, <1>6

LEMMA WaitsRemoval ==
  ASSUME Typed, Waits, NEW e \in Texts,
         RemovalAnswered(e) \/ RemovalFails(e) \/ RemovalRefused(e)
  PROVE  Waits'
<1> USE DEF Waits
<1>0. /\ e \in removing /\ removing' = removing \ {e}
      /\ UNCHANGED <<proc, screen, navVars, signInVars, creating, owner>>
  BY DEF RemovalAnswered, RemovalFails, RemovalRefused, RemovalEnds, ownerVars
<1>1. Idle /\ Idle'
  <2>1. Idle
    BY <1>0, IdleElsewhere
  <2> QED
    BY <1>0, <2>1 DEF Idle, signInVars
<1>2. /\ ~creating /\ alert \notin {"google", "wrongEmailSignin"}
      /\ currentUser # Nobody => e = currentUser /\ removing' = {} /\ "removal" \in asks
      /\ "removal" \in asks => currentUser # Nobody
  BY <1>0 DEF Fits, AlertsFit, CreatingFits, RemovalFits, Typed, RestTypeOK
<1> SUFFICES Fits'
  BY <1>0, <1>1, WaitsIdle
<1> USE DEF Fits, AlertsFit, CreatingFits, RemovalFits, OwnerInside, NothingCovered
<1>3. NothingCovered'
  BY <1>0 DEF navVars
<1>4. CASE RemovalAnswered(e)
  <2>1. removed' /\ UNCHANGED <<alert, ownerVars>>
    BY <1>4 DEF RemovalAnswered
  <2>2. currentUser' = Nobody /\ "removal" \notin asks'
    BY <1>2, <1>4 DEF RemovalAnswered, SignOutByForce, SignedOut, userVars
  <2> QED
    BY <1>0, <1>2, <1>3, <2>1, <2>2 DEF navVars, ownerVars
<1>5. CASE RemovalFails(e)
  <2>1. alert' \in {alert, "errorOccurred"} /\ UNCHANGED <<removed, expelled>>
    BY <1>5 DEF RemovalFails, RemovalEnds, Present
  <2>2. UNCHANGED <<currentUser, isEmailVerified>> /\ asks' \subseteq asks
        /\ "removal" \notin asks'
    BY <1>2, <1>5 DEF RemovalFails, Answered
  <2> QED
    BY <1>0, <1>1, <1>2, <1>3, <2>1, <2>2 DEF navVars
<1>6. CASE RemovalRefused(e)
  <2>1. alert' \in {alert, "errorOccurred"} /\ UNCHANGED removed
        /\ expelled' = (expelled \/ (currentUser # Nobody /\ currentUser' = Nobody))
    BY <1>6 DEF RemovalRefused, RemovalEnds, Present
  <2>2. currentUser' = Nobody /\ "removal" \notin asks'
    BY <1>2, <1>6 DEF RemovalRefused, SignOutByForce, SignedOut, userVars
  <2> QED
    BY <1>0, <1>1, <1>2, <1>3, <2>1, <2>2 DEF navVars
<1> QED
  BY <1>4, <1>5, <1>6

LEMMA WaitsRemovalDone ==
  ASSUME Typed, Waits, RemovalDone
  PROVE  Waits'
<1> USE DEF Waits
<1>0. /\ removed /\ ~removed'
      /\ UNCHANGED <<serviceVars, proc, alert, menuLoaded, signInVars, creating, removing>>
  BY DEF RemovalDone
<1>1. Idle
  BY <1>0, IdleElsewhere
<1>2. screen' = "login" /\ nav' = "menu" /\ covered' = FALSE
  BY DEF RemovalDone, Push, Fits, NothingCovered, Typed, NavTypeOK
<1>3. Fits'
  BY <1>0, <1>2 DEF Fits, AlertsFit, CreatingFits, RemovalFits, OwnerInside, NothingCovered,
     serviceVars, userVars
<1> QED
  BY <1>0, <1>1, <1>3, WaitsIdle

LEMMA WaitsMail ==
  ASSUME Typed, Waits, MailAnswered \/ MailRefused
  PROVE  Waits'
<1> USE DEF Waits
<1>1. /\ "mail" \in asks
      /\ UNCHANGED <<accounts, active, proc, screen, alert, navVars, requestVars, owner>>
  BY DEF MailAnswered, MailRefused, ownerVars
<1>2. \A n \in Navs, e \in Texts : ~(signedIn[n][e] > 0)
  BY <1>1 DEF AnsweredIsCurrent
<1>3. OneSignIn' /\ AnsweredIsCurrent'
  BY <1>1, <1>2 DEF OneSignIn, AnsweredIsCurrent, requestVars, signInVars, removalVars, navVars
<1>4. CASE MailAnswered
  <2>1. asks' \subseteq asks /\ ("removal" \in asks => "removal" \in asks')
        /\ UNCHANGED <<currentUser, isEmailVerified, ownerVars>>
    BY <1>4 DEF MailAnswered, Answered
  <2>2. Fits'
    BY <1>1, <2>1 DEF Fits, AlertsFit, CreatingFits, RemovalFits, OwnerInside, NothingCovered,
       Idle, requestVars, signInVars, removalVars, navVars, ownerVars
  <2> QED
    BY <1>1, <1>3, <2>2
<1>5. CASE MailRefused
  <2>1. currentUser' = Nobody /\ asks' = {} /\ expelled'
    BY <1>1, <1>5 DEF MailRefused, SignOutByForce, SignedOut
  <2>2. Fits'
    BY <1>1, <2>1 DEF Fits, AlertsFit, CreatingFits, RemovalFits, OwnerInside, NothingCovered,
       Idle, requestVars, signInVars, removalVars, navVars
  <2> QED
    BY <1>1, <1>3, <2>2
<1> QED
  BY <1>4, <1>5

LEMMA WaitsSignUp ==
  ASSUME Typed, Waits, SignUpCompletes
  PROVE  Waits'
<1> USE DEF Waits
<1>0. /\ creating /\ ~creating'
      /\ UNCHANGED <<proc, screen, alert, navVars, signInVars, removalVars, ownerVars>>
  BY DEF SignUpCompletes
<1>1. Idle
  BY <1>0, IdleElsewhere
<1>2. UNCHANGED <<currentUser, isEmailVerified>> /\ asks' \subseteq asks \cup {"mail"}
  BY DEF SignUpCompletes, Asks, serviceVars, userVars
<1>3. screen = "login" /\ alert = "none" /\ removing = {} /\ ~removed
      /\ "removal" \notin asks'
  BY <1>0, <1>2 DEF Fits, CreatingFits, RemovalFits
<1>4. Fits'
  BY <1>0, <1>2, <1>3 DEF Fits, AlertsFit, CreatingFits, RemovalFits, OwnerInside,
     NothingCovered, navVars, removalVars, ownerVars
<1> QED
  BY <1>0, <1>1, <1>4, WaitsIdle

-----------------------------------------------------------------------------
(* The rest of the world *)

LEMMA NothingUnwrapped == Typed /\ Waits => ~UnwrapsNil
BY DEF Waits, AnsweredIsCurrent, Fits, AlertsFit, UnwrapsNil

LEMMA WaitsLink ==
  ASSUME Typed, Waits, FollowsLink
  PROVE  Waits'
<1>1. /\ UNCHANGED <<accounts, userVars, proc, screen, alert, navVars, requestVars, ownerVars>>
      /\ active \subseteq active'
  BY DEF FollowsLink, Activate
<1>2. active \cap EmailsOf(accounts) \subseteq active' \cap EmailsOf(accounts')
  BY <1>1
<1> QED
  BY <1>1, <1>2 DEF Waits, OneSignIn, AnsweredIsCurrent, Fits, AlertsFit, CreatingFits,
     RemovalFits, OwnerInside, NothingCovered, Idle, userVars, navVars, requestVars,
     signInVars, removalVars, ownerVars

LEMMA WaitsRelaunch == Relaunch => Waits'
<1> SUFFICES ASSUME Relaunch PROVE Waits'
  OBVIOUS
<1>1. Idle'
  BY DEF Relaunch, Ended, Idle, NoSignIn
<1>2. Fits'
  BY DEF Relaunch, Ended, Fits, AlertsFit, CreatingFits, RemovalFits, OwnerInside,
     NothingCovered
<1> QED
  BY <1>1, <1>2, IdleIsOne DEF Waits, Relaunch

LEMMA WaitsStutter == Waits /\ UNCHANGED vars => Waits'
BY DEF Waits, OneSignIn, AnsweredIsCurrent, Fits, AlertsFit, CreatingFits, RemovalFits,
   OwnerInside, NothingCovered, Idle, vars, serviceVars, userVars, navVars, requestVars,
   signInVars, removalVars, ownerVars

LEMMA WaitsNext == Typed /\ WaitingInv /\ [Next]_vars => WaitingInv'
<1> SUFFICES ASSUME Typed, WaitingInv, [Next]_vars, ~hurried' PROVE Waits'
  BY DEF WaitingInv
<1>1. CASE Relaunch
  BY <1>1, WaitsRelaunch
<1>2. CASE UNCHANGED vars
  BY <1>2, WaitsStutter DEF WaitingInv, vars
<1>3. CASE AsksService /\ hurried' = (hurried \/ ~NoRequest \/ ~Touchable("login"))
  BY <1>3, WaitsAsks DEF WaitingInv
<1>4. CASE (OtherTouch \/ ServiceStep \/ FollowsLink) /\ UNCHANGED hurried
  <2>1. Waits
    BY <1>4 DEF WaitingInv
  <2>2. CASE OtherTouch
    BY <2>1, <2>2, WaitsTouches
  <2>3. CASE FollowsLink
    BY <2>1, <2>3, WaitsLink
  <2>4. CASE ServiceStep
    BY <2>1, <2>4, WaitsFailure, WaitsAnswer, WaitsCompletion, WaitsRemoval, WaitsRemovalDone,
       WaitsMail, WaitsSignUp, NothingUnwrapped DEF ServiceStep
  <2> QED
    BY <1>4, <2>2, <2>3, <2>4
<1> QED
  BY <1>1, <1>2, <1>3, <1>4 DEF Next

LEMMA Waiting == Spec => [](Typed /\ WaitingInv)
<1>1. Init => WaitingInv
  BY WaitsInit DEF WaitingInv
<1> QED
  BY <1>1, TypeInit, TypedNext, WaitsNext, PTL DEF Spec

\* While the user waits, no completion and no alert unwraps a user that is gone.
THEOREM NilNever == Spec => []NilNeverUnwrapped
<1>1. WaitingInv => NilNeverUnwrapped
  BY DEF WaitingInv, Waits, NilNeverUnwrapped
<1> QED
  BY <1>1, Waiting, PTL

\* Who waits and has come in by e-mail is the user the SDK holds, with a verified
\* e-mail, until a removal is confirmed or his token refused.
THEOREM TabsMine == Spec => []TabsBelongToUser
<1>1. Typed /\ WaitingInv => TabsBelongToUser
  BY DEF WaitingInv, Waits, Fits, OwnerInside, TabsBelongToUser
<1> QED
  BY <1>1, Waiting, PTL

-----------------------------------------------------------------------------
(* What Access promises *)

Entitled == active \cap EmailsOf(accounts)
Inside == IF screen = "login" THEN Nobody ELSE owner

AppView == <<Entitled, Inside, removing>>

LEMMA AccessInit == Init => App!Init
BY DEF Init, ServiceInit, App!Init, EmailsOf, Credentials

\* Only a confirmed removal takes somebody's account away.
LEMMA EntitledStay ==
  ASSUME [Next]_vars PROVE Entitled \ removing \subseteq Entitled'
<1> USE DEF Entitled, EmailsOf
<1>1. CASE UNCHANGED <<accounts, active>>
  BY <1>1
<1>2. CASE AsksService
  BY <1>2 DEF AsksService, Login, OpenGoogle, SignUpCreates, Created, AccountMade, serviceVars
<1>3. CASE OtherTouch
  BY <1>1, <1>3 DEF OtherTouch, DismissAlert, SendVerificationMail, CancelGoogle,
     EnterWithGoogle, LeaveDemo, OpenMenu, TapMenu, Logout, RemoveData, Asks, serviceVars
<1>4. CASE \E e \in Texts : RemovalAnswered(e) \/ RemovalFails(e) \/ RemovalRefused(e)
  BY <1>4 DEF RemovalAnswered, RemovalFails, RemovalRefused, RemovalEnds, AccountsRemoved
<1>5. CASE \E n \in Navs, e \in Texts :
             \/ SignInFails(n, e) \/ SignInAnswered(n, e) \/ Enter(n, e) \/ AskToVerify(n, e)
  BY <1>1, <1>5 DEF SignInFails, SignInAnswered, Enter, AskToVerify, Completed, serviceVars
<1>6. CASE UnwrapsNil \/ MailAnswered \/ MailRefused \/ SignUpCompletes \/ RemovalDone \/ Relaunch
  BY <1>1, <1>6 DEF UnwrapsNil, Relaunch, Ended, MailAnswered, MailRefused, SignUpCompletes,
     RemovalDone, Asks, serviceVars
<1>7. CASE FollowsLink
  BY <1>7 DEF FollowsLink, Activate
<1>8. CASE UNCHANGED vars
  BY <1>1, <1>8 DEF vars, serviceVars
<1> QED
  BY <1>2, <1>3, <1>4, <1>5, <1>6, <1>7, <1>8 DEF Next, ServiceStep

\* What App's actions say, in the terms of this module.
OrderlyView ==
  \/ UNCHANGED AppView
  \/ /\ Inside = Nobody /\ Inside' \in Entitled \cup {Google}
     /\ UNCHANGED <<Entitled, removing>>
  \/ Inside' = Nobody /\ UNCHANGED <<Entitled, removing>>
  \/ \E e \in Texts :
       \/ /\ Inside \in {e, Google} /\ removing' = removing \cup {e}
          /\ UNCHANGED <<Entitled, Inside>>
       \/ /\ e \in removing /\ removing' = removing \ {e}
          /\ Entitled' \in {Entitled, Entitled \ {e}}
          /\ UNCHANGED Inside
       \/ Entitled' = Entitled \cup {e} /\ UNCHANGED <<Inside, removing>>

LEMMA ViewOfAsks ==
  ASSUME AsksService PROVE OrderlyView
<1> USE DEF OrderlyView, AppView, Entitled, Inside
<1>1. CASE (\E e \in Texts : Login(e)) \/ OpenGoogle
  BY <1>1 DEF Login, OpenGoogle, serviceVars, requestVars, removalVars, ownerVars
<1>2. CASE SignUpCreates
  <2>1. PICK e \in Texts : AccountMade([email |-> e, password |-> e])
    BY <1>2 DEF SignUpCreates, Created
  <2>2. Entitled' \in {Entitled, Entitled \cup {e}}
    BY <2>1 DEF AccountMade, EmailsOf
  <2>3. UNCHANGED <<Inside, removing>>
    BY <1>2 DEF SignUpCreates, removalVars, ownerVars
  <2> QED
    BY <2>2, <2>3
<1> QED
  BY <1>1, <1>2 DEF AsksService

LEMMA ViewOfTouches ==
  ASSUME Typed, Waits, OtherTouch PROVE OrderlyView
<1> USE DEF OrderlyView, AppView, Entitled, Inside, Waits, Fits
<1>1. CASE \/ DismissAlert \/ SendVerificationMail \/ CancelGoogle \/ OpenMenu
           \/ TapMenu("leaveConfirmation") \/ TapMenu("removeData")
  BY <1>1 DEF DismissAlert, SendVerificationMail, CancelGoogle, OpenMenu, TapMenu, Asks,
     serviceVars, requestVars, removalVars, ownerVars
<1>2. CASE EnterWithGoogle
  <2>1. screen = "login" /\ Inside' = Google
    BY <1>2 DEF EnterWithGoogle, AlertsFit, NothingCovered, Push
  <2> QED
    BY <1>2, <2>1 DEF EnterWithGoogle, serviceVars, requestVars, removalVars
<1>3. CASE LeaveDemo
  <2>1. screen = "demo" /\ screen' # "login" /\ owner' = owner
    BY <1>3 DEF LeaveDemo, Touchable, Push, ownerVars
  <2> QED
    BY <1>3, <2>1 DEF LeaveDemo, serviceVars, requestVars, removalVars
<1>4. CASE Logout
  <2>1. Inside' = Nobody
    BY <1>4 DEF Logout, NothingCovered, Push
  <2> QED
    BY <1>4, <2>1 DEF Logout, requestVars, removalVars
<1>5. CASE RemoveData
  <2>1. currentUser \in Texts /\ removing' = removing \cup {currentUser}
        /\ UNCHANGED <<Entitled, Inside>>
    BY <1>5 DEF RemoveData, Asks, Typed, AccountTypeOK, ServiceTypeOK, ownerVars
  <2>2. screen = "tabs"
    BY <1>5, <2>1 DEF RemoveData, AlertsFit
  <2>3. Inside \in {currentUser, Google}
    BY <2>1, <2>2 DEF OwnerInside, Typed, NavTypeOK
  <2> QED
    BY <2>1, <2>3
<1> QED
  BY <1>1, <1>2, <1>3, <1>4, <1>5 DEF OtherTouch

LEMMA ViewOfAnswers ==
  ASSUME Typed, Waits, ServiceStep PROVE OrderlyView
<1> USE DEF OrderlyView, AppView, Entitled, Inside
<1>1. CASE MailAnswered \/ MailRefused \/ SignUpCompletes
  BY <1>1 DEF MailAnswered, MailRefused, SignUpCompletes, Asks, serviceVars, requestVars,
     removalVars, ownerVars
<1>2. CASE RemovalDone
  <2>1. Inside' = Nobody
    BY <1>2 DEF RemovalDone, Waits, Fits, NothingCovered, Push
  <2> QED
    BY <1>2, <2>1 DEF RemovalDone, serviceVars
<1>3. ASSUME NEW e \in Texts, RemovalAnswered(e) \/ RemovalFails(e) \/ RemovalRefused(e)
      PROVE  OrderlyView
  <2>1. e \in removing /\ removing' = removing \ {e} /\ UNCHANGED Inside
    BY <1>3 DEF RemovalAnswered, RemovalFails, RemovalRefused, RemovalEnds, ownerVars
  <2>2. AccountsRemoved({e}) \/ UNCHANGED <<accounts, active>>
    BY <1>3 DEF RemovalAnswered, RemovalFails, RemovalRefused
  <2>3. Entitled' \in {Entitled, Entitled \ {e}}
    BY <2>2 DEF AccountsRemoved, EmailsOf
  <2> QED
    BY <2>1, <2>3
<1>4. ASSUME NEW n \in Navs, NEW e \in Texts,
             SignInFails(n, e) \/ SignInAnswered(n, e) \/ AskToVerify(n, e)
      PROVE  OrderlyView
  BY <1>4 DEF SignInFails, SignInAnswered, AskToVerify, Completed, serviceVars, removalVars,
     ownerVars
<1>5. ASSUME NEW n \in Navs, NEW e \in Texts, Enter(n, e)
      PROVE  OrderlyView
  <2>1. Completed(n, e)
    BY <1>5 DEF Enter
  <2>2. screen = "login" /\ n = nav /\ e \in Entitled
    BY <1>5, <2>1, LastSignIn DEF Enter, Completed, Waits, AnsweredIsCurrent
  <2>3. Inside' = e
    BY <1>5, <2>2 DEF Enter, Waits, Fits, NothingCovered, Push
  <2> QED
    BY <2>1, <2>2, <2>3 DEF Completed, serviceVars, removalVars
<1> QED
  BY <1>1, <1>2, <1>3, <1>4, <1>5, NothingUnwrapped DEF ServiceStep

LEMMA ViewOfLink ==
  ASSUME Typed, FollowsLink PROVE OrderlyView
<1>1. PICK e \in EmailsOf(accounts) : Activate(e)
  BY DEF FollowsLink
<1>2. Entitled' = Entitled \cup {e}
  BY <1>1 DEF Activate, Entitled
<1>3. e \in Texts
  BY <1>1 DEF EmailsOf, Credentials, Typed, AccountTypeOK, ServiceTypeOK
<1> QED
  BY <1>2, <1>3 DEF FollowsLink, requestVars, removalVars, ownerVars, OrderlyView, Inside

LEMMA OrderlyIsAccess ==
  ASSUME Typed, OrderlyView, ~hurried, ~hurried'
  PROVE  [App!Next]_(App!vars)
<1>1. CASE UNCHANGED AppView
  BY <1>1 DEF App!vars, AppView, Entitled, Inside
<1>2. CASE Inside = Nobody /\ Inside' \in Entitled \cup {Google} /\ UNCHANGED <<Entitled, removing>>
  <2>1. Inside' \in Texts \cup {Google}
    BY <1>2 DEF Entitled, Typed, AccountTypeOK, ServiceTypeOK
  <2>2. App!ComeIn(Inside')
    BY <1>2 DEF App!ComeIn, Entitled, Inside
  <2>3. App!OrderlyStep
    BY <2>1, <2>2 DEF App!OrderlyStep
  <2> QED
    BY <2>3 DEF App!Next
<1>3. CASE Inside' = Nobody /\ UNCHANGED <<Entitled, removing>>
  BY <1>3 DEF App!Leave, App!OrderlyStep, App!Next, Entitled, Inside
<1>4. ASSUME NEW e \in Texts,
             \/ /\ Inside \in {e, Google} /\ removing' = removing \cup {e}
                /\ UNCHANGED <<Entitled, Inside>>
             \/ /\ e \in removing /\ removing' = removing \ {e}
                /\ Entitled' \in {Entitled, Entitled \ {e}}
                /\ UNCHANGED Inside
             \/ Entitled' = Entitled \cup {e} /\ UNCHANGED <<Inside, removing>>
      PROVE  [App!Next]_(App!vars)
  <2>1. App!ConfirmRemoval(e) \/ App!RemovalEnds(e) \/ App!Activate(e)
    BY <1>4 DEF App!ConfirmRemoval, App!RemovalEnds, App!Activate, Entitled, Inside
  <2> QED
    BY <2>1 DEF App!OrderlyStep, App!Next
<1> QED
  BY <1>1, <1>2, <1>3, <1>4 DEF OrderlyView

LEMMA AccessStep ==
  ASSUME Typed, WaitingInv, [Next]_vars
  PROVE  [App!Next]_(App!vars)
<1>1. CASE hurried'
  <2>1. Entitled \ removing \subseteq Entitled'
    BY EntitledStay
  <2> QED
    BY <1>1, <2>1 DEF App!DisorderlyStep, App!Next, Entitled
<1>2. CASE Relaunch /\ ~hurried'
  BY <1>2 DEF Relaunch, Ended, App!Restart, App!Next
<1>3. CASE UNCHANGED vars
  BY <1>3 DEF vars, serviceVars, requestVars, removalVars, ownerVars, App!vars
<1>4. CASE AsksService /\ hurried' = (hurried \/ ~NoRequest \/ ~Touchable("login")) /\ ~hurried'
  BY <1>4, ViewOfAsks, OrderlyIsAccess
<1>5. CASE (OtherTouch \/ ServiceStep \/ FollowsLink) /\ UNCHANGED hurried /\ ~hurried'
  <2>1. Waits
    BY <1>5 DEF WaitingInv
  <2>2. OrderlyView
    BY <1>5, <2>1, ViewOfTouches, ViewOfAnswers, ViewOfLink
  <2> QED
    BY <1>5, <2>2, OrderlyIsAccess
<1> QED
  BY <1>1, <1>2, <1>3, <1>4, <1>5 DEF Next

\* The session does what Access promises: who is in has an active account, and
\* nobody's account is gone before somebody in the app has confirmed it.
THEOREM ImplementsAccess == Spec => AccessImplemented
<1>1. Typed /\ WaitingInv /\ [Next]_vars => [App!Next]_(App!vars)
  BY AccessStep
<1>2. Spec => [][App!Next]_(App!vars)
  BY <1>1, Waiting, PTL DEF Spec
<1>3. Spec => App!Init
  BY AccessInit DEF Spec
<1> QED
  BY <1>2, <1>3 DEF AccessImplemented, App!Spec

-----------------------------------------------------------------------------
(* Whose data is removed *)

\* The user waits, and who has come in with Google does not confirm a removal.
RemovesByEmail == ~hurried' /\ (RemoveData => owner # Google)

LEMMA RemovesMine ==
  ASSUME Typed, WaitingInv, Next, RemovesByEmail, NEW e \in removing' \ removing
  PROVE  e = owner
<1>1. RemoveData
  BY DEF Next, AsksService, Login, OpenGoogle, SignUpCreates, OtherTouch, DismissAlert,
     SendVerificationMail, CancelGoogle, EnterWithGoogle, LeaveDemo, OpenMenu, TapMenu, Logout,
     ServiceStep, SignInFails, SignInAnswered, Enter, AskToVerify, Completed, UnwrapsNil, Ended,
     MailAnswered, MailRefused, SignUpCompletes, RemovalAnswered, RemovalFails, RemovalRefused,
     RemovalEnds, RemovalDone, FollowsLink, Relaunch, requestVars, removalVars
<1>2. e = currentUser /\ currentUser # Nobody /\ alert = "removeData"
  BY <1>1 DEF RemoveData, Asks
<1>3. ~hurried
  BY <1>1 DEF RemovesByEmail, Next, RemoveData, AsksService, Login, OpenGoogle, SignUpCreates,
     Touchable, Relaunch, Ended, removalVars
<1>4. Waits
  BY <1>3 DEF WaitingInv
<1>5. screen = "tabs" /\ owner # Nobody
  BY <1>2, <1>4 DEF Waits, Fits, AlertsFit, OwnerInside
<1>6. owner \in Texts
  BY <1>1, <1>5 DEF RemovesByEmail, Typed, NavTypeOK
<1> QED
  BY <1>2, <1>4, <1>5, <1>6 DEF Waits, Fits, OwnerInside

\* The boundary of the disagreement about the removal: to who waits and has come
\* in by e-mail, what is removed is his own account and no other, whoever had
\* signed in before and whichever menu's handlers run.
THEOREM RemovesOnlyMine == Init /\ [][Next /\ RemovesByEmail]_vars => RemovalRemovesMine
<1> DEFINE Mine == \A e \in removing' \ removing : e = owner
<1>1. Init => Typed /\ WaitingInv
  BY TypeInit, WaitsInit DEF WaitingInv
<1>2. Typed /\ WaitingInv /\ [Next /\ RemovesByEmail]_vars => (Typed /\ WaitingInv)'
  BY TypedNext, WaitsNext
<1>3. Typed /\ WaitingInv /\ [Next /\ RemovesByEmail]_vars => [Mine]_vars
  BY RemovesMine
<1> QED
  BY <1>1, <1>2, <1>3, PTL DEF RemovalRemovesMine
=============================================================================
