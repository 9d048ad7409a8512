--------------------------- MODULE PasswordReset ---------------------------
(***************************************************************************)
(* EmailConfirmationViewController in the navigation of the login screens: *)
(* it asks the account service to send a link, says what became of it and, *)
(* when the user has read that the link is sent, pops whatever is on top   *)
(* of the navigation by then.  Requests keep their screen alive and are    *)
(* answered after it was left; a sign-in that a login screen still waits   *)
(* for pushes the app over everything else.  What the app does once it is  *)
(* entered, and what sign-up screens do, is in Session and SignUpForm.     *)
(***************************************************************************)
EXTENDS Naturals, Sequences, SequencesExt

CONSTANTS
  MaxPushes,   \* bound: screens pushed in one process
  MaxRequests  \* bound: unanswered requests of one screen

ASSUME ResetAssumption == MaxPushes \in Nat /\ MaxRequests \in Nat

Ids == 0..MaxPushes

Screens == [kind : {"login", "reset", "signUp", "app"}, id : Ids]

Messages == {"insertEmail", "linkSent", "errorOccurred", "wrongEmailSignin"}

NoAlert == [message |-> "none", by |-> 0]

VARIABLES
  stack,    \* the screens of the navigation, the one in front last
  pushed,   \* screens pushed so far; a screen's id is its number
  alert,    \* the alert in front and the screen that presented it
  resets,   \* reset requests of a screen that are not answered
  signIns,  \* sign-ins of a login screen that are not answered
  hurried   \* history: the user went on while an answer was outstanding

vars == <<stack, pushed, alert, resets, signIns, hurried>>

TypeOK ==
  /\ stack \in Seq(Screens)
  /\ pushed \in Ids
  /\ alert \in [message : Messages, by : Ids] \cup {NoAlert}
  /\ resets \in [Ids -> 0..MaxRequests]
  /\ signIns \in [Ids -> 0..MaxRequests]
  /\ hurried \in BOOLEAN

Nothing == [id \in Ids |-> 0]

Init ==
  /\ stack = <<[kind |-> "login", id |-> 0]>>
  /\ pushed = 0
  /\ alert = NoAlert
  /\ resets = Nothing /\ signIns = Nothing
  /\ hurried = FALSE

Top == Last(stack)

Touchable(kind) == alert = NoAlert /\ Top.kind = kind

InStack(id) == \E s \in ToSet(stack) : s.id = id

\* The screen with this id says what became of its request.
Told(id) == alert.by = id /\ alert.message \in {"linkSent", "errorOccurred"}

Waiting == resets # Nothing \/ signIns # Nothing

\* pushViewController; a screen that has left the navigation pushes nothing.
Push(kind, by) ==
  IF InStack(by)
    THEN /\ pushed < MaxPushes
         /\ pushed' = pushed + 1
         /\ stack' = Append(stack, [kind |-> kind, id |-> pushed + 1])
    ELSE UNCHANGED <<stack, pushed>>

\* Mutant: two handlers pop where one should.
Pop_Twice ==
  stack' = SubSeq(stack, 1, IF Len(stack) > 2 THEN Len(stack) - 2 ELSE 1)

\* popViewController; the last screen stays.
Pop == stack' = IF Len(stack) > 1 THEN Front(stack) ELSE stack

\* Mutant: an alert is presented from the window, by whatever screen.
Present_Anyway(id, message) ==
  alert' = IF alert = NoAlert THEN [message |-> message, by |-> id] ELSE alert

\* present, by the screen with this id: nothing over an alert, nothing by a
\* screen that was popped; if it is covered, whether UIKit presents from its
\* container is left open.
Present(id, message) ==
  LET shown == [message |-> message, by |-> id]
  IN IF alert = NoAlert /\ Top.id = id THEN alert' = shown
     ELSE alert' = alert \/ (alert = NoAlert /\ InStack(id) /\ alert' = shown)

-----------------------------------------------------------------------------
(* The user *)

\* actionForgotPassword, actionSignUpButton of the login screen
OpenFromLogin ==
  /\ Touchable("login")
  /\ \E kind \in {"reset", "signUp"} : Push(kind, Top.id)
  /\ UNCHANGED <<alert, resets, signIns>>

\* actionLoginButton
Login ==
  /\ Touchable("login")
  /\ signIns[Top.id] < MaxRequests
  /\ signIns' = [signIns EXCEPT ![Top.id] = @ + 1]
  /\ UNCHANGED <<stack, pushed, alert, resets>>

\* actionGoToLoginButton, and the Ok of the congratulations: a new login screen.
LeaveSignUp ==
  /\ Touchable("signUp")
  /\ Push("login", Top.id)
  /\ UNCHANGED <<alert, resets, signIns>>

\* actionGoBackTapped
GoBack ==
  /\ Touchable("reset")
  /\ Pop
  /\ UNCHANGED <<pushed, alert, resets, signIns>>

\* actionSignUpButtonTapped
Register ==
  /\ Touchable("reset")
  /\ Push("signUp", Top.id)
  /\ UNCHANGED <<alert, resets, signIns>>

\* actionGoToCodeButtonTapped with an empty field
SendNothing ==
  /\ Touchable("reset")
  /\ Present(Top.id, "insertEmail")
  /\ UNCHANGED <<stack, pushed, resets, signIns>>

\* resetPasswordAuth; the button stays enabled.
Send ==
  /\ Touchable("reset")
  /\ resets[Top.id] < MaxRequests
  /\ resets' = [resets EXCEPT ![Top.id] = @ + 1]
  /\ UNCHANGED <<stack, pushed, alert, signIns>>

\* The button of the alert; after linkSent, what is on top is popped.
Ok ==
  /\ alert # NoAlert
  /\ alert' = NoAlert
  /\ IF alert.message = "linkSent" /\ InStack(alert.by) THEN Pop ELSE UNCHANGED stack
  /\ UNCHANGED <<pushed, resets, signIns>>

-----------------------------------------------------------------------------
(* The account service *)

\* Mutant: a refusal is not announced.
ResetAnswered_Silent(id) ==
  /\ resets[id] > 0
  /\ resets' = [resets EXCEPT ![id] = @ - 1]
  /\ Present(id, "linkSent") \/ UNCHANGED alert
  /\ UNCHANGED <<stack, pushed, signIns>>

\* Mutant: a request is answered again.
ResetAnswered_Again(id) ==
  /\ id <= pushed
  /\ resets' = [resets EXCEPT ![id] = @ - 1]
  /\ Present(id, "linkSent") \/ Present(id, "errorOccurred")
  /\ UNCHANGED <<stack, pushed, signIns>>

\* sendPasswordReset's completion
ResetAnswered(id) ==
  /\ resets[id] > 0
  /\ resets' = [resets EXCEPT ![id] = @ - 1]
  /\ Present(id, "linkSent") \/ Present(id, "errorOccurred")
  /\ UNCHANGED <<stack, pushed, signIns>>

\* signIn's completion: the app, the alert, or the red label.
SignInAnswered(id) ==
  /\ signIns[id] > 0
  /\ signIns' = [signIns EXCEPT ![id] = @ - 1]
  /\ \/ Push("app", id) /\ UNCHANGED alert
     \/ Present(id, "wrongEmailSignin") /\ UNCHANGED <<stack, pushed>>
     \/ UNCHANGED <<stack, pushed, alert>>
  /\ UNCHANGED resets

\* The process ends and starts again; its answers never arrive.
Relaunch ==
  /\ stack' = <<[kind |-> "login", id |-> 0]>>
  /\ pushed' = 0
  /\ alert' = NoAlert
  /\ resets' = Nothing /\ signIns' = Nothing

UserStep ==
  \/ OpenFromLogin \/ Login \/ LeaveSignUp \/ GoBack \/ Register \/ SendNothing \/ Send \/ Ok

Next ==
  \/ UserStep /\ hurried' = (hurried \/ Waiting)
  \/ (\E id \in Ids : ResetAnswered(id) \/ SignInAnswered(id)) /\ UNCHANGED hurried
  \/ Relaunch /\ hurried' = FALSE

Spec == Init /\ [][Next]_vars

\* Every request ends, with an answer or an error (its time-out is one), and the
\* main queue runs its completion.  Nothing is assumed of the user.
Fairness == \A id \in Ids : WF_vars(ResetAnswered(id) /\ UNCHANGED hurried)

FairSpec == Spec /\ Fairness

-----------------------------------------------------------------------------
(* Properties *)

\* The alert in front was presented by a screen of the navigation: a screen that
\* the user has left, or that an earlier alert has popped, announces nothing,
\* however late its answers come.
AlertsOfScreens == alert # NoAlert => InStack(alert.by)

\* The alert that says the link is sent takes one screen off the navigation, and
\* none below the one that asked: whatever was pushed over that screen by the time
\* the answer came, the user keeps a screen to go on from.  Who waits is led from
\* the very screen that asked to the login screen below it, although what is
\* popped is whatever is on top.
LinkSentLeadsBack ==
  [][alert.message = "linkSent" /\ alert' = NoAlert /\ pushed' = pushed =>
       \E s \in Screens :
         /\ stack = Append(stack', s) /\ s.id >= alert.by
         /\ ~hurried' => s.kind = "reset" /\ s.id = alert.by /\ Last(stack').kind = "login"]_vars

\* Who asks for the link, waits and stays is told by the screen that asked, and by
\* no other, what became of the request.  (Who sends again may miss an answer:
\* the alert of the first one hides that of the second.)
ResetsAnnounced ==
  \A id \in Ids :
    (resets[id] > 0 /\ ~hurried) ~>
      (hurried \/ Top.id # id \/ Told(id))
=============================================================================
