----------------------------- MODULE SignUpForm -----------------------------
(***************************************************************************)
(* SignUpViewController with its view, its view model and the checks of    *)
(* Masks.  Each field is checked when it is edited, by itself, and its     *)
(* error label shown or hidden; the button looks at the labels only.  The  *)
(* account is created while the user is congratulated already, and the     *)
(* activation mail is sent, when the answer comes, to whoever is signed in *)
(* by then.  A new screen is pushed for every visit; the earlier ones      *)
(* stay covered in the navigation stack with what was typed, still get     *)
(* their answers, and come back in front when the alert of the password    *)
(* reset pops what covers them.                                            *)
(***************************************************************************)
EXTENDS AccountService, Naturals, Sequences, SequencesExt

CONSTANTS
  Empty,      \* the empty text
  Words,      \* names of 3 to 18 letters
  Addresses,  \* texts in the format of an e-mail
  Long,       \* texts of 6 characters or more
  Typed,      \* for each field, the texts typed into it
  MaxVisits,  \* bound: screens pushed in one process
  MaxShowings \* bound: times one of them comes in front

Fields == {"name", "surname", "email", "password", "confirm"}

ASSUME SignUpAssumption ==
  /\ Empty \in Texts \ (Words \cup Addresses \cup Long)
  /\ Typed \in [Fields -> SUBSET Texts]
  /\ MaxVisits \in Nat
  /\ MaxShowings \in Nat

VARIABLES
  visits,     \* SignUpViewControllers pushed so far
  visit,      \* the last of those in the navigation stack, 0 if there is none
  below,      \* the forms of the others, the first of them blank and of none
  showing,    \* times one of them has come in front
  screen,     \* "signUp", `visit' is in front, or "login", something else is
  alert,      \* the alert in front
  text,       \* texts of the fields of `visit'
  hidden,     \* the error label of a field is hidden
  creating,   \* account requests the service has not answered
  created,    \* answered ones whose completion has not run
  sending,    \* activation mails the service was asked for, unanswered
  asked,      \* e-mails it was ever asked to send one to
  overtaken   \* history: of created, those after whose answer somebody else
              \* was signed in or out

formVars == <<text, hidden>>
visitVars == <<visits, visit, below, showing>>
requestVars == <<creating, created, sending, asked>>
vars == <<serviceVars, visitVars, screen, alert, formVars, requestVars, overtaken>>

Alerts == {"none", "correctlyFilled", "congrats", "emailSentConfirm", "errorOccurred",
           "linkSent"}

\* A request knows the screen that made it; in which of its showings is history.
Requests == [account : Credentials, visit : 1..MaxVisits, showing : 1..MaxShowings]
Sendings == [email : Texts, visit : 1..MaxVisits, showing : 1..MaxShowings]

Forms == [visit : 0..MaxVisits, text : [Fields -> Texts], hidden : [Fields -> BOOLEAN]]

TypeOK ==
  /\ ServiceTypeOK
  /\ visits \in 0..MaxVisits
  /\ visit \in 0..visits
  /\ below \in Seq(Forms)
  /\ showing \in 0..MaxShowings
  /\ screen \in {"signUp", "login"}
  /\ alert \in Alerts
  /\ text \in [Fields -> Texts]
  /\ hidden \in [Fields -> BOOLEAN]
  /\ creating \subseteq Requests
  /\ created \subseteq Requests
  /\ sending \subseteq Sendings
  /\ asked \subseteq Texts
  /\ asks \subseteq sending
  /\ overtaken \subseteq created

NewForm ==
  /\ text' = [f \in Fields |-> Empty]
  /\ hidden' = [f \in Fields |-> TRUE]

Init ==
  /\ ServiceInit
  /\ visits = 0 /\ visit = 0 /\ below = <<>> /\ showing = 0
  /\ screen = "login"
  /\ alert = "none"
  /\ text = [f \in Fields |-> Empty]
  /\ hidden = [f \in Fields |-> TRUE]
  /\ creating = {} /\ created = {} /\ sending = {} /\ asked = {}
  /\ overtaken = {}

-----------------------------------------------------------------------------
(* The user *)

Touchable(s) == screen = s /\ alert = "none"

\* verifyName, verifySurname, verifyEmail, verifyPassword and
\* verifyConfirmPassword: the label of field f is hidden for text t.
Accepts(f, t) ==
  \/ f \in {"name", "surname"} /\ t \in Words
  \/ f = "email" /\ t \in Addresses
  \/ f = "password" /\ t \in Long
  \/ f = "confirm" /\ t # Empty /\ t = text["password"]

\* didTapName, didTapSurname, ...: editingChanged of one field.
Edit(f, t) ==
  /\ Touchable("signUp")
  /\ text' = [text EXCEPT ![f] = t]
  /\ hidden' = [hidden EXCEPT ![f] = Accepts(f, t)]
  /\ UNCHANGED <<serviceVars, visitVars, screen, alert, requestVars>>

\* Mutant: only the labels count, not the texts.
VerifySignUp_LabelsOnly == \A f \in Fields : hidden[f]

\* SignUpViewModel.verifySignUp
VerifySignUp == \A f \in Fields : hidden[f] /\ text[f] # Empty

\* signUpValidation: the account is asked for and the user congratulated.
SignUp ==
  /\ Touchable("signUp")
  /\ VerifySignUp
  /\ creating' = creating \cup
       {[account |-> [email |-> text["email"], password |-> text["password"]],
         visit |-> visit, showing |-> showing]}
  /\ alert' = "congrats"
  /\ UNCHANGED <<serviceVars, visitVars, screen, formVars, created, sending, asked>>

SignUpRefused ==
  /\ Touchable("signUp")
  /\ ~VerifySignUp
  /\ alert' = "correctlyFilled"
  /\ UNCHANGED <<serviceVars, visitVars, screen, formVars, requestVars>>

\* Mutant: the congratulations lead nowhere.
DismissAlert_Stays ==
  /\ alert # "none"
  /\ alert' = "none"
  /\ UNCHANGED <<serviceVars, visitVars, screen, formVars, requestVars>>

\* Ok; the button of the congratulations leads to the login screen, that of
\* the password reset to what it has popped to, or nowhere.
DismissAlert ==
  /\ alert # "none"
  /\ alert' = "none"
  /\ screen' = IF alert = "congrats" THEN "login" ELSE screen
  /\ UNCHANGED <<serviceVars, visitVars, formVars, requestVars>>

GoToLogin ==
  /\ Touchable("signUp")
  /\ screen' = "login"
  /\ UNCHANGED <<serviceVars, visitVars, alert, formVars, requestVars>>

\* The link of the login screen pushes a new sign-up screen.
GoToSignUp ==
  /\ Touchable("login")
  /\ visits < MaxVisits /\ showing < MaxShowings
  /\ visits' = visits + 1
  /\ visit' = visits'
  /\ below' = Append(below, [visit |-> visit, text |-> text, hidden |-> hidden])
  /\ showing' = showing + 1
  /\ screen' = "signUp"
  /\ NewForm
  /\ UNCHANGED <<serviceVars, alert, requestVars>>

\* Ok of the password reset, which pops what is in front of a sign-up screen:
\* it is there again, as it was left.
Uncover ==
  /\ alert = "linkSent"
  /\ screen = "login" /\ visit # 0
  /\ showing < MaxShowings
  /\ alert' = "none"
  /\ screen' = "signUp"
  /\ showing' = showing + 1
  /\ UNCHANGED <<serviceVars, visits, visit, below, formVars, requestVars>>

\* Or it pops the sign-up screen in front, which was pushed over another one.
PopSignUp ==
  /\ alert = "linkSent"
  /\ screen = "signUp"
  /\ alert' = "none"
  /\ screen' = "login"
  /\ visit' = Last(below).visit
  /\ text' = Last(below).text
  /\ hidden' = Last(below).hidden
  /\ below' = Front(below)
  /\ UNCHANGED <<serviceVars, visits, showing, requestVars>>

-----------------------------------------------------------------------------
(* The account service answers *)

InStack(v) == v = visit \/ \E form \in ToSet(below) : form.visit = v

\* getAlert of the sign-up screen of visit v: nothing over an alert, nothing by
\* a screen that was popped; if it is covered, whether UIKit presents from its
\* container is left open.
Present(v, message) ==
  IF alert = "none" /\ screen = "signUp" /\ v = visit THEN alert' = message
  ELSE alert' = alert \/ (alert = "none" /\ InStack(v) /\ alert' = message)

CreateSucceeds(r) ==
  /\ r \in creating
  /\ Created(r.account)
  /\ creating' = creating \ {r}
  /\ created' = created \cup {r}
  /\ UNCHANGED <<visitVars, screen, alert, formVars, sending, asked>>

\* createUser's completion with an error: it is printed, no more.
CreateFails(r) ==
  /\ r \in creating
  /\ creating' = creating \ {r}
  /\ UNCHANGED <<serviceVars, visitVars, screen, alert, formVars, created, sending, asked>>

\* The same after the account was made: its answer was lost, or its data could
\* not be read or kept, so nobody is signed in.
CreateUnfinished(r) ==
  /\ r \in creating
  /\ AccountMade(r.account)
  /\ creating' = creating \ {r}
  /\ UNCHANGED <<userVars, visitVars, screen, alert, formVars, created, sending, asked>>

\* Mutant: the mail is asked for without a look at the user.
SendVerificationMail_Always(r) ==
  /\ r \in created
  /\ created' = created \ {r}
  /\ sending' = sending \cup {[email |-> currentUser, visit |-> r.visit, showing |-> r.showing]}
  /\ asked' = asked \cup {currentUser}
  /\ UNCHANGED <<serviceVars, visitVars, screen, alert, formVars, creating>>

\* createUser's completion, sendVerificationMail: to the user now signed in.
SendVerificationMail(r) ==
  /\ r \in created
  /\ ~isEmailVerified
  /\ LET mail == [email |-> currentUser, visit |-> r.visit, showing |-> r.showing]
     IN Asks(mail) /\ sending' = sending \cup {mail}
  /\ created' = created \ {r}
  /\ asked' = asked \cup {currentUser}
  /\ UNCHANGED <<visitVars, screen, alert, formVars, creating>>

\* The same with nobody to activate: the mail is said to be sent.
SendNothing(r) ==
  /\ r \in created
  /\ currentUser = Nobody \/ isEmailVerified
  /\ created' = created \ {r}
  /\ Present(r.visit, "emailSentConfirm")
  /\ UNCHANGED <<serviceVars, visitVars, screen, formVars, creating, sending, asked>>

\* sendEmailVerification's completion: an error is announced in any case.
MailAnswered(s) ==
  /\ s \in sending
  /\ sending' = sending \ {s}
  /\ Answered(s, s.email)
  /\ Present(s.visit, "errorOccurred")
  /\ UNCHANGED <<accounts, active, visitVars, screen, formVars, creating, created, asked>>

\* The same when the service takes the FIRUser's token no more.
MailRefused(s) ==
  /\ s \in sending
  /\ sending' = sending \ {s}
  /\ SignOutByForce(s, s.email)
  /\ Present(s.visit, "errorOccurred")
  /\ UNCHANGED <<accounts, active, visitVars, screen, formVars, creating, created, asked>>

-----------------------------------------------------------------------------
(* The rest of the app and of the world *)

\* What the login screen and the menu behind it do with the account service, or
\* did before this screen was opened: a late answer may push the tabs over it.
Elsewhere ==
  /\ \/ (\E c \in accounts : SignedIn(c.email)) /\ UNCHANGED <<accounts, active>>
     \/ SignedOut /\ UNCHANGED <<accounts, active>>
     \/ \E c \in accounts : AccountsRemoved({c.email}) /\ (SignedOut \/ UNCHANGED userVars)
  /\ screen' \in {screen, "login"}
  /\ UNCHANGED <<visitVars, alert, formVars, requestVars>>

\* A late error of a login screen, or the password reset's late answer, comes up
\* over whatever is in front.
AlertElsewhere ==
  /\ alert = "none"
  /\ alert' \in {"errorOccurred", "linkSent"}
  /\ UNCHANGED <<serviceVars, visitVars, screen, formVars, requestVars>>

FollowsLink ==
  /\ \E email \in asked : Activate(email)
  /\ UNCHANGED <<visitVars, screen, alert, formVars, requestVars>>

\* The process ends and starts again: its completions never run.
Relaunch ==
  /\ visits' = 0 /\ visit' = 0 /\ below' = <<>> /\ showing' = 0
  /\ screen' = "login"
  /\ alert' = "none"
  /\ NewForm
  /\ creating' = {} /\ created' = {} /\ sending' = {} /\ asks' = {}
  /\ UNCHANGED <<accounts, active, currentUser, isEmailVerified, asked>>

UserStep ==
  \/ \E f \in Fields : \E t \in Typed[f] : Edit(f, t)
  \/ SignUp \/ SignUpRefused \/ DismissAlert \/ GoToLogin \/ GoToSignUp
  \/ Uncover \/ PopSignUp

ServiceStep ==
  \/ \E r \in creating : CreateSucceeds(r) \/ CreateFails(r) \/ CreateUnfinished(r)
  \/ \E r \in created : SendVerificationMail(r) \/ SendNothing(r)
  \/ \E s \in sending : MailAnswered(s) \/ MailRefused(s)

Next ==
  /\ UserStep \/ ServiceStep \/ Elsewhere \/ AlertElsewhere \/ FollowsLink \/ Relaunch
  /\ overtaken' = created' \cap (IF currentUser' = currentUser THEN overtaken ELSE created)

Spec == Init /\ [][Next]_vars

-----------------------------------------------------------------------------
(* Properties *)

\* The checks made field by field while the form is edited, in whatever order,
\* add up: no account is created with an e-mail that has not its format or a
\* password shorter than 6 (RastreioBF.strings:27-28), although the button
\* looks at the labels only and none of the texts is checked again.
AccountsWellFormed ==
  \A c \in accounts \ Members : c.email \in Addresses /\ c.password \in Long

\* Nothing disables the button, and still a screen asks for one account only
\* each time it is in front: while its request or its activation mail is under
\* way, the congratulations or something else are in front of it.  It is asked
\* again only when the password reset has brought it back meanwhile, filled as
\* it was.
AskedOncePerShowing ==
  /\ \A q, r \in creating \cup created : q.showing = r.showing => q = r
  /\ \A r \in creating \cup created \cup sending :
       r.showing = showing => screen = "login" \/ alert = "congrats"

\* A new account gets its activation mail asked for, though the completion asks
\* the SDK who is signed in, unless somebody else has signed in or out since
\* the answer or the process has ended: an account that was removed and made
\* again, sign-ins of the same user and refused tokens included.
NewAccountsGetMail ==
  [][\A r \in created \ (created' \cup overtaken) :
       r.account.email \in asked' \/ visits' = 0]_vars

\* passwordsNotEqualError (RastreioBF.strings:29): the confirmation is equal to
\* the password when the account is asked for.
ConfirmedPassword ==
  [][creating' \ creating # {} => text["confirm"] = text["password"]]_vars
=============================================================================
