--------------------------- MODULE AccountService ---------------------------
(***************************************************************************)
(* Firebase Authentication as the app uses it: accounts made of an e-mail  *)
(* and a password, activated by a link sent to the e-mail, and the user    *)
(* the SDK holds for the whole process and keeps in the keychain.  Every   *)
(* sign-in makes a new FIRUser.  A request is made by one FIRUser, and its *)
(* answer may sign out that one only: FIRAuth compares the two uid strings *)
(* by their address, so the same user, signed in again, is another one.    *)
(***************************************************************************)

CONSTANTS
  Texts,    \* texts of the input fields
  Nobody,   \* no user is signed in
  Members   \* accounts that exist, and are active, before

Credentials == [email : Texts, password : Texts]

EmailsOf(credentials) == {c.email : c \in credentials}

ASSUME ServiceAssumption ==
  /\ Members \subseteq Credentials
  /\ Nobody \notin Texts

VARIABLES
  accounts,        \* credentials of every account
  active,          \* e-mails whose link was followed
  currentUser,     \* Auth.auth().currentUser, by its e-mail
  isEmailVerified, \* what this FIRUser was told when it signed in
  asks             \* requests of this FIRUser that are not answered

userVars == <<currentUser, isEmailVerified, asks>>
serviceVars == <<accounts, active, userVars>>

ServiceTypeOK ==
  /\ accounts \subseteq Credentials
  /\ active \subseteq Texts
  /\ currentUser \in Texts \cup {Nobody}
  /\ isEmailVerified \in BOOLEAN

\* Nobody, or the user of an earlier launch, is signed in.
ServiceInit ==
  /\ accounts = Members
  /\ active = EmailsOf(Members)
  /\ currentUser \in EmailsOf(Members) \cup {Nobody}
  /\ isEmailVerified = (currentUser # Nobody)
  /\ asks = {}

\* Mutant: the same user, signed in again, is taken for the same FIRUser.
SignedIn_SameUid(email) ==
  /\ currentUser' = email
  /\ isEmailVerified' = (email \in active)
  /\ asks' = IF currentUser = email THEN asks ELSE {}

\* The account's data has arrived: the new FIRUser becomes the current one,
\* and the app's completion is queued.
SignedIn(email) ==
  /\ currentUser' = email
  /\ isEmailVerified' = (email \in active)
  /\ asks' = {}

\* signUpNewUser: the e-mail of an account is unique.
AccountMade(c) ==
  /\ c.email \notin EmailsOf(accounts)
  /\ accounts' = accounts \cup {c}
  /\ UNCHANGED active

\* createUser as a whole: the new user is signed in.
Created(c) == AccountMade(c) /\ SignedIn(c.email)

SignedOut ==
  /\ currentUser' = Nobody
  /\ isEmailVerified' = FALSE
  /\ asks' = {}

\* The current user makes a request.
Asks(request) ==
  /\ currentUser # Nobody
  /\ asks' = asks \cup {request}
  /\ UNCHANGED <<accounts, active, currentUser, isEmailVerified>>

\* A request of a user with this e-mail is answered without consequences.
Answered(request, email) ==
  /\ asks' = asks \ (IF currentUser = email THEN {request} ELSE {})
  /\ UNCHANGED <<currentUser, isEmailVerified>>

\* signOutByForceWithUserID, by the answer to a request: only if the FIRUser
\* that made it is still the current one.
SignOutByForce(request, email) ==
  IF request \in asks /\ currentUser = email THEN SignedOut ELSE UNCHANGED userVars

\* Mutant: the activation outlives the account.
AccountsRemoved_KeepsActive(emails) ==
  /\ accounts' = {c \in accounts : c.email \notin emails}
  /\ UNCHANGED active

\* deleteAccount: the accounts of these e-mails are removed.
AccountsRemoved(emails) ==
  /\ accounts' = {c \in accounts : c.email \notin emails}
  /\ active' = active \ emails

\* Somebody follows the link of an activation mail.
Activate(email) ==
  /\ email \in EmailsOf(accounts)
  /\ active' = active \cup {email}
  /\ UNCHANGED <<accounts, userVars>>
=============================================================================
