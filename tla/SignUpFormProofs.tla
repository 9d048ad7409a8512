-------------------------- MODULE SignUpFormProofs --------------------------
(***************************************************************************)
(* The accounts of the sign-up form are well formed, and a screen asks for *)
(* one at most each time it is in front, for every alphabet of texts and   *)
(* any number of visits.                                                   *)
(***************************************************************************)
EXTENDS SignUpForm, SequenceTheorems, TLAPS

USE ServiceAssumption, SignUpAssumption DEF visitVars

\* TypeOK without the history variable; the requests of this FIRUser are his.
FormTypeOK ==
  /\ ServiceTypeOK
  /\ visits \in 0..MaxVisits
  /\ visit \in 0..visits
  /\ below \in Seq(Forms)
  /\ showing \in 0..MaxShowings
  /\ screen \in {"signUp", "login"}
  /\ alert \in Alerts
  /\ text \in [Fields -> Texts]
  /\ hidden \in [Fields -> BOOLEAN]
  /\ creating \subseteq Requests
  /\ created \subseteq Requests
  /\ sending \subseteq Sendings
  /\ asked \subseteq Texts
  /\ asks \subseteq sending
  /\ \A s \in asks : s.email = currentUser

\* The form in front is of a screen, and only the first of those beneath it is
\* of none.
Stacked ==
  /\ screen = "signUp" => visit # 0 /\ showing # 0
  /\ visit # 0 => below # <<>>
  /\ \A k \in DOMAIN below :
       /\ below[k].visit <= visits
       /\ below[k].visit # 0 => k # 1

\* What a hidden label says of a text that is not empty; the confirmation's
\* says nothing that lasts.
Vouched(t, h) ==
  /\ h["email"] /\ t["email"] # Empty => t["email"] \in Addresses
  /\ h["password"] /\ t["password"] # Empty => t["password"] \in Long

LabelsMean ==
  /\ Vouched(text, hidden)
  /\ \A k \in DOMAIN below : Vouched(below[k].text, below[k].hidden)

\* Requests keep the texts they were made of.
RequestsWellFormed ==
  \A r \in creating : r.account.email \in Addresses /\ r.account.password \in Long

FormInv == FormTypeOK /\ Stacked /\ LabelsMean /\ RequestsWellFormed /\ AccountsWellFormed

LEMMA PushForm ==
  ASSUME below \in Seq(Forms), NEW form \in Forms
  PROVE  /\ Append(below, form) \in Seq(Forms) \ {<<>>}
         /\ \A k \in DOMAIN Append(below, form) :
              \/ k \in DOMAIN below /\ Append(below, form)[k] = below[k]
              \/ k = Len(below) + 1 /\ Append(below, form)[k] = form
  OBVIOUS

LEMMA PopForm ==
  ASSUME below \in Seq(Forms), below # <<>>
  PROVE  /\ Front(below) \in Seq(Forms)
         /\ \A k \in DOMAIN Front(below) : k \in DOMAIN below /\ Front(below)[k] = below[k]
         /\ Len(below) \in DOMAIN below /\ Last(below) = below[Len(below)]
         /\ Front(below) = <<>> => Len(below) = 1
<1>1. Len(below) \in Nat \ {0}
  OBVIOUS
<1>2. Front(below) = SubSeq(below, 1, Len(below) - 1) /\ Last(below) = below[Len(below)]
  BY DEF Front, Last
<1>3. \A k \in 1..(Len(below) - 1) : below[k] \in Forms
  BY <1>1
<1>4. /\ Front(below) \in Seq(Forms) /\ Len(Front(below)) = Len(below) - 1
      /\ \A k \in 1..(Len(below) - 1) : Front(below)[k] = below[k]
  <2> DEFINE n == Len(below) - 1
  <2>1. n \in Int /\ 1 \in Int /\ \A k \in 1..n : below[k] \in Forms
    BY <1>1, <1>3
  <2>2. /\ SubSeq(below, 1, n) \in Seq(Forms)
        /\ Len(SubSeq(below, 1, n)) = IF 1 <= n THEN n - 1 + 1 ELSE 0
        /\ \A k \in 1..(n - 1 + 1) : SubSeq(below, 1, n)[k] = below[1 + k - 1]
    <3> HIDE DEF n
    <3> QED
      BY <2>1, SubSeqProperties
  <2> DEFINE front == SubSeq(below, 1, n)
  <2>3. n \in Nat
    BY <1>1
  <2>4. Len(front) = n /\ \A k \in 1..n : front[k] = below[k]
    <3> HIDE DEF n, front
    <3>1. Len(front) = n
      BY <2>2, <2>3 DEF front
    <3>2. ASSUME NEW k \in 1..n
          PROVE  front[k] = below[k]
      <4>1. k \in 1..(n - 1 + 1) /\ 1 + k - 1 = k
        BY <2>3, <3>2
      <4> QED
        BY <2>2, <4>1 DEF front
    <3> QED
      BY <3>1, <3>2
  <2> QED
    BY <1>2, <2>2, <2>4
<1>5. DOMAIN below = 1..Len(below) /\ DOMAIN Front(below) = 1..(Len(below) - 1)
  BY <1>1, <1>4
<1>6. Front(below) = <<>> => Len(below) = 1
  BY <1>1, <1>4
<1> QED
  BY <1>1, <1>2, <1>4, <1>5, <1>6

LEMMA FormInvInit == Init => FormInv
<1> SUFFICES ASSUME Init PROVE FormInv
  OBVIOUS
<1>1. FormTypeOK
  BY DEF Init, FormTypeOK, ServiceInit, ServiceTypeOK, EmailsOf, Credentials, Alerts
<1>2. LabelsMean
  BY DEF Init, LabelsMean, Vouched, Fields
<1> QED
  BY <1>1, <1>2 DEF FormInv, Init, ServiceInit, Stacked, RequestsWellFormed,
     AccountsWellFormed

LEMMA EditInv ==
  ASSUME FormInv, NEW f \in Fields, NEW t \in Typed[f], Edit(f, t)
  PROVE  FormInv'
<1>1. t \in Texts
  BY DEF Fields
<1>2. Accepts(f, t) \in BOOLEAN
  BY DEF Accepts
<1>3. FormTypeOK'
  BY <1>1, <1>2 DEF Edit, FormInv, FormTypeOK, ServiceTypeOK, serviceVars, userVars, requestVars
<1>4. LabelsMean'
  <2>1. /\ text' = [text EXCEPT ![f] = t]
        /\ hidden' = [hidden EXCEPT ![f] = Accepts(f, t)]
        /\ text \in [Fields -> Texts]
        /\ hidden \in [Fields -> BOOLEAN]
    BY DEF Edit, FormInv, FormTypeOK
  <2>2. Vouched(text, hidden)
    BY DEF FormInv, LabelsMean
  <2>3. Vouched(text', hidden')
    <3>1. CASE f = "email"
      BY <2>1, <2>2, <3>1 DEF Vouched, Accepts, Fields
    <3>2. CASE f = "password"
      BY <2>1, <2>2, <3>2 DEF Vouched, Accepts, Fields
    <3>3. CASE f \notin {"email", "password"}
      BY <2>1, <2>2, <3>3 DEF Vouched, Fields
    <3> QED
      BY <3>1, <3>2, <3>3
  <2> QED
    BY <2>3 DEF FormInv, LabelsMean, Edit
<1> QED
  BY <1>3, <1>4 DEF Edit, FormInv, Stacked, RequestsWellFormed, AccountsWellFormed,
     serviceVars, userVars, requestVars

LEMMA SignUpInv ==
  ASSUME FormInv, SignUp
  PROVE  FormInv'
<1> DEFINE new == [account |-> [email |-> text["email"], password |-> text["password"]],
                   visit |-> visit, showing |-> showing]
<1>1. /\ text["email"] \in Texts \cap Addresses
      /\ text["password"] \in Texts \cap Long
  BY DEF SignUp, VerifySignUp, FormInv, FormTypeOK, LabelsMean, Vouched, Fields
<1>2. new \in Requests
  <2>1. /\ visit \in 1..MaxVisits /\ showing \in 1..MaxShowings
    BY DEF SignUp, Touchable, FormInv, FormTypeOK, Stacked
  <2> QED
    BY <1>1, <2>1 DEF Requests, Credentials
<1>3. creating' = creating \cup {new}
  BY DEF SignUp
<1>4. FormTypeOK'
  BY <1>2, <1>3 DEF SignUp, FormInv, FormTypeOK, ServiceTypeOK, serviceVars, userVars,
     formVars, Alerts
<1>5. RequestsWellFormed'
  BY <1>1, <1>3 DEF FormInv, RequestsWellFormed
<1> QED
  BY <1>4, <1>5 DEF SignUp, FormInv, Stacked, LabelsMean, AccountsWellFormed, serviceVars, userVars,
     formVars

LEMMA CreatedType ==
  ASSUME ServiceTypeOK, NEW c \in Credentials, Created(c)
  PROVE  ServiceTypeOK'
BY DEF ServiceTypeOK, Created, AccountMade, SignedIn, Credentials

LEMMA FormInvNext == FormInv /\ [Next]_vars => FormInv'
<1> SUFFICES ASSUME FormInv, [Next]_vars PROVE FormInv'
  OBVIOUS
<1> USE DEF FormInv
<1>1. CASE \E f \in Fields : \E t \in Typed[f] : Edit(f, t)
  BY <1>1, EditInv
<1>2. CASE SignUp
  BY <1>2, SignUpInv
<1>3. CASE SignUpRefused \/ DismissAlert \/ GoToLogin
  <2>1. FormTypeOK'
    BY <1>3 DEF SignUpRefused, DismissAlert, GoToLogin, FormTypeOK, ServiceTypeOK, serviceVars,
       userVars, formVars, requestVars, Alerts
  <2> QED
    BY <1>3, <2>1 DEF SignUpRefused, DismissAlert, GoToLogin, Stacked, LabelsMean,
       RequestsWellFormed, AccountsWellFormed, serviceVars, userVars, formVars, requestVars
<1>4. CASE Relaunch
  <2>1. text' \in [Fields -> Texts] /\ hidden' \in [Fields -> BOOLEAN] /\ Vouched(text', hidden')
    BY <1>4 DEF Relaunch, NewForm, Vouched, Fields
  <2>2. FormTypeOK'
    BY <1>4, <2>1 DEF Relaunch, FormTypeOK, ServiceTypeOK, Alerts
  <2> QED
    BY <1>4, <2>1, <2>2 DEF Relaunch, Stacked, LabelsMean, RequestsWellFormed,
       AccountsWellFormed
<1>14. CASE GoToSignUp
  <2> DEFINE form == [visit |-> visit, text |-> text, hidden |-> hidden]
  <2>1. form \in Forms
    BY DEF FormTypeOK, Forms
  <2>2. below' = Append(below, form)
    BY <1>14 DEF GoToSignUp
  <2>3. /\ below' \in Seq(Forms) \ {<<>>}
        /\ \A k \in DOMAIN below' :
             \/ k \in DOMAIN below /\ below'[k] = below[k]
             \/ k = Len(below) + 1 /\ below'[k] = form
    BY <2>1, <2>2, PushForm DEF FormTypeOK
  <2>4. /\ text' \in [Fields -> Texts] /\ hidden' \in [Fields -> BOOLEAN]
        /\ Vouched(text', hidden')
    BY <1>14 DEF GoToSignUp, NewForm, Vouched, Fields
  <2>5. /\ visits' \in 0..MaxVisits /\ visit' \in 0..visits' /\ showing' \in 0..MaxShowings
        /\ visit' # 0 /\ showing' # 0 /\ visits' = visits + 1
    BY <1>14 DEF GoToSignUp, FormTypeOK
  <2>6. FormTypeOK'
    BY <1>14, <2>3, <2>4, <2>5 DEF GoToSignUp, FormTypeOK, ServiceTypeOK, serviceVars, userVars,
       requestVars
  <2>7. ASSUME NEW k \in DOMAIN below'
        PROVE  /\ below'[k].visit <= visits' /\ (below'[k].visit # 0 => k # 1)
               /\ Vouched(below'[k].text, below'[k].hidden)
    <3>1. CASE k \in DOMAIN below /\ below'[k] = below[k]
      <4>0. below[k] \in Forms
        BY <3>1 DEF FormTypeOK
      <4>1. /\ below[k].visit <= visits /\ (below[k].visit # 0 => k # 1)
            /\ Vouched(below[k].text, below[k].hidden)
        BY <3>1 DEF Stacked, LabelsMean
      <4>2. below[k].visit \in Nat /\ visits \in Nat
        BY <4>0 DEF FormTypeOK, Forms
      <4> QED
        BY <3>1, <4>1, <4>2, <2>5
    <3>2. CASE k = Len(below) + 1 /\ below'[k] = form
      <4>1. visit <= visits' /\ Vouched(text, hidden)
        BY <2>5 DEF FormTypeOK, LabelsMean
      <4>2. visit # 0 => Len(below) # 0
        BY DEF FormTypeOK, Stacked
      <4> QED
        BY <3>2, <4>1, <4>2 DEF FormTypeOK
    <3> QED
      BY <2>3, <3>1, <3>2
  <2>8. Stacked' /\ LabelsMean'
    BY <2>3, <2>4, <2>5, <2>7 DEF Stacked, LabelsMean
  <2> QED
    BY <1>14, <2>6, <2>8 DEF GoToSignUp, RequestsWellFormed, AccountsWellFormed, serviceVars,
       requestVars
<1>15. CASE PopSignUp
  <2>1. below # <<>> /\ below \in Seq(Forms)
    BY <1>15 DEF PopSignUp, FormTypeOK, Stacked
  <2> DEFINE form == below[Len(below)]
  <2>2. /\ Len(below) \in DOMAIN below
        /\ visit' = form.visit /\ text' = form.text /\ hidden' = form.hidden
        /\ below' \in Seq(Forms)
        /\ \A k \in DOMAIN below' : k \in DOMAIN below /\ below'[k] = below[k]
        /\ below' = <<>> => Len(below) = 1
    BY <1>15, <2>1, PopForm DEF PopSignUp
  <2>3. /\ form \in Forms /\ form.visit <= visits /\ Vouched(form.text, form.hidden)
        /\ form.visit # 0 => Len(below) # 1
    <3>1. form \in Forms
      BY <2>1, <2>2
    <3>2. \A k \in DOMAIN below :
            /\ below[k].visit <= visits
            /\ below[k].visit # 0 => k # 1
            /\ Vouched(below[k].text, below[k].hidden)
      BY DEF Stacked, LabelsMean
    <3> QED
      BY <2>2, <3>1, <3>2
  <2>4. visits' = visits /\ screen' = "login"
    BY <1>15 DEF PopSignUp
  <2> HIDE DEF form
  <2>5. /\ visit' \in 0..visits' /\ text' \in [Fields -> Texts]
        /\ hidden' \in [Fields -> BOOLEAN]
    BY <2>2, <2>3, <2>4 DEF Forms, FormTypeOK
  <2>6. FormTypeOK'
    BY <1>15, <2>2, <2>5 DEF PopSignUp, FormTypeOK, ServiceTypeOK, serviceVars, userVars,
       requestVars, Alerts
  <2>7. Stacked' /\ LabelsMean'
    BY <2>2, <2>3, <2>4 DEF Stacked, LabelsMean
  <2> QED
    BY <1>15, <2>6, <2>7 DEF PopSignUp, RequestsWellFormed, AccountsWellFormed, serviceVars,
       requestVars
<1>16. CASE Uncover \/ AlertElsewhere
  <2>1. FormTypeOK' /\ Stacked'
    BY <1>16 DEF Uncover, AlertElsewhere, FormTypeOK, ServiceTypeOK, Stacked, serviceVars,
       userVars, formVars, requestVars, Alerts
  <2> QED
    BY <1>16, <2>1 DEF Uncover, AlertElsewhere, LabelsMean, RequestsWellFormed,
       AccountsWellFormed, serviceVars, formVars, requestVars
<1>5. CASE \E r \in creating : CreateSucceeds(r)
  <2>1. PICK r \in creating : CreateSucceeds(r)
    BY <1>5
  <2>2. r \in Requests /\ r.account \in Credentials
    BY DEF FormTypeOK, Requests
  <2>3. ServiceTypeOK' /\ asks' = {}
    BY <2>1, <2>2, CreatedType DEF CreateSucceeds, FormTypeOK, Created, SignedIn
  <2>4. FormTypeOK'
    BY <2>1, <2>2, <2>3 DEF CreateSucceeds, FormTypeOK, formVars
  <2>5. AccountsWellFormed'
    BY <2>1 DEF CreateSucceeds, Created, AccountMade, AccountsWellFormed, RequestsWellFormed
  <2> QED
    BY <2>1, <2>5, <2>4 DEF CreateSucceeds, Stacked, LabelsMean, RequestsWellFormed, formVars
<1>6. CASE \E r \in creating : CreateFails(r)
  <2>1. FormTypeOK'
    BY <1>6 DEF CreateFails, FormTypeOK, ServiceTypeOK, serviceVars, userVars, formVars
  <2> QED
    BY <1>6, <2>1 DEF CreateFails, Stacked, LabelsMean, RequestsWellFormed, AccountsWellFormed,
       serviceVars, userVars, formVars
<1>7. CASE \E r \in creating : CreateUnfinished(r)
  <2>1. PICK r \in creating : CreateUnfinished(r)
    BY <1>7
  <2>2. r \in Requests /\ r.account \in Credentials
    BY DEF FormTypeOK, Requests
  <2>3. FormTypeOK'
    BY <2>1, <2>2 DEF CreateUnfinished, AccountMade, FormTypeOK, ServiceTypeOK, userVars, formVars
  <2>4. AccountsWellFormed'
    BY <2>1 DEF CreateUnfinished, AccountMade, AccountsWellFormed, RequestsWellFormed
  <2> QED
    BY <2>1, <2>3, <2>4 DEF CreateUnfinished, Stacked, LabelsMean, RequestsWellFormed, formVars
<1>8. CASE \E r \in created : SendVerificationMail(r)
  <2>1. PICK r \in created : SendVerificationMail(r)
    BY <1>8
  <2>2. /\ [email |-> currentUser, visit |-> r.visit, showing |-> r.showing] \in Sendings
        /\ currentUser \in Texts
    BY <2>1 DEF SendVerificationMail, Asks, FormTypeOK, ServiceTypeOK, Sendings, Requests
  <2>3. FormTypeOK'
    BY <2>1, <2>2 DEF SendVerificationMail, Asks, FormTypeOK, ServiceTypeOK, formVars
  <2> QED
    BY <2>1, <2>3 DEF SendVerificationMail, Asks, Stacked, LabelsMean, RequestsWellFormed,
       AccountsWellFormed, serviceVars, userVars, formVars
<1>9. CASE \E r \in created : SendNothing(r)
  <2>1. FormTypeOK'
    BY <1>9 DEF SendNothing, Present, FormTypeOK, ServiceTypeOK, serviceVars, userVars, formVars,
       Alerts
  <2> QED
    BY <1>9, <2>1 DEF SendNothing, Stacked, LabelsMean, RequestsWellFormed, AccountsWellFormed,
       serviceVars, formVars
<1>10. CASE \E s \in sending : MailAnswered(s) \/ MailRefused(s)
  <2>1. PICK s \in sending : MailAnswered(s) \/ MailRefused(s)
    BY <1>10
  <2> DEFINE AsksOK == asks \subseteq sending /\ \A q \in asks : q.email = currentUser
  <2>5. sending' = sending \ {s} /\ UNCHANGED <<accounts, active>>
    BY <2>1 DEF MailAnswered, MailRefused
  <2>2. ServiceTypeOK' /\ AsksOK'
    <3>1. SignedOut \/ (UNCHANGED userVars /\ s \notin asks) \/ Answered(s, s.email)
      BY <2>1 DEF MailAnswered, MailRefused, SignOutByForce, FormTypeOK
    <3>2. CASE SignedOut
      BY <2>5, <3>2 DEF SignedOut, FormTypeOK, ServiceTypeOK
    <3>3. CASE UNCHANGED userVars /\ s \notin asks
      BY <2>5, <3>3 DEF userVars, FormTypeOK, ServiceTypeOK
    <3>4. CASE Answered(s, s.email)
      <4>1. asks' = asks \ {s} /\ UNCHANGED <<currentUser, isEmailVerified>>
        BY <3>4 DEF Answered, FormTypeOK
      <4> QED
        BY <2>5, <4>1 DEF FormTypeOK, ServiceTypeOK
    <3> QED
      BY <3>1, <3>2, <3>3, <3>4
  <2>3. FormTypeOK'
    BY <2>1, <2>2 DEF MailAnswered, MailRefused, Present, FormTypeOK, formVars, Alerts
  <2> QED
    BY <2>1, <2>3 DEF MailAnswered, MailRefused, Stacked, LabelsMean, RequestsWellFormed,
       AccountsWellFormed, formVars
<1>11. CASE Elsewhere
  <2>1. ServiceTypeOK /\ \A c \in accounts : c.email \in Texts
    BY DEF FormTypeOK, ServiceTypeOK, Credentials
  <2>2. accounts' \subseteq accounts /\ active' \subseteq active
    BY <1>11 DEF Elsewhere, AccountsRemoved
  <2>3. \/ \E c \in accounts : SignedIn(c.email)
        \/ SignedOut
        \/ UNCHANGED userVars
    BY <1>11 DEF Elsewhere
  <2>4. ServiceTypeOK' /\ (asks' = {} \/ UNCHANGED <<asks, currentUser>>)
    <3>1. CASE \E c \in accounts : SignedIn(c.email)
      BY <2>1, <2>2, <3>1 DEF SignedIn, ServiceTypeOK
    <3>2. CASE SignedOut
      BY <2>1, <2>2, <3>2 DEF SignedOut, ServiceTypeOK
    <3>3. CASE UNCHANGED userVars
      BY <2>1, <2>2, <3>3 DEF userVars, ServiceTypeOK
    <3> QED
      BY <2>3, <3>1, <3>2, <3>3
  <2>5. FormTypeOK' /\ Stacked'
    BY <1>11, <2>4 DEF Elsewhere, FormTypeOK, Stacked, formVars, requestVars
  <2> QED
    BY <1>11, <2>2, <2>5 DEF Elsewhere, LabelsMean, RequestsWellFormed, AccountsWellFormed,
       formVars, requestVars
<1>12. CASE FollowsLink
  <2>1. PICK e \in asked : Activate(e)
    BY <1>12 DEF FollowsLink
  <2>2. FormTypeOK'
    BY <1>12, <2>1 DEF FollowsLink, Activate, userVars, FormTypeOK, ServiceTypeOK, formVars,
       requestVars
  <2> QED
    BY <1>12, <2>1, <2>2 DEF FollowsLink, Activate, Stacked, LabelsMean, RequestsWellFormed,
       AccountsWellFormed, formVars, requestVars
<1>13. CASE UNCHANGED vars
  BY <1>13 DEF vars, serviceVars, userVars, formVars, requestVars, FormTypeOK, ServiceTypeOK,
     Stacked, LabelsMean, RequestsWellFormed, AccountsWellFormed
<1> QED
  BY <1>1, <1>2, <1>3, <1>4, <1>5, <1>6, <1>7, <1>8, <1>9, <1>10,
     <1>11, <1>12, <1>13, <1>14, <1>15, <1>16 DEF Next, UserStep, ServiceStep

\* Every state of the form, its requests and the service has its type.
THEOREM TypeCorrect == Spec => []TypeOK
<1> DEFINE History == overtaken \subseteq created
<1>1. FormInv /\ History => TypeOK
  BY DEF FormInv, FormTypeOK, TypeOK
<1>2. Init => History
  BY DEF Init
<1>3. History /\ [Next]_vars => History'
  BY DEF Next, vars, requestVars
<1> QED
  BY <1>1, <1>2, <1>3, FormInvInit, FormInvNext, PTL DEF Spec

\* Whatever the user types and in whatever order, every account the form
\* creates has a well-formed e-mail and a long enough password.
THEOREM CreatesWellFormed == Spec => []AccountsWellFormed
<1>1. FormInv => AccountsWellFormed
  BY DEF FormInv
<1> QED
  BY <1>1, FormInvInit, FormInvNext, PTL DEF Spec

-----------------------------------------------------------------------------
(* One request for each time a screen is in front *)

\* Requests come from showings of this process.
FromShowings == \A r \in creating \cup created \cup sending : r.showing <= showing

AskInv == FormInv /\ AskedOncePerShowing /\ FromShowings

LEMMA AskInvNext == AskInv /\ [Next]_vars => AskInv'
<1> SUFFICES ASSUME AskInv, [Next]_vars PROVE AskedOncePerShowing' /\ FromShowings'
  BY FormInvNext DEF AskInv
<1> USE DEF AskInv
<1>0. /\ showing \in Nat
      /\ \A r \in creating \cup created \cup sending : r.showing \in Nat
  BY DEF FormInv, FormTypeOK, Requests, Sendings
<1>1. CASE UNCHANGED <<visitVars, screen, alert, requestVars>>
  BY <1>1 DEF AskedOncePerShowing, FromShowings, requestVars
<1>2. CASE SignUp
  <2>1. \A r \in creating \cup created \cup sending : r.showing # showing
    BY <1>2 DEF SignUp, Touchable, AskedOncePerShowing
  <2> DEFINE new == [account |-> [email |-> text["email"], password |-> text["password"]],
                     visit |-> visit, showing |-> showing]
  <2>2. creating' = creating \cup {new} /\ new.showing = showing
    BY <1>2 DEF SignUp
  <2> HIDE DEF new
  <2>3. alert' = "congrats" /\ UNCHANGED <<showing, created, sending>>
    BY <1>2 DEF SignUp
  <2> QED
    BY <1>0, <2>1, <2>2, <2>3 DEF AskedOncePerShowing, FromShowings
<1>3. CASE SignUpRefused \/ DismissAlert \/ GoToLogin \/ PopSignUp \/ AlertElsewhere
  BY <1>3 DEF SignUpRefused, DismissAlert, GoToLogin, PopSignUp, AlertElsewhere, Touchable,
     AskedOncePerShowing, FromShowings, requestVars
<1>4. CASE GoToSignUp \/ Uncover
  <2>1. showing' = showing + 1 /\ UNCHANGED <<creating, created, sending>>
    BY <1>4 DEF GoToSignUp, Uncover, requestVars
  <2>2. \A r \in creating \cup created \cup sending : r.showing <= showing' /\ r.showing # showing'
    BY <1>0, <2>1 DEF FromShowings
  <2> QED
    BY <2>1, <2>2 DEF AskedOncePerShowing, FromShowings
<1>5. CASE Relaunch
  BY <1>5 DEF Relaunch, AskedOncePerShowing, FromShowings
<1>6. CASE Elsewhere
  BY <1>6 DEF Elsewhere, AskedOncePerShowing, FromShowings, requestVars
<1>7. CASE \E r \in creating : CreateSucceeds(r) \/ CreateFails(r) \/ CreateUnfinished(r)
  BY <1>7 DEF CreateSucceeds, CreateFails, CreateUnfinished, AskedOncePerShowing, FromShowings
<1>8. CASE \E r \in created : SendVerificationMail(r)
  BY <1>8 DEF SendVerificationMail, AskedOncePerShowing, FromShowings
<1>9. CASE \/ \E r \in created : SendNothing(r)
           \/ \E s \in sending : MailAnswered(s) \/ MailRefused(s)
  BY <1>9 DEF SendNothing, MailAnswered, MailRefused, Present, AskedOncePerShowing, FromShowings
<1> QED
  BY <1>1, <1>2, <1>3, <1>4, <1>5, <1>6, <1>7, <1>8, <1>9
     DEF Next, UserStep, ServiceStep, Edit, FollowsLink, vars

\* For any number of visits, and whatever the password reset pops: each time a
\* screen is in front it asks for one account at most, and it never stands open
\* to another try while that one is under way.
THEOREM AsksOnce == Spec => []AskedOncePerShowing
<1>1. Init => AskInv
  BY FormInvInit DEF Init, AskInv, AskedOncePerShowing, FromShowings
<1>2. AskInv => AskedOncePerShowing
  BY DEF AskInv
<1> QED
  BY <1>1, <1>2, AskInvNext, PTL DEF Spec

-----------------------------------------------------------------------------
(* The activation mail of a new account *)

\* Only accounts that exist are active: an e-mail that is free is not.
ActiveExist == active \subseteq EmailsOf(accounts)

\* Until its completion runs, the user of a new account is signed in, and if he
\* is active he has asked for the mail before.
MailDue ==
  \A r \in created \ overtaken :
    /\ currentUser = r.account.email
    /\ r.account.email \in active \/ isEmailVerified => r.account.email \in asked

MailInv == ActiveExist /\ MailDue

\* Any step that signs nobody else in or out leaves what is due.
LEMMA MailKept ==
  ASSUME MailDue, [Next]_vars, created' \subseteq created,
         asked \subseteq asked',
         currentUser' = currentUser =>
           /\ active' \subseteq active
           /\ isEmailVerified' => isEmailVerified \/ currentUser \in active
  PROVE  MailDue'
<1> SUFFICES ASSUME NEW r \in created' \ overtaken'
             PROVE  /\ currentUser' = r.account.email
                    /\ r.account.email \in active' \/ isEmailVerified'
                         => r.account.email \in asked'
  BY DEF MailDue
<1>1. currentUser' = currentUser /\ r \notin overtaken
  BY DEF Next, vars, serviceVars, userVars, requestVars
<1> QED
  BY <1>1 DEF MailDue

LEMMA MailInvNext == MailInv /\ [Next]_vars => MailInv'
<1> SUFFICES ASSUME MailInv, [Next]_vars PROVE MailInv'
  OBVIOUS
<1> USE DEF MailInv
<1>1. CASE UNCHANGED <<accounts, active, currentUser, isEmailVerified, created>>
           /\ asked \subseteq asked'
  BY <1>1, MailKept DEF ActiveExist, EmailsOf
<1>2. CASE \E r \in creating : CreateSucceeds(r)
  <2>1. PICK q \in creating : CreateSucceeds(q)
    BY <1>2
  <2> DEFINE e == q.account.email
  <2>2. /\ e \notin EmailsOf(accounts) /\ accounts' = accounts \cup {q.account}
        /\ currentUser' = e /\ isEmailVerified' = (e \in active)
        /\ UNCHANGED <<active, asked>>
        /\ created' = created \cup {q}
    BY <2>1 DEF CreateSucceeds, Created, AccountMade, SignedIn
  <2>3. ActiveExist' /\ e \notin active' /\ ~isEmailVerified'
    BY <2>2 DEF ActiveExist, EmailsOf
  <2>4. ASSUME NEW r \in created' \ overtaken'
        PROVE  r.account.email = e
    <3>1. r = q \/ (r \in created \ overtaken /\ currentUser' = currentUser)
      BY <2>2, <2>4 DEF Next, vars, serviceVars, userVars, requestVars
    <3> QED
      BY <2>2, <3>1 DEF MailDue
  <2> QED
    BY <2>2, <2>3, <2>4 DEF MailDue
<1>3. CASE \E r \in creating : CreateUnfinished(r)
  <2>1. accounts \subseteq accounts' /\ UNCHANGED <<active, userVars, created, asked>>
    BY <1>3 DEF CreateUnfinished, AccountMade
  <2> QED
    BY <2>1, MailKept DEF ActiveExist, EmailsOf, userVars
<1>4. CASE \E r \in created : SendVerificationMail(r) \/ SendNothing(r)
  <2>1. /\ UNCHANGED <<accounts, active, currentUser, isEmailVerified>>
        /\ created' \subseteq created /\ asked \subseteq asked'
    BY <1>4 DEF SendVerificationMail, SendNothing, Asks, serviceVars, userVars
  <2> QED
    BY <2>1, MailKept DEF ActiveExist
<1>5. CASE \E s \in sending : MailAnswered(s) \/ MailRefused(s)
  <2>1. /\ UNCHANGED <<accounts, active, created, asked>>
        /\ SignedOut \/ UNCHANGED <<currentUser, isEmailVerified>>
    BY <1>5 DEF MailAnswered, MailRefused, Answered, SignOutByForce, userVars
  <2> QED
    BY <2>1, MailKept DEF ActiveExist, SignedOut
<1>6. CASE Elsewhere
  <2>1. UNCHANGED <<created, asked>>
    BY <1>6 DEF Elsewhere, requestVars
  <2>2. ActiveExist' /\ active' \subseteq active
    <3>1. CASE UNCHANGED <<accounts, active>>
      BY <3>1 DEF ActiveExist, EmailsOf
    <3>2. ASSUME NEW c \in accounts, AccountsRemoved({c.email})
          PROVE  ActiveExist' /\ active' \subseteq active
      <4>1. /\ active' = active \ {c.email}
            /\ accounts' = {d \in accounts : d.email # c.email}
        BY <3>2 DEF AccountsRemoved
      <4>2. ASSUME NEW e \in active' PROVE e \in EmailsOf(accounts')
        <5>1. PICK d \in accounts : d.email = e
          BY <4>1 DEF ActiveExist, EmailsOf
        <5> QED
          BY <4>1, <5>1 DEF EmailsOf
      <4> QED
        BY <4>1, <4>2 DEF ActiveExist
    <3> QED
      BY <1>6, <3>1, <3>2 DEF Elsewhere
  <2>3. isEmailVerified' => isEmailVerified \/ currentUser' \in active
    BY <1>6 DEF Elsewhere, SignedIn, SignedOut, userVars
  <2> QED
    BY <2>1, <2>2, <2>3, MailKept
<1>7. CASE FollowsLink
  <2>1. PICK e \in asked : Activate(e)
    BY <1>7 DEF FollowsLink
  <2>2. /\ e \in EmailsOf(accounts) /\ active' = active \cup {e}
        /\ UNCHANGED <<accounts, userVars, created, asked>>
    BY <1>7, <2>1 DEF FollowsLink, Activate, requestVars
  <2>3. ActiveExist'
    BY <2>2 DEF ActiveExist, EmailsOf
  <2>4. created' \ overtaken' = created \ overtaken
    BY <1>7, <2>2 DEF Next, vars, userVars
  <2> QED
    BY <2>2, <2>3, <2>4 DEF MailDue, userVars
<1>8. CASE Relaunch
  BY <1>8, MailKept DEF Relaunch, ActiveExist, EmailsOf
<1>9. CASE \/ UserStep \/ AlertElsewhere
           \/ \E r \in creating : CreateFails(r)
           \/ UNCHANGED vars
  BY <1>1, <1>9 DEF UserStep, Edit, SignUp, SignUpRefused, DismissAlert, GoToLogin, GoToSignUp,
     Uncover, PopSignUp, AlertElsewhere, CreateFails, vars, serviceVars, userVars, requestVars
<1> QED
  BY <1>2, <1>3, <1>4, <1>5, <1>6, <1>7, <1>8, <1>9 DEF Next, ServiceStep

\* For any number of visits, any accounts and whatever happens elsewhere: the
\* activation mail of a new account is asked for, unless somebody else has come
\* or gone meanwhile or the process has ended.
THEOREM GetsMail == Spec => NewAccountsGetMail
<1> DEFINE Asked == \A r \in created \ (created' \cup overtaken) :
                      r.account.email \in asked' \/ visits' = 0
<1>1. Init => MailInv
  BY DEF Init, ServiceInit, MailInv, ActiveExist, MailDue
<1>2. FormInv /\ MailInv /\ [Next]_vars => [Asked]_vars
  <2> SUFFICES ASSUME FormInv, MailInv, Next,
                      NEW r \in created \ (created' \cup overtaken),
                      ~Relaunch
               PROVE  r.account.email \in asked'
    BY DEF Relaunch
  <2>1. currentUser = r.account.email /\ (isEmailVerified => r.account.email \in asked)
    BY DEF MailInv, MailDue
  <2>2. r.account.email # Nobody
    BY DEF FormInv, FormTypeOK, Requests, Credentials
  <2>3. SendVerificationMail(r) \/ SendNothing(r)
    BY DEF Next, UserStep, ServiceStep, Edit, SignUp, SignUpRefused, DismissAlert, GoToLogin,
       GoToSignUp, Uncover, PopSignUp, AlertElsewhere, CreateSucceeds, CreateFails,
       CreateUnfinished, SendVerificationMail, SendNothing, MailAnswered, MailRefused,
       Elsewhere, FollowsLink, requestVars
  <2> QED
    BY <2>1, <2>2, <2>3 DEF SendVerificationMail, SendNothing
<1> QED
  BY <1>1, <1>2, FormInvInit, FormInvNext, MailInvNext, PTL DEF Spec, NewAccountsGetMail

-----------------------------------------------------------------------------
(* Where the confirmation counts *)

\* The password is edited only while the confirmation is empty: the user does
\* not go back to it.  Another screen in front is no edit.
PasswordFirst ==
  visit' = visit /\ text'["password"] # text["password"] => text'["confirm"] = Empty

\* The label of the confirmation is hidden only over the password's text, or
\* over no text at all.
Matches(t, h) == h["confirm"] => t["confirm"] \in {Empty, t["password"]}

Confirmed ==
  /\ Matches(text, hidden)
  /\ \A k \in DOMAIN below : Matches(below[k].text, below[k].hidden)

LEMMA ConfirmedNext ==
  ASSUME FormInv, Confirmed, [Next /\ PasswordFirst]_vars
  PROVE  Confirmed'
<1> DEFINE Kept == UNCHANGED <<formVars, below>>
<1>0. text \in [Fields -> Texts] /\ hidden \in [Fields -> BOOLEAN] /\ Matches(text, hidden)
  BY DEF FormInv, FormTypeOK, Confirmed
<1>1. Kept => Confirmed'
  BY DEF formVars, Confirmed
<1>2. NewForm => Matches(text', hidden')
  BY DEF NewForm, Matches, Fields
<1>3. ASSUME NEW f \in Fields, NEW t \in Typed[f], Edit(f, t), PasswordFirst
      PROVE  Confirmed'
  <2>1. /\ text' = [text EXCEPT ![f] = t]
        /\ hidden' = [hidden EXCEPT ![f] = Accepts(f, t)]
        /\ UNCHANGED <<below, visit>>
    BY <1>3 DEF Edit
  <2>2. Matches(text', hidden')
    <3>1. CASE f = "confirm"
      <4>1. /\ text'["confirm"] = t /\ text'["password"] = text["password"]
            /\ hidden'["confirm"] = Accepts("confirm", t)
        BY <1>0, <2>1, <3>1 DEF Fields
      <4>2. Accepts("confirm", t) => t = text["password"]
        BY DEF Accepts
      <4> QED
        BY <4>1, <4>2 DEF Matches
    <3>2. CASE f = "password"
      <4>1. text'["confirm"] = text["confirm"] /\ hidden'["confirm"] = hidden["confirm"]
        BY <1>0, <2>1, <3>2 DEF Fields
      <4>2. text'["password"] = text["password"] \/ text'["confirm"] = Empty
        BY <1>3, <2>1 DEF PasswordFirst
      <4> QED
        BY <1>0, <4>1, <4>2 DEF Matches
    <3>3. CASE f \notin {"confirm", "password"}
      <4>1. /\ text'["confirm"] = text["confirm"] /\ hidden'["confirm"] = hidden["confirm"]
            /\ text'["password"] = text["password"]
        BY <1>0, <2>1, <3>3 DEF Fields
      <4> QED
        BY <1>0, <4>1 DEF Matches
    <3> QED
      BY <3>1, <3>2, <3>3
  <2> QED
    BY <2>1, <2>2 DEF Confirmed
<1>4. CASE GoToSignUp
  <2> DEFINE form == [visit |-> visit, text |-> text, hidden |-> hidden]
  <2>1. form \in Forms /\ below \in Seq(Forms)
    BY DEF FormInv, FormTypeOK, Forms
  <2>2. below' = Append(below, form) /\ NewForm
    BY <1>4 DEF GoToSignUp
  <2>3. \A k \in DOMAIN below' : (k \in DOMAIN below /\ below'[k] = below[k]) \/ below'[k] = form
    BY <2>1, <2>2, PushForm
  <2>4. Matches(form.text, form.hidden)
    BY <1>0
  <2> QED
    BY <1>2, <2>2, <2>3, <2>4 DEF Confirmed
<1>5. CASE PopSignUp
  <2>1. below # <<>> /\ below \in Seq(Forms)
    BY <1>5 DEF PopSignUp, FormInv, FormTypeOK, Stacked
  <2>2. /\ Len(below) \in DOMAIN below
        /\ text' = below[Len(below)].text /\ hidden' = below[Len(below)].hidden
        /\ \A k \in DOMAIN below' : k \in DOMAIN below /\ below'[k] = below[k]
    BY <1>5, <2>1, PopForm DEF PopSignUp
  <2> QED
    BY <2>2 DEF Confirmed
<1>6. UserStep /\ PasswordFirst => Confirmed'
  <2>1. SignUp \/ SignUpRefused \/ DismissAlert \/ GoToLogin \/ Uncover => Kept
    BY DEF SignUp, SignUpRefused, DismissAlert, GoToLogin, Uncover
  <2> QED
    BY <1>1, <1>3, <1>4, <1>5, <2>1 DEF UserStep
<1>7. ServiceStep => Kept
  BY DEF ServiceStep, CreateSucceeds, CreateFails, CreateUnfinished, SendVerificationMail,
     SendNothing, MailAnswered, MailRefused
<1>8. Elsewhere \/ AlertElsewhere \/ FollowsLink \/ UNCHANGED vars => Kept
  BY DEF Elsewhere, AlertElsewhere, FollowsLink, vars
<1>9. Relaunch => Confirmed'
  BY <1>2 DEF Relaunch, Confirmed
<1> QED
  BY <1>1, <1>6, <1>7, <1>8, <1>9 DEF Next

\* The boundary of the disagreement about the confirmation: where nobody goes
\* back to the password, the account is asked for with the password that was
\* confirmed, whatever the order of all other edits and the number of visits.
THEOREM ConfirmsPassword == Init /\ [][Next /\ PasswordFirst]_vars => ConfirmedPassword
<1> DEFINE AsksConfirmed == creating' \ creating # {} => text["confirm"] = text["password"]
<1>1. Init => FormInv /\ Confirmed
  BY FormInvInit DEF Init, Confirmed, Matches, Fields
<1>2. FormInv /\ Confirmed /\ [Next /\ PasswordFirst]_vars => (FormInv /\ Confirmed)'
  BY FormInvNext, ConfirmedNext
<1>3. FormInv /\ Confirmed /\ [Next /\ PasswordFirst]_vars => [AsksConfirmed]_vars
  <2> SUFFICES ASSUME Confirmed, Next, creating' \ creating # {}
               PROVE  text["confirm"] = text["password"]
    OBVIOUS
  <2>1. SignUp
    BY DEF Next, UserStep, ServiceStep, Edit, SignUpRefused, DismissAlert, GoToLogin,
       GoToSignUp, Uncover, PopSignUp, AlertElsewhere, CreateSucceeds, CreateFails,
       CreateUnfinished, SendVerificationMail, SendNothing, MailAnswered, MailRefused,
       Elsewhere, FollowsLink, Relaunch, requestVars
  <2>2. hidden["confirm"] /\ text["confirm"] # Empty
    BY <2>1 DEF SignUp, VerifySignUp, Fields
  <2> QED
    BY <2>2 DEF Confirmed, Matches
<1> QED
  BY <1>1, <1>2, <1>3, PTL DEF ConfirmedPassword
=============================================================================
