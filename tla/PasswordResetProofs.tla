------------------------ MODULE PasswordResetProofs ------------------------
(***************************************************************************)
(* The password reset, for any number of screens and of requests: states   *)
(* have their types, alerts come from screens that are in the navigation,  *)
(* the button of the good news takes one screen off, and who waits is led  *)
(* by it to the login screen and told of every answer.                     *)
(***************************************************************************)
EXTENDS PasswordReset, TLAPS

USE ResetAssumption

AlertOK == alert \in [message : Messages, by : Ids] \cup {NoAlert}

AnswersOK ==
  /\ resets \in [Ids -> 0..MaxRequests]
  /\ signIns \in [Ids -> 0..MaxRequests]

\* The first screen is a login screen and below a reset screen is one; ids grow
\* from the bottom to the top.
StackOK ==
  /\ stack \in Seq(Screens) /\ Len(stack) >= 1
  /\ pushed \in Ids
  /\ stack[1].kind = "login" /\ stack[1].id = 0
  /\ \A i \in 1..Len(stack) : stack[i].id <= pushed
  /\ \A i, j \in 1..Len(stack) : i < j => stack[i].id < stack[j].id
  /\ \A i \in 2..Len(stack) : stack[i].kind = "reset" => stack[i - 1].kind = "login"

Typed == StackOK /\ AlertOK /\ AnswersOK /\ hurried \in BOOLEAN

\* What a push and a pop make of the navigation.
LEMMA PushOK ==
  ASSUME StackOK, NEW k \in {"login", "reset", "signUp", "app"}, NEW id, Push(k, id),
         k = "reset" => Top.kind = "login"
  PROVE  /\ StackOK'
         /\ \A d : InStack(d) => InStack(d)'
<1>1. CASE InStack(id)
  <2>1. /\ pushed < MaxPushes /\ pushed' = pushed + 1
        /\ stack' = Append(stack, [kind |-> k, id |-> pushed + 1])
    BY <1>1 DEF Push
  <2>2. [kind |-> k, id |-> pushed + 1] \in Screens /\ pushed' \in Ids
    BY <2>1 DEF Screens, Ids, StackOK
  <2>3. /\ stack' \in Seq(Screens) /\ Len(stack') = Len(stack) + 1
        /\ stack'[Len(stack) + 1] = [kind |-> k, id |-> pushed + 1]
        /\ \A i \in 1..Len(stack) : stack'[i] = stack[i]
    BY <2>1, <2>2 DEF StackOK
  <2>4. \A i \in 1..Len(stack) : stack[i].id \in Int
    <3>1. \A i \in 1..Len(stack) : stack[i] \in Screens
      BY DEF StackOK
    <3>2. \A s \in Screens : s.id \in Int
      BY DEF Screens, Ids
    <3> QED
      BY <3>1, <3>2
  <2>5. stack[Len(stack)].kind = "login" \/ k # "reset"
    BY DEF Top, Last
  <2>6. StackOK'
    <3>1. /\ stack' \in Seq(Screens) /\ Len(stack') >= 1
          /\ pushed' \in Ids
          /\ stack'[1].kind = "login" /\ stack'[1].id = 0
      BY <2>2, <2>3 DEF StackOK
    <3>2. \A i \in 1..Len(stack) : stack[i].id < pushed'
      BY <2>1, <2>4 DEF StackOK, Ids
    <3>3. \A i \in 1..Len(stack') : stack'[i].id <= pushed'
      <4> SUFFICES ASSUME NEW i \in 1..Len(stack')
                   PROVE  stack'[i].id <= pushed'
        OBVIOUS
      <4>1. CASE i \in 1..Len(stack)
        BY <2>3, <2>4, <3>2, <4>1, <3>1 DEF Ids
      <4>2. CASE i = Len(stack) + 1
        BY <2>1, <2>3, <4>2, <3>1 DEF Ids
      <4> QED
        BY <2>3, <4>1, <4>2 DEF StackOK
    <3>4. \A i, j \in 1..Len(stack') : i < j => stack'[i].id < stack'[j].id
      <4> SUFFICES ASSUME NEW i \in 1..Len(stack'), NEW j \in 1..Len(stack'), i < j
                   PROVE  stack'[i].id < stack'[j].id
        OBVIOUS
      <4>1. i \in 1..Len(stack) /\ (j \in 1..Len(stack) \/ j = Len(stack) + 1)
        BY <2>3 DEF StackOK
      <4>2. CASE j \in 1..Len(stack)
        BY <2>3, <4>1, <4>2 DEF StackOK
      <4>3. CASE j = Len(stack) + 1
        BY <2>1, <2>3, <3>2, <4>1, <4>3
      <4> QED
        BY <4>1, <4>2, <4>3
    <3>5. \A i \in 2..Len(stack') : stack'[i].kind = "reset" => stack'[i - 1].kind = "login"
      <4> SUFFICES ASSUME NEW i \in 2..Len(stack'), stack'[i].kind = "reset"
                   PROVE  stack'[i - 1].kind = "login"
        OBVIOUS
      <4>1. i - 1 \in 1..Len(stack) /\ (i \in 2..Len(stack) \/ i = Len(stack) + 1)
        BY <2>3 DEF StackOK
      <4>2. stack'[i - 1] = stack[i - 1]
        BY <2>3, <4>1
      <4>3. CASE i \in 2..Len(stack)
        BY <2>3, <4>2, <4>3 DEF StackOK
      <4>4. CASE i = Len(stack) + 1
        BY <2>3, <2>5, <4>2, <4>4 DEF StackOK
      <4> QED
        BY <4>1, <4>3, <4>4
    <3> QED
      BY <3>1, <3>3, <3>4, <3>5 DEF StackOK
  <2>7. \A d : InStack(d) => InStack(d)'
    BY <2>3 DEF InStack, ToSet, StackOK
  <2> QED
    BY <2>6, <2>7
<1>2. CASE ~InStack(id)
  BY <1>2 DEF Push, StackOK, InStack
<1> QED
  BY <1>1, <1>2

LEMMA PopOK ==
  ASSUME StackOK, Pop, UNCHANGED pushed
  PROVE  StackOK'
<1>1. CASE Len(stack) > 1
  <2>1. /\ stack' \in Seq(Screens) /\ Len(stack') = Len(stack) - 1
        /\ \A i \in 1..(Len(stack) - 1) : stack'[i] = stack[i]
    BY <1>1 DEF Pop, Front, StackOK
  <2>2. 1..Len(stack') \subseteq 1..Len(stack) /\ 2..Len(stack') \subseteq 2..Len(stack)
        /\ \A i \in 1..Len(stack') : stack'[i] = stack[i]
    <3>1. Len(stack) \in Nat
      BY DEF StackOK
    <3> QED
      BY <1>1, <2>1, <3>1
  <2>3. Len(stack') >= 1 /\ stack'[1].kind = "login" /\ stack'[1].id = 0 /\ pushed' \in Ids
    <3>1. Len(stack') >= 1
      BY <1>1, <2>1 DEF StackOK
    <3>2. stack'[1] = stack[1]
      BY <2>2, <3>1
    <3> QED
      BY <3>1, <3>2 DEF StackOK
  <2>4. \A i \in 1..Len(stack') : stack'[i].id <= pushed'
    BY <2>2 DEF StackOK
  <2>5. \A i, j \in 1..Len(stack') : i < j => stack'[i].id < stack'[j].id
    BY <2>2 DEF StackOK
  <2>6. \A i \in 2..Len(stack') : stack'[i].kind = "reset" => stack'[i - 1].kind = "login"
    BY <2>1, <2>2 DEF StackOK
  <2> QED
    BY <2>1, <2>3, <2>4, <2>5, <2>6 DEF StackOK
<1>2. CASE ~(Len(stack) > 1)
  BY <1>2 DEF Pop, StackOK
<1> QED
  BY <1>1, <1>2

LEMMA TopInside ==
  ASSUME StackOK PROVE Top \in Screens /\ Top.id \in Ids /\ InStack(Top.id)
<1>1. Len(stack) \in 1..Len(stack)
  BY DEF StackOK
<1>2. Top \in ToSet(stack) /\ Top \in Screens
  BY <1>1 DEF Top, Last, ToSet, StackOK
<1> QED
  BY <1>2 DEF InStack, Screens

\* An alert that is presented has its type and comes from a screen that is there.
LEMMA PresentOK ==
  ASSUME StackOK, AlertOK, AlertsOfScreens, NEW id \in Ids, NEW m \in Messages, Present(id, m),
         UNCHANGED stack
  PROVE  AlertOK' /\ AlertsOfScreens'
<1>1. CASE alert' = alert
  BY <1>1 DEF AlertOK, AlertsOfScreens, InStack
<1>2. CASE alert' = [message |-> m, by |-> id] /\ InStack(id)
  BY <1>2 DEF AlertOK, AlertsOfScreens, InStack
<1> QED
  BY <1>1, <1>2, TopInside DEF Present

LEMMA RelaunchOK == Relaunch /\ hurried' = FALSE => Typed' /\ AlertsOfScreens'
<1> SUFFICES ASSUME Relaunch, hurried' = FALSE PROVE Typed' /\ AlertsOfScreens'
  OBVIOUS
<1>1. /\ stack' = <<[kind |-> "login", id |-> 0]>> /\ pushed' = 0 /\ alert' = NoAlert
      /\ resets' = Nothing /\ signIns' = Nothing
  BY DEF Relaunch
<1>2. [kind |-> "login", id |-> 0] \in Screens
  BY DEF Screens, Ids
<1>3. StackOK'
  BY <1>1, <1>2 DEF StackOK, Ids
<1>4. AnswersOK'
  BY <1>1 DEF AnswersOK, Nothing
<1>5. AlertOK' /\ AlertsOfScreens'
  BY <1>1 DEF AlertOK, AlertsOfScreens
<1> QED
  BY <1>3, <1>4, <1>5 DEF Typed

LEMMA TypedInit == Init => Typed /\ AlertsOfScreens
<1> SUFFICES ASSUME Init PROVE Typed /\ AlertsOfScreens
  OBVIOUS
<1>1. [kind |-> "login", id |-> 0] \in Screens
  BY DEF Screens, Ids
<1>2. StackOK
  BY <1>1 DEF Init, StackOK, Ids
<1>3. AnswersOK
  BY DEF Init, AnswersOK, Nothing
<1>4. AlertOK /\ AlertsOfScreens
  BY DEF Init, AlertOK, AlertsOfScreens
<1> QED
  BY <1>2, <1>3, <1>4 DEF Init, Typed

LEMMA UserTyped ==
  ASSUME Typed, AlertsOfScreens, UserStep, hurried' \in BOOLEAN
  PROVE  Typed' /\ AlertsOfScreens'
<1> USE DEF Typed
<1>1. CASE OpenFromLogin \/ LeaveSignUp \/ Register
  <2>1. StackOK'
    BY <1>1, PushOK DEF OpenFromLogin, LeaveSignUp, Register, Touchable
  <2>2. alert = NoAlert /\ UNCHANGED <<alert, resets, signIns>>
    BY <1>1 DEF OpenFromLogin, LeaveSignUp, Register, Touchable
  <2> QED
    BY <2>1, <2>2 DEF AlertOK, AnswersOK, AlertsOfScreens
<1>2. CASE GoBack
  BY <1>2, PopOK DEF GoBack, Touchable, AlertOK, AnswersOK, AlertsOfScreens
<1>3. CASE Login \/ Send
  <2>1. Top.id \in Ids
    BY TopInside
  <2>2. AnswersOK'
    BY <1>3, <2>1 DEF Login, Send, AnswersOK
  <2> QED
    BY <1>3, <2>2 DEF Login, Send, Touchable, StackOK, AlertOK, AlertsOfScreens
<1>4. CASE SendNothing
  <2>1. AlertOK' /\ AlertsOfScreens'
    BY <1>4, TopInside, PresentOK DEF SendNothing, Messages
  <2> QED
    BY <1>4, <2>1 DEF SendNothing, StackOK, AnswersOK
<1>5. CASE Ok
  <2>1. StackOK'
    BY <1>5, PopOK DEF Ok, StackOK
  <2> QED
    BY <1>5, <2>1 DEF Ok, AlertOK, AnswersOK, AlertsOfScreens
<1> QED
  BY <1>1, <1>2, <1>3, <1>4, <1>5 DEF UserStep

LEMMA AnswerTyped ==
  ASSUME Typed, AlertsOfScreens, NEW id \in Ids, ResetAnswered(id) \/ SignInAnswered(id),
         UNCHANGED hurried
  PROVE  Typed' /\ AlertsOfScreens'
<1> USE DEF Typed
<1>1. CASE ResetAnswered(id)
  <2>1. AlertOK' /\ AlertsOfScreens'
    BY <1>1, PresentOK DEF ResetAnswered, Messages
  <2>2. AnswersOK'
    BY <1>1 DEF ResetAnswered, AnswersOK
  <2> QED
    BY <1>1, <2>1, <2>2 DEF ResetAnswered, StackOK
<1>2. CASE SignInAnswered(id)
  <2>1. AnswersOK'
    BY <1>2 DEF SignInAnswered, AnswersOK
  <2>2. CASE Push("app", id) /\ UNCHANGED alert
    BY <1>2, <2>1, <2>2, PushOK DEF AlertOK, AlertsOfScreens
  <2>3. CASE Present(id, "wrongEmailSignin") /\ UNCHANGED <<stack, pushed>>
    BY <2>1, <2>3, PresentOK DEF Messages, StackOK
  <2>4. CASE UNCHANGED <<stack, pushed, alert>>
    BY <2>1, <2>4 DEF StackOK, AlertOK, AlertsOfScreens, InStack
  <2> QED
    BY <1>2, <2>2, <2>3, <2>4 DEF SignInAnswered
<1> QED
  BY <1>1, <1>2

LEMMA TypedNext == Typed /\ AlertsOfScreens /\ [Next]_vars => Typed' /\ AlertsOfScreens'
<1> SUFFICES ASSUME Typed, AlertsOfScreens, [Next]_vars PROVE Typed' /\ AlertsOfScreens'
  OBVIOUS
<1>1. CASE UserStep /\ hurried' = (hurried \/ Waiting)
  BY <1>1, UserTyped
<1>2. CASE (\E id \in Ids : ResetAnswered(id) \/ SignInAnswered(id)) /\ UNCHANGED hurried
  BY <1>2, AnswerTyped
<1>3. CASE Relaunch /\ hurried' = FALSE
  BY <1>3, RelaunchOK
<1>4. CASE UNCHANGED vars
  BY <1>4 DEF vars, Typed, StackOK, AlertOK, AnswersOK, AlertsOfScreens, InStack
<1> QED
  BY <1>1, <1>2, <1>3, <1>4 DEF Next

\* Every state of the password reset has its type.
THEOREM TypeCorrect == Spec => []TypeOK
<1>1. Typed => TypeOK
  BY DEF Typed, StackOK, AlertOK, AnswersOK, TypeOK
<1> QED
  BY <1>1, TypedInit, TypedNext, PTL DEF Spec

\* Whatever the number of screens, requests and late answers, the alert in front
\* comes from a screen of the navigation.
THEOREM AlertsComeFromScreens == Spec => []AlertsOfScreens
BY TypedInit, TypedNext, PTL DEF Spec
-----------------------------------------------------------------------------
(* Back to the login screen *)

Unanswered(answers) == \A id \in Ids : answers[id] = 0

Only(answers, id) == answers[id] = 1 /\ \A d \in Ids : d # id => answers[d] = 0

\* Who waits waits for one answer, before the screen that asked for it.
OneAnswer ==
  ~hurried => \A id \in Ids :
    /\ resets[id] > 0 =>
         /\ Only(resets, id) /\ Unanswered(signIns)
         /\ alert = NoAlert /\ Top.id = id /\ Top.kind = "reset"
    /\ signIns[id] > 0 =>
         /\ Only(signIns, id) /\ Unanswered(resets)
         /\ alert = NoAlert

\* The good news is told, to who waits, by the screen in front.
NewsInFront ==
  ~hurried /\ alert.message = "linkSent" => Top.id = alert.by /\ Top.kind = "reset"

\* Without a pushed screen there is no reset screen to answer.
NoneYet == pushed = 0 => Unanswered(resets) /\ alert.message # "linkSent"

Inv == OneAnswer /\ NewsInFront /\ NoneYet

LEMMA InvInit == Init => Inv
BY DEF Init, Inv, OneAnswer, NewsInFront, NoneYet, Unanswered, Nothing, NoAlert

LEMMA NotWaiting ==
  ASSUME AnswersOK PROVE Waiting <=> ~(Unanswered(resets) /\ Unanswered(signIns))
BY DEF AnswersOK, Waiting, Unanswered, Nothing

\* A reset screen is not the first screen.
LEMMA ResetIsPushed ==
  ASSUME StackOK, Top.kind = "reset"
  PROVE  pushed > 0 /\ Len(stack) > 1 /\ stack[Len(stack) - 1].kind = "login"
<1>1. Len(stack) > 1
  BY DEF StackOK, Top, Last
<1>2. \A i \in 1..Len(stack) : stack[i] \in Screens
  BY DEF StackOK
<1>3. \A s \in Screens : s.id \in Int /\ s.id >= 0
  BY DEF Screens, Ids
<1>4. stack[1].id < stack[Len(stack)].id /\ stack[Len(stack)].id <= pushed
  BY <1>1 DEF StackOK
<1>5. pushed > 0
  BY <1>1, <1>2, <1>3, <1>4 DEF StackOK, Ids
<1>6. stack[Len(stack) - 1].kind = "login"
  BY <1>1 DEF StackOK, Top, Last
<1> QED
  BY <1>1, <1>5, <1>6

LEMMA InvUser ==
  ASSUME Typed, AlertsOfScreens, Inv, UserStep, hurried' = (hurried \/ Waiting)
  PROVE  Inv'
<1> USE DEF Typed, Inv
<1>0. ~hurried' => ~hurried /\ Unanswered(resets) /\ Unanswered(signIns)
  BY NotWaiting
<1>1. CASE OpenFromLogin \/ LeaveSignUp \/ Register
  <2>1. alert = NoAlert /\ UNCHANGED <<alert, resets, signIns>>
    BY <1>1 DEF OpenFromLogin, LeaveSignUp, Register, Touchable
  <2>2. pushed' = 0 => pushed = 0
    BY <1>1 DEF OpenFromLogin, LeaveSignUp, Register, Push, StackOK, Ids
  <2> QED
    BY <1>0, <2>1, <2>2 DEF OneAnswer, NewsInFront, NoneYet, Unanswered, NoAlert
<1>2. CASE GoBack
  BY <1>0, <1>2 DEF GoBack, Touchable, OneAnswer, NewsInFront, NoneYet, Unanswered, NoAlert
<1>3. CASE Send
  <2>1. Top.id \in Ids /\ pushed > 0
    BY <1>3, TopInside, ResetIsPushed DEF Send, Touchable
  <2>2. UNCHANGED <<stack, pushed, alert, signIns>> /\ alert = NoAlert /\ Top.kind = "reset"
    BY <1>3 DEF Send, Touchable
  <2>3. \A d \in Ids : resets'[d] = IF d = Top.id THEN resets[d] + 1 ELSE resets[d]
    BY <1>3, <2>1 DEF Send, AnswersOK
  <2>4. ~hurried' => Only(resets', Top.id) /\ Unanswered(signIns')
    BY <1>0, <2>1, <2>2, <2>3 DEF Unanswered, Only
  <2>5. OneAnswer'
    BY <2>2, <2>4 DEF OneAnswer, Only, Unanswered, Top
  <2> QED
    BY <2>1, <2>2, <2>5 DEF NewsInFront, NoneYet, NoAlert
<1>4. CASE Login
  <2>1. Top.id \in Ids
    BY TopInside
  <2>2. UNCHANGED <<stack, pushed, alert, resets>> /\ alert = NoAlert
    BY <1>4 DEF Login, Touchable
  <2>3. \A d \in Ids : signIns'[d] = IF d = Top.id THEN signIns[d] + 1 ELSE signIns[d]
    BY <1>4, <2>1 DEF Login, AnswersOK
  <2>4. ~hurried' => Only(signIns', Top.id) /\ Unanswered(resets')
    BY <1>0, <2>1, <2>2, <2>3 DEF Unanswered, Only
  <2>5. OneAnswer'
    BY <2>2, <2>4 DEF OneAnswer, Only, Unanswered
  <2> QED
    BY <2>2, <2>5 DEF NewsInFront, NoneYet, NoAlert, Unanswered
<1>5. CASE SendNothing
  <2>1. UNCHANGED <<stack, pushed, resets, signIns>> /\ alert = NoAlert
        /\ alert' \in {NoAlert, [message |-> "insertEmail", by |-> Top.id]}
    BY <1>5 DEF SendNothing, Touchable, Present
  <2> QED
    BY <1>0, <2>1 DEF OneAnswer, NewsInFront, NoneYet, Unanswered, NoAlert
<1>6. CASE Ok
  <2>1. UNCHANGED <<pushed, resets, signIns>> /\ alert' = NoAlert
    BY <1>6 DEF Ok
  <2> QED
    BY <1>0, <2>1 DEF OneAnswer, NewsInFront, NoneYet, Unanswered, NoAlert
<1> QED
  BY <1>1, <1>2, <1>3, <1>4, <1>5, <1>6 DEF UserStep

LEMMA InvAnswer ==
  ASSUME Typed, AlertsOfScreens, Inv, NEW id \in Ids, ResetAnswered(id) \/ SignInAnswered(id),
         UNCHANGED hurried
  PROVE  Inv'
<1> USE DEF Typed, Inv
<1>1. CASE ResetAnswered(id)
  <2>1. /\ resets[id] > 0 /\ UNCHANGED <<stack, pushed, signIns>>
        /\ Present(id, "linkSent") \/ Present(id, "errorOccurred")
    BY <1>1 DEF ResetAnswered
  <2>2. \A d \in Ids : resets'[d] = IF d = id THEN resets[d] - 1 ELSE resets[d]
    BY <1>1 DEF ResetAnswered, AnswersOK
  <2>3. ~hurried => Unanswered(resets') /\ Unanswered(signIns')
    BY <2>1, <2>2 DEF OneAnswer, Only, Unanswered
  <2>4. OneAnswer'
    BY <2>3 DEF OneAnswer, Unanswered
  <2>5. alert' = alert \/ alert'.by = id
    BY <2>1 DEF Present
  <2>6. ~hurried => alert = NoAlert /\ Top.id = id /\ Top.kind = "reset" /\ Top' = Top
    BY <2>1 DEF OneAnswer, Top
  <2>7. NewsInFront'
    BY <2>5, <2>6 DEF NewsInFront, NoAlert
  <2>8. pushed # 0
    BY <2>1 DEF NoneYet, Unanswered
  <2> QED
    BY <2>1, <2>4, <2>7, <2>8 DEF NoneYet
<1>2. CASE SignInAnswered(id)
  <2>1. signIns[id] > 0 /\ UNCHANGED resets
    BY <1>2 DEF SignInAnswered
  <2>2. \A d \in Ids : signIns'[d] = IF d = id THEN signIns[d] - 1 ELSE signIns[d]
    BY <1>2 DEF SignInAnswered, AnswersOK
  <2>3. ~hurried => Unanswered(resets') /\ Unanswered(signIns') /\ alert = NoAlert
    BY <2>1, <2>2 DEF OneAnswer, Only, Unanswered
  <2>4. OneAnswer'
    BY <2>3 DEF OneAnswer, Unanswered
  <2>5. alert' = alert \/ alert' = [message |-> "wrongEmailSignin", by |-> id]
    BY <1>2 DEF SignInAnswered, Present
  <2>6. NewsInFront'
    BY <2>3, <2>5 DEF NewsInFront, NoAlert
  <2>7. pushed' = 0 => pushed = 0
    BY <1>2 DEF SignInAnswered, Push, StackOK, Ids
  <2>8. NoneYet'
    BY <2>1, <2>5, <2>7 DEF NoneYet, Unanswered
  <2> QED
    BY <2>4, <2>6, <2>8
<1> QED
  BY <1>1, <1>2

LEMMA InvNext == Typed /\ AlertsOfScreens /\ Inv /\ [Next]_vars => Inv'
<1> SUFFICES ASSUME Typed, AlertsOfScreens, Inv, [Next]_vars PROVE Inv'
  OBVIOUS
<1>1. CASE UserStep /\ hurried' = (hurried \/ Waiting)
  BY <1>1, InvUser
<1>2. CASE (\E id \in Ids : ResetAnswered(id) \/ SignInAnswered(id)) /\ UNCHANGED hurried
  BY <1>2, InvAnswer
<1>3. CASE Relaunch /\ hurried' = FALSE
  BY <1>3 DEF Relaunch, Inv, OneAnswer, NewsInFront, NoneYet, Unanswered, Nothing, NoAlert
<1>4. CASE UNCHANGED vars
  BY <1>4 DEF vars, Inv, OneAnswer, NewsInFront, NoneYet, Unanswered, Only, Top
<1> QED
  BY <1>1, <1>2, <1>3, <1>4 DEF Next

\* The first screen of a process is a login screen: it asks for no link, and
\* tells of none.
FirstAsksNothing == resets[0] = 0 /\ (alert.message = "linkSent" => alert.by # 0)

LEMMA FirstNext ==
  ASSUME Typed, FirstAsksNothing, [Next]_vars
  PROVE  FirstAsksNothing'
<1>1. CASE Send
  <2>1. Top.id \in Ids /\ resets \in [Ids -> 0..MaxRequests]
    BY TopInside DEF Typed, AnswersOK
  <2>2. Top.id # 0
    <3>1. Len(stack) > 1
      BY <1>1, ResetIsPushed DEF Send, Touchable, Typed
    <3>2. stack[1].id < stack[Len(stack)].id /\ stack[1].id = 0
      BY <3>1 DEF Typed, StackOK
    <3> QED
      BY <2>1, <3>2 DEF Top, Last, Ids
  <2>3. resets'[0] = resets[0] /\ alert' = alert
    BY <1>1, <2>1, <2>2 DEF Send, Ids
  <2> QED
    BY <2>3 DEF FirstAsksNothing
<1>2. ASSUME NEW id \in Ids, ResetAnswered(id)
      PROVE  FirstAsksNothing'
  <2>1. id # 0 /\ resets' = [resets EXCEPT ![id] = @ - 1]
    BY <1>2 DEF ResetAnswered, FirstAsksNothing
  <2>2. resets'[0] = resets[0]
    BY <2>1 DEF Typed, AnswersOK, Ids
  <2>3. alert' = alert \/ alert'.by = id
    BY <1>2 DEF ResetAnswered, Present
  <2> QED
    BY <2>1, <2>2, <2>3 DEF FirstAsksNothing
<1>3. CASE Relaunch
  BY <1>3 DEF Relaunch, Nothing, FirstAsksNothing, Ids, NoAlert
<1>4. CASE UNCHANGED resets /\ (alert' = alert \/ alert'.message # "linkSent")
  BY <1>4 DEF FirstAsksNothing
<1>5. UserStep => Send \/ (UNCHANGED resets /\ (alert' = alert \/ alert'.message # "linkSent"))
  BY DEF UserStep, OpenFromLogin, Login, LeaveSignUp, GoBack, Register, SendNothing, Ok, Present,
     NoAlert
<1>6. (\E id \in Ids : SignInAnswered(id)) \/ UNCHANGED vars
        => UNCHANGED resets /\ (alert' = alert \/ alert'.message # "linkSent")
  BY DEF SignInAnswered, Present, vars
<1> QED
  BY <1>1, <1>2, <1>3, <1>4, <1>5, <1>6 DEF Next

Leads ==
  alert.message = "linkSent" /\ alert' = NoAlert /\ pushed' = pushed =>
    \E s \in Screens :
      /\ stack = Append(stack', s) /\ s.id >= alert.by
      /\ ~hurried' => s.kind = "reset" /\ s.id = alert.by /\ Last(stack').kind = "login"

LEMMA LeadsBack ==
  ASSUME Typed, AlertsOfScreens, Inv, FirstAsksNothing, [Next]_vars
  PROVE  Leads
<1> SUFFICES ASSUME alert.message = "linkSent", alert' = NoAlert, pushed' = pushed
             PROVE  /\ stack = Append(stack', Top) /\ Top \in Screens /\ Top.id >= alert.by
                    /\ ~hurried' => /\ Top.kind = "reset" /\ Top.id = alert.by
                                    /\ Last(stack').kind = "login"
  BY DEF Leads
<1> USE DEF Typed, Inv
<1>1. alert # NoAlert
  BY DEF NoAlert
<1>2. ~Relaunch
  BY DEF Relaunch, NoneYet
<1>3. UserStep /\ hurried' = (hurried \/ Waiting)
  <2>1. ~\E id \in Ids : ResetAnswered(id) \/ SignInAnswered(id)
    BY <1>1 DEF ResetAnswered, SignInAnswered, Present, NoAlert
  <2> QED
    BY <1>1, <1>2, <2>1 DEF Next, vars
<1>4. Ok
  BY <1>1, <1>3 DEF UserStep, OpenFromLogin, Login, LeaveSignUp, GoBack, Register, SendNothing,
     Send, Touchable
\* The screen that asked is in the navigation, above the first one.
<1>5. PICK i \in 1..Len(stack) : stack[i].id = alert.by
  BY <1>1 DEF AlertsOfScreens, InStack, ToSet
<1>6. i # 1 /\ Len(stack) > 1
  BY <1>5 DEF StackOK, FirstAsksNothing
<1>7. Pop
  BY <1>1, <1>4 DEF Ok, AlertsOfScreens
<1>8. stack' = Front(stack)
  BY <1>6, <1>7 DEF Pop
<1>9. stack = Append(Front(stack), Top)
  <2> DEFINE n == Len(stack)
  <2>1. stack \in Seq(Screens) /\ n \in Nat /\ n > 1
    BY <1>6 DEF StackOK
  <2>2. Front(stack) \in Seq(Screens) /\ Len(Front(stack)) = n - 1
        /\ \A k \in 1..(n - 1) : Front(stack)[k] = stack[k]
    BY <2>1 DEF Front
  <2>3. Top \in Screens /\ Top = stack[n]
    BY TopInside DEF Top, Last
  <2> QED
    BY <2>1, <2>2, <2>3
<1>10. Top \in Screens /\ Top.id \in Nat /\ alert.by \in Nat
  <2>1. stack[i] \in Screens
    BY <1>5 DEF StackOK
  <2>2. \A s \in Screens : s.id \in Nat
    BY DEF Screens, Ids
  <2> QED
    BY <1>5, <2>1, <2>2, TopInside
<1>11. Top.id >= alert.by
  <2>1. CASE i = Len(stack)
    BY <1>5, <1>10, <2>1 DEF Top, Last
  <2>2. CASE i < Len(stack)
    BY <1>5, <1>10, <2>2 DEF StackOK, Top, Last
  <2> QED
    BY <1>5, <2>1, <2>2 DEF StackOK
<1>12. ASSUME ~hurried'
       PROVE  Top.kind = "reset" /\ Top.id = alert.by /\ Last(stack').kind = "login"
  <2>1. Top.id = alert.by /\ Top.kind = "reset"
    BY <1>3, <1>12 DEF NewsInFront
  <2>2. stack[Len(stack) - 1].kind = "login"
    BY <2>1, ResetIsPushed
  <2>3. Last(stack').kind = "login"
    BY <1>6, <1>8, <2>2 DEF Front, Last, StackOK
  <2> QED
    BY <2>1, <2>3
<1> QED
  BY <1>8, <1>9, <1>10, <1>11, <1>12

LEMMA FirstInit == Init => FirstAsksNothing
BY DEF Init, Nothing, FirstAsksNothing, Ids, NoAlert

\* The button of the good news takes one screen off the navigation, never one
\* below the screen that asked, whatever the user did meanwhile; who waits it
\* leads from the screen that asked to the login screen below it.
THEOREM LeadsToLogin == Spec => LinkSentLeadsBack
<1>1. Typed /\ AlertsOfScreens /\ Inv /\ FirstAsksNothing /\ [Next]_vars => [Leads]_vars
  BY LeadsBack
<1>2. Spec => [][Leads]_vars
  BY <1>1, TypedInit, TypedNext, InvInit, InvNext, FirstInit, FirstNext, PTL DEF Spec
<1> QED
  BY <1>2 DEF LinkSentLeadsBack, Leads

-----------------------------------------------------------------------------
(* No request is forgotten *)

\* A request that leaves the books while its user waits is told of, in this very
\* step, by the screen that asked.  (The end of the process, which loses its requests,
\* is left out: it sets pushed, which is not 0 by the time something was asked.)
Announced ==
  \A id \in Ids : resets'[id] < resets[id] /\ pushed' = pushed /\ ~hurried' => Told(id)'

LEMMA AnswerAnnounced ==
  ASSUME Typed, Inv, [Next]_vars
  PROVE  Announced
<1> SUFFICES ASSUME NEW id \in Ids, resets'[id] < resets[id], pushed' = pushed, ~hurried'
             PROVE  Told(id)'
  BY DEF Announced
<1>1. resets \in [Ids -> 0..MaxRequests] /\ resets[id] \in Nat
  BY DEF Typed, AnswersOK
<1>2. ~Relaunch
  <2>1. SUFFICES ASSUME Relaunch PROVE FALSE
    OBVIOUS
  <2>2. pushed = 0
    BY <2>1 DEF Relaunch
  <2>3. resets[id] = 0 /\ resets'[id] = 0
    BY <2>1, <2>2 DEF Relaunch, Inv, NoneYet, Unanswered, Nothing
  <2> QED
    BY <2>3
<1>3. ASSUME NEW d \in Ids, ResetAnswered(d), UNCHANGED hurried
      PROVE  Told(id)'
  <2>1. d = id /\ resets[id] > 0
    BY <1>1, <1>3 DEF ResetAnswered
  <2>2. alert = NoAlert /\ Top.id = id
    BY <1>3, <2>1 DEF Inv, OneAnswer
  <2>3. \/ alert' = [message |-> "linkSent", by |-> id]
        \/ alert' = [message |-> "errorOccurred", by |-> id]
    BY <1>3, <2>1, <2>2 DEF ResetAnswered, Present
  <2> QED
    BY <2>3 DEF Told
<1>4. ~Send
  <2>1. Top.id \in Ids
    BY TopInside DEF Typed
  <2> QED
    BY <1>1, <2>1 DEF Send
<1>5. resets' # resets
  BY <1>1
<1>6. ~UserStep
  BY <1>4, <1>5 DEF UserStep, OpenFromLogin, Login, LeaveSignUp, GoBack, Register, SendNothing, Ok
<1> QED
  BY <1>2, <1>3, <1>5, <1>6 DEF Next, SignInAnswered, vars

\* What ResetsAnnounced rests on besides fairness, for any number of screens and
\* requests: while the process lives, no request of who waits is answered but by
\* an alert of its own screen that says what became of it.
THEOREM NoneForgotten == Spec => [][Announced]_vars
<1>1. Typed /\ Inv /\ [Next]_vars => [Announced]_vars
  BY AnswerAnnounced
<1> QED
  BY <1>1, TypedInit, TypedNext, InvInit, InvNext, PTL DEF Spec
=============================================================================
