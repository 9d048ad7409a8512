------------------------------- MODULE Access -------------------------------
(***************************************************************************)
(* What signing in promises to who waits for its answers: who is in the    *)
(* app by an e-mail has an account with that e-mail and has activated it,  *)
(* nobody takes the place of who is in, and an account is gone only after  *)
(* somebody in the app has confirmed it: the one whose account it is, or   *)
(* who came in by Google, whom the account service does not know.          *)
(***************************************************************************)

CONSTANTS
  Texts,   \* e-mails
  Nobody,
  Google   \* who came in by Google's sign-in

VARIABLES
  entitled, \* e-mails of active accounts
  inside,   \* who is in the app
  leaving,  \* e-mails whose removal was confirmed and is not answered
  orderly   \* the user has waited since the launch

vars == <<entitled, inside, leaving, orderly>>

Init ==
  /\ entitled \subseteq Texts
  /\ inside = Nobody
  /\ leaving = {}
  /\ orderly = TRUE

ComeIn(person) ==
  /\ inside = Nobody
  /\ person \in entitled \cup {Google}
  /\ inside' = person
  /\ UNCHANGED <<entitled, leaving>>

Leave ==
  /\ inside' = Nobody
  /\ UNCHANGED <<entitled, leaving>>

ConfirmRemoval(email) ==
  /\ inside \in {email, Google}
  /\ leaving' = leaving \cup {email}
  /\ UNCHANGED <<entitled, inside>>

\* The removal is answered; the account may be gone even if it is refused.
RemovalEnds(email) ==
  /\ email \in leaving
  /\ leaving' = leaving \ {email}
  /\ entitled' \in {entitled, entitled \ {email}}
  /\ UNCHANGED inside

Activate(email) ==
  /\ entitled' = entitled \cup {email}
  /\ UNCHANGED <<inside, leaving>>

OrderlyStep ==
  /\ orderly
  /\ \/ \E person \in Texts \cup {Google} : ComeIn(person)
     \/ Leave
     \/ \E email \in Texts : ConfirmRemoval(email) \/ RemovalEnds(email) \/ Activate(email)
  /\ UNCHANGED orderly

\* Nothing is promised of the screens to who does not wait; accounts stay.
DisorderlyStep ==
  /\ entitled \ leaving \subseteq entitled'
  /\ ~orderly'

Restart ==
  /\ orderly'
  /\ inside' = Nobody /\ leaving' = {}
  /\ entitled \ leaving \subseteq entitled' /\ entitled' \subseteq entitled

Next == OrderlyStep \/ DisorderlyStep \/ Restart

Spec == Init /\ [][Next]_vars
=============================================================================
