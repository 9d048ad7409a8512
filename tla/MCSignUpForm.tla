---------------------------- MODULE MCSignUpForm ----------------------------
(* Instances of SignUpForm for TLC. *)
EXTENDS SignUpForm

CONSTANTS Name, Other, Taken, Pass, Pass2, Bad  \* Bad: accepted by no field

\* The form is about the first one's e-mail: in use, then free when that account
\* is removed, then that of a new account.
MCMembers == {[email |-> Taken, password |-> Pass2], [email |-> Other, password |-> Pass2]}

\* The names are checked apart from everything else: one text is enough for them.
MCTyped == [name |-> {Name}, surname |-> {Name}, email |-> {Taken},
            password |-> {Pass, Bad}, confirm |-> {Pass}]

\* The confirmation is equal to one of the passwords and differs from the other.
MCTypedTwice == [MCTyped EXCEPT !.password = {Pass, Pass2, Bad}]
=============================================================================
