----------------------------- MODULE MCSession -----------------------------
(* Instances of Session for TLC: passwords play no part, e-mails stand for them. *)
EXTENDS Session

CONSTANTS Mail, Mail2

MCMembers == {[email |-> Mail, password |-> Mail]}
=============================================================================
