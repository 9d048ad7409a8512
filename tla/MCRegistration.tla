--------------------------- MODULE MCRegistration ---------------------------
(* Instances of Registration for TLC. *)
EXTENDS Registration

CONSTANTS CodeA, CodeB, Name, Bad, Gap  \* codes, a description of two words, spoilt texts

MCStatuses == {{"delivered"}}
=============================================================================
