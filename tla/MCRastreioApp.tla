--------------------------- MODULE MCRastreioApp ----------------------------
(* Instances of RastreioApp for TLC. *)
EXTENDS RastreioApp

CONSTANTS Code, Name, Bad  \* a code, a description, a code that makes no URL

MCStatuses == {{"delivered"}}
=============================================================================
