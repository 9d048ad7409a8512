-------------------------- MODULE PackageRegistry ---------------------------
(***************************************************************************)
(* What the messages of the Home tab promise of the stored packages, with  *)
(* no keys, contexts, requests or screens: each is filled in, no code is   *)
(* registered twice, and a package is changed by removing it only.         *)
(***************************************************************************)

CONSTANTS Texts, Empty, Spaced, Indented

VARIABLE registered

Packages == [code : Texts \ ({Empty} \cup Spaced),
             name : Texts \ ({Empty} \cup Indented)]

Init == registered = {}

Register(package) ==
  /\ \A other \in registered : other.code # package.code
  /\ registered' = registered \cup {package}

Remove(package) ==
  /\ package \in registered
  /\ registered' = registered \ {package}

Next ==
  \/ \E package \in Packages : Register(package)
  \/ \E package \in registered : Remove(package)

Spec == Init /\ [][Next]_registered
=============================================================================
