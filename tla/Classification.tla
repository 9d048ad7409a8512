--------------------------- MODULE Classification ---------------------------
(***************************************************************************)
(* How a tracking status written by the postal service becomes an icon,    *)
(* and which filter of the "Avisos" list finds the icon.                   *)
(*                                                                         *)
(* A status is a sentence; the code only asks which of seven words it      *)
(* contains (case-sensitive String.contains), so a status is the set of    *)
(* the words it contains.  The empty set is a status with none of them,    *)
(* the text "" that CoreDataManager stores for a missing status included.  *)
(***************************************************************************)

\* LocalizedStrings/RastreioBF.strings:125-131
ErrorWords == {"payment", "analysis", "customs", "missing"}
DoneWords  == {"delivered", "deliveredCaps", "toBeDelivered"}
Keywords   == ErrorWords \cup DoneWords

\* The image attribute of a DataProduct: nil before the first update, "" while
\* an update is half done, afterwards one of three SF Symbol names.
Settled == {"error", "done", "onItsWay"}
Images  == {"nil", "blank"} \cup Settled

\* Mutant: the cascade asks for delivery first.
ImageOf_DoneFirst(status) ==
  IF status \cap DoneWords # {} THEN "done"
  ELSE IF status \cap ErrorWords # {} THEN "error"
  ELSE "onItsWay"

\* The if/else-if cascade of CoreDataManager.updatePackage: a word of trouble
\* wins over a word of delivery.
ImageOf(status) ==
  IF status \cap ErrorWords # {} THEN "error"
  ELSE IF status \cap DoneWords # {} THEN "done"
  ELSE "onItsWay"

\* The four stored fetch requests of the data model.
Templates == {"All", "Done", "Error", "OnItsWay"}

\* The predicate of a fetch request, evaluated on a row's image.
Finds(template, image) ==
  \/ template = "All"
  \/ template = "Done"     /\ image = "done"
  \/ template = "Error"    /\ image = "error"
  \/ template = "OnItsWay" /\ image = "onItsWay"
=============================================================================
