--------------------------- MODULE MCPackageList ----------------------------
(* Instances of PackageList for TLC. *)
EXTENDS PackageList

CONSTANTS Code, Bad  \* a code, and one that makes no URL

MCOneStatus   == {{"delivered"}}
MCTwoStatuses == {{"missing", "delivered"}, {"toBeDelivered"}}
MCPackages    == {<<Code, Code>>}
MCPackagesBad == {<<Code, Code>>, <<Bad, Code>>}
=============================================================================
