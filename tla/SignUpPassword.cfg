\* The password is edited after its confirmation
CONSTANTS
  Empty = Empty
  Nobody = Nobody
  Name = Name
  Other = Other
  Taken = Taken
  Pass = Pass
  Pass2 = Pass2
  Bad = Bad
  Texts = {Empty, Name, Other, Taken, Pass, Pass2, Bad}
  Words = {Name}
  Addresses = {Other, Taken}
  Long = {Pass, Pass2}
  Members <- MCMembers
  Typed <- MCTypedTwice
  MaxVisits = 1
  MaxShowings = 1
SPECIFICATION Spec
PROPERTIES
  ConfirmedPassword
