\* Every order of edits, answers of one visit during the next
CONSTANTS
  Empty = Empty
  Nobody = Nobody
  Name = Name
  Other = Other
  Taken = Taken
  Pass = Pass
  Pass2 = Pass2
  Bad = Bad
  Texts = {Empty, Name, Other, Taken, Pass, Pass2, Bad}
  Words = {Name}
  Addresses = {Other, Taken}
  Long = {Pass, Pass2}
  Members <- MCMembers
  Typed <- MCTyped
  MaxVisits = 2
  MaxShowings = 3
SPECIFICATION Spec
INVARIANTS
  TypeOK
  AccountsWellFormed
  AskedOncePerShowing
PROPERTIES
  NewAccountsGetMail
