\* An unfilled package is stored
CONSTANTS
  Empty = Empty
  CodeA = CodeA
  CodeB = CodeB
  Name = Name
  Bad = Bad
  Gap = Gap
  Texts = {Empty, CodeA, CodeB, Bad, Gap, Name}
  TypedCodes = {CodeA}
  TypedNames = {Name}
  Malformed = {Bad}
  Spaced = {Gap, Name}
  Indented = {Gap}
  Statuses <- MCStatuses
  MaxRows = 2
  MaxEvents = 1
  MaxValidating = 2
  Groups = {}
  PlainTabs = {"home"}
SPECIFICATION Spec
INVARIANTS
  StoredFilled
