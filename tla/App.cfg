\* Both tabs in one process, two overlapping refreshes
CONSTANTS
  Empty = Empty
  Code = Code
  Name = Name
  Bad = Bad
  Texts = {Empty, Code, Name, Bad}
  TypedCodes = {Code, Bad}
  TypedNames = {Name}
  Malformed = {Bad}
  Spaced = {}
  Indented = {}
  Statuses <- MCStatuses
  MaxRows = 2
  MaxEvents = 1
  MaxValidating = 1
  OfferedTemplates = {}
  Groups = {1, 2}
  PlainTabs = {"home", "menu"}
SPECIFICATION Spec
INVARIANTS
  SameNumbers
  GroupsBalanced
PROPERTIES
  TrapsOnlyUnrefreshed
  FormImplemented
  ListImplemented
