\* A failed delete is saved again on entering the background
CONSTANTS
  Empty = Empty
  Code = Code
  Bad = Bad
  Texts = {Empty, Code, Bad}
  Malformed = {Bad}
  Statuses <- MCOneStatus
  HomePackages <- MCPackages
  MaxRows = 2
  MaxEvents = 1
  Groups = {1}
  OfferedTemplates = {}
  PlainTabs = {"home"}
SPECIFICATION Spec
INVARIANTS
  BackgroundSaves
