\* A package is deleted while its update is on its way; no second one is registered
CONSTANTS
  Empty = Empty
  Code = Code
  Bad = Bad
  Texts = {Empty, Code, Bad}
  Malformed = {Bad}
  Statuses <- MCOneStatus
  HomePackages <- MCPackages
  MaxRows = 1
  MaxEvents = 1
  Groups = {1}
  OfferedTemplates = {}
  PlainTabs = {"home"}
SPECIFICATION Spec
INVARIANTS
  ManagerSaves
