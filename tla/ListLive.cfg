\* Refreshes end; codes that make no URL, two events
CONSTANTS
  Empty = Empty
  Code = Code
  Bad = Bad
  Texts = {Empty, Code, Bad}
  Malformed = {Bad}
  Statuses <- MCOneStatus
  HomePackages <- MCPackagesBad
  MaxRows = 2
  MaxEvents = 2
  Groups = {1}
  OfferedTemplates = {}
  PlainTabs = {"home", "menu"}
SPECIFICATION FairSpec
PROPERTIES
  QueueDrains
  RefreshEnds
