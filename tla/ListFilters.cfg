\* Two packages, a filter, one refresh at a time
CONSTANTS
  Empty = Empty
  Code = Code
  Bad = Bad
  Texts = {Empty, Code, Bad}
  Malformed = {Bad}
  Statuses <- MCTwoStatuses
  HomePackages <- MCPackages
  MaxRows = 2
  MaxEvents = 1
  Groups = {1}
  OfferedTemplates = {"Done"}
  PlainTabs = {"home"}
SPECIFICATION Spec
INVARIANTS
  TypeOK
  ShownPackagesExist
PROPERTIES
  MisfiledOnlyByRegistration
  NoResurrection
  IdentityKept
  HalfDoneOnlyByRegistration
  FailedDeleteBlocksDeletes
  OneSwipeOnePackage
