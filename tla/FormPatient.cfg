\* A user who waits for the answer
CONSTANTS
  Empty = Empty
  CodeA = CodeA
  CodeB = CodeB
  Name = Name
  Bad = Bad
  Gap = Gap
  Texts = {Empty, CodeA, CodeB, Bad, Gap, Name}
  TypedCodes = {CodeA, CodeB, Gap}
  TypedNames = {Name, Bad}
  Malformed = {Bad}
  Spaced = {Gap, Name}
  Indented = {Gap}
  Statuses <- MCStatuses
  MaxRows = 2
  MaxEvents = 1
  MaxValidating = 1
  Groups = {1}
  PlainTabs = {"home", "menu"}
SPECIFICATION FairPatientSpec
INVARIANTS
  TypeOK
  StoredFilled
  StoredOnce
  AnswerFitsForm
  SavedMeansStored
PROPERTIES
  ValidationEnds
  AnswersAnnounced
  RegistryImplemented
