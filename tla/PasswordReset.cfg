\* Late and repeated answers, sign-ins under way
CONSTANTS
  MaxPushes = 5
  MaxRequests = 2
SPECIFICATION FairSpec
INVARIANTS
  TypeOK
  AlertsOfScreens
PROPERTIES
  LinkSentLeadsBack
  ResetsAnnounced
