\* Any user, and the user who waits
CONSTANTS
  Nobody = Nobody
  Google = Google
  Mail = Mail
  Mail2 = Mail2
  Texts = {Mail, Mail2}
  Members <- MCMembers
  MaxSignIns = 2
SPECIFICATION Spec
INVARIANTS
  TypeOK
  NilNeverUnwrapped
  TabsBelongToUser
  SignedOutIsShown
PROPERTIES
  AccessImplemented
