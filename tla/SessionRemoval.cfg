\* Coming in with Google after somebody's e-mail
CONSTANTS
  Nobody = Nobody
  Google = Google
  Mail = Mail
  Mail2 = Mail2
  Texts = {Mail, Mail2}
  Members <- MCMembers
  MaxSignIns = 2
SPECIFICATION Spec
PROPERTIES
  RemovalRemovesMine
