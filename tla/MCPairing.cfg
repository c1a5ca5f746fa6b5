SPECIFICATION PairingSpec
CONSTANTS
  Clients = {c1}
  MaxIssued = 2
  MaxCredentials = 2
  Nonces = {n1}
  Bindings = {b1, b2}
  NoWindow = NoWindow
  NoBinding = NoBinding
  MaxWindows = 2
  MaxRequests = 2
  MaxPending = 1
INVARIANTS OneGrantPerInvitation OutcomeTruthful AnswersAreGrants
PROPERTY InvitationSpec
CHECK_DEADLOCK FALSE
