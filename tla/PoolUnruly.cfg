\* Clients that do whatever the protocol lets them say.
SPECIFICATION Spec
CONSTANTS
  Absent = Absent
  NullPtr = NullPtr
  NoToken = NoToken
  NoNick = NoNick
  t1 = t1
  t2 = t2
  t3 = t3
  n1 = n1
  n2 = n2
  n3 = n3
  Sessions = {1, 2}
  Tokens <- TwoTokens
  Nicks <- TwoNicks
  Account <- TwoAccounts
  Modes = {0, 1}
  FirstPort = 1
  PortSpace = 2
  MaxGames = 3
  Unruly = {"SharedAccount", "Reauthenticate", "SpeakWhileQueued", "ResetBeforeAccept"}
INVARIANTS
  TypeOK
  QueuesBelowMatchSize
  NoDeafSession
  GamesAreAuthenticated
  PortsDistinct
CHECK_DEADLOCK FALSE
