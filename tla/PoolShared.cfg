\* Clients that share accounts and speak while they are queued.
SPECIFICATION Spec
CONSTANTS
  Absent = Absent
  NullPtr = NullPtr
  NoToken = NoToken
  NoNick = NoNick
  t1 = t1
  t2 = t2
  t3 = t3
  n1 = n1
  n2 = n2
  n3 = n3
  Sessions = {1, 2, 3}
  Tokens <- TwoTokens
  Nicks <- TwoNicks
  Account <- TwoAccounts
  Modes = {1}
  FirstPort = 1
  PortSpace = 2
  MaxGames = 2
  Unruly = {"SharedAccount", "SpeakWhileQueued"}
INVARIANTS
  ToldOfOneGame
CHECK_DEADLOCK FALSE
