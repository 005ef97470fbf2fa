\* Polite clients, processes that fail to come up, ports that are handed out again.
SPECIFICATION ServiceSpec
CONSTANTS
  Absent = Absent
  NullPtr = NullPtr
  NoToken = NoToken
  NoNick = NoNick
  t1 = t1
  t2 = t2
  n1 = n1
  n2 = n2
  Sessions = {1, 2, 3}
  Tokens <- TwoTokens
  Nicks <- TwoNicks
  Account <- TwoAccounts
  Modes = {0, 1}
  FirstPort = 1
  PortSpace = 2
  MaxGames = 3
  Unruly = {}
INVARIANTS
  EveryPlaceIsKept
PROPERTIES
  ListeningGamesPlay
CHECK_DEADLOCK FALSE
