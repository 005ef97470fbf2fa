\* Polite clients: the server implements the lobby, and serves them in the end.
SPECIFICATION Spec
CONSTANTS
  Absent = Absent
  NullPtr = NullPtr
  NoToken = NoToken
  NoNick = NoNick
  t1 = t1
  t2 = t2
  t3 = t3
  n1 = n1
  n2 = n2
  n3 = n3
  Sessions = {1, 2, 3}
  Tokens <- ThreeTokens
  Nicks <- ThreeNicks
  Account <- ThreeAccounts
  Modes = {0, 2}
  FirstPort = 1
  PortSpace = 3
  MaxGames = 3
  Unruly = {}
INVARIANTS
  PoliteInv
  NeverCrashes
  QueuedAreReachable
  EveryoneTold
  GamesAreDisjoint
PROPERTIES
  ImplementsLobby
  FullHouseServed
  DepartedForgotten
CHECK_DEADLOCK FALSE
