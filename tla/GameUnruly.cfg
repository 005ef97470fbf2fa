\* Two players, one of them on two connections, who come, go and speak as they like.
SPECIFICATION Spec
CONSTANTS
  c1 = c1
  c2 = c2
  c3 = c3
  t1 = t1
  t2 = t2
  n1 = n1
  n2 = n2
  NoName = NoName
  Absent = Absent
  Conns <- TrioConns
  Tokens <- DuoTokens
  TokenOf <- DuoTokenOf
  NickOf <- DuoNickOf
  Nicks <- DuoNicks
  Mode = 1
  MaxReceived = 3
  Unruly = {"Leave", "MoveAtWill"}
SYMMETRY FirstPlayer
INVARIANTS
  TypeOK
  OneShipPerToken
  PlayersAnnouncedTogether
  NamesHaveShips
  NoDeafClient
  MoverOwnsShip
PROPERTIES
  ImplementsGame
CHECK_DEADLOCK FALSE
