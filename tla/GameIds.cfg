\* A player leaves: the IDs of the others change.
SPECIFICATION Spec
CONSTANTS
  c1 = c1
  c2 = c2
  c3 = c3
  t1 = t1
  t2 = t2
  n1 = n1
  n2 = n2
  NoName = NoName
  Absent = Absent
  Conns <- DuoConns
  Tokens <- DuoTokens
  TokenOf <- DuoTokenOf
  NickOf <- DuoNickOf
  Nicks <- DuoNicks
  Mode = 1
  MaxReceived = 4
  Unruly = {"Leave"}
INVARIANTS
  PlayersMayMove
CHECK_DEADLOCK FALSE
