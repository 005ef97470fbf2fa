\* Any segmentation, and peers that take the game server for the master.
SPECIFICATION Spec
CONSTANTS
  Base = 7
  Width <- TwoBytes
  Types <- GamePackets
  Messages <- ToGame
  ChunkSize = 2
  MaxPackets = 3
  Whole = FALSE
INVARIANTS
  TypeOK
  InStep
  NothingLeftBehind
  OnlyTheLastIsTorn
  ReadAsWritten
CHECK_DEADLOCK FALSE
