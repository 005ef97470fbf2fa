\* Any segmentation: a packet is delivered before its last byte.
SPECIFICATION Spec
CONSTANTS
  Base = 7
  Width <- TwoBytes
  Types <- MatchMakingPackets
  Messages <- ToMaster
  ChunkSize = 2
  MaxPackets = 3
  Whole = FALSE
INVARIANTS
  Intact
CHECK_DEADLOCK FALSE
