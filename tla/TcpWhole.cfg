\* Whole packets: the connection is a channel.
SPECIFICATION Spec
CONSTANTS
  Base = 7
  Width <- TwoBytes
  Types <- MatchMakingPackets
  Messages <- ToMaster
  ChunkSize = 2
  MaxPackets = 3
  Whole = TRUE
PROPERTIES
  ImplementsChannel
  ArrivedIsDelivered
CHECK_DEADLOCK FALSE
