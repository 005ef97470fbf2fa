------------------------------- MODULE MCTcp -------------------------------
(***************************************************************************)
(* Instances of TCPProtocolConnection for TLC: packets of both servers,    *)
(* with widths and bytes small enough to enumerate every segmentation.     *)
(***************************************************************************)
EXTENDS TCPProtocolConnection

TwoBytes == [k \in Basics |-> 2]

Said(list, n, values) == [types |-> list, packet |-> [id |-> n, fields |-> values]]

\* Authenticate with a token of one byte and of none, QueueLeave, GameHostInfo.
ToMaster ==
  {Said(MatchMakingPackets, 0, << <<1>> >>), Said(MatchMakingPackets, 0, << <<>> >>),
   Said(MatchMakingPackets, 2, <<>>), Said(MatchMakingPackets, 6, << <<8>> >>)}

\* Welcome, Move, and what a client that still speaks to the master would say.
ToGame ==
  {Said(GamePackets, 0, <<>>), Said(GamePackets, 4, << <<3>>, <<2>>, <<7>> >>)}
    \cup ToMaster
=============================================================================
