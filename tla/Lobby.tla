------------------------------- MODULE Lobby -------------------------------
(***************************************************************************)
(* What the master server promises its clients, without saying how: a      *)
(* client waits for some modes, and is either let go or grouped, once and  *)
(* for good, with others that wait for the same mode; the group is told    *)
(* one port, which no other recent group was told.                         *)
(***************************************************************************)
EXTENDS Integers, FiniteSets, Sequences

CONSTANTS Clients, Modes, PortSpace

VARIABLES
  up,       \* the service answers
  members,  \* the clients it talks to
  former,   \* the clients that left or were matched; they never come back
  waiting,  \* the clients that wait for each mode
  matches   \* the groups formed: [port, mode, group]

vars == <<up, members, former, waiting, matches>>

Init ==
  /\ up = TRUE
  /\ members = {}
  /\ former = {}
  /\ waiting = [m \in Modes |-> {}]
  /\ matches = <<>>

\* A port no group was told among the last PortSpace - 1.
Fresh(port) ==
  \A i \in DOMAIN matches : Len(matches) - i < PortSpace - 1 => matches[i].port # port

Withdrawn(gone) == [m \in Modes |-> waiting[m] \ gone]

Connect(c) ==
  /\ up
  /\ c \notin members \cup former
  /\ members' = members \cup {c}
  /\ UNCHANGED <<up, former, waiting, matches>>

\* A client waits for a mode whose group it does not complete.
Wait(c, m) ==
  /\ up
  /\ c \in members
  /\ Cardinality(waiting[m] \cup {c}) < m + 1
  /\ waiting' = [waiting EXCEPT ![m] = @ \cup {c}]
  /\ UNCHANGED <<up, members, former, matches>>

\* A client completes the group of a mode: all of it is told and let go.
Match(c, m) ==
  LET group == waiting[m] \cup {c}
  IN  /\ up
      /\ c \in members
      /\ Cardinality(group) = m + 1
      /\ \E port \in 0..(PortSpace - 1) :
           /\ Fresh(port)
           /\ matches' = Append(matches, [port |-> port, mode |-> m, group |-> group])
      /\ members' = members \ group
      /\ former' = former \cup group
      /\ waiting' = Withdrawn(group)
      /\ UNCHANGED up

Leave(c) ==
  /\ up
  /\ c \in members
  /\ members' = members \ {c}
  /\ former' = former \cup {c}
  /\ waiting' = Withdrawn({c})
  /\ UNCHANGED <<up, matches>>

Stop ==
  /\ up
  /\ up' = FALSE
  /\ UNCHANGED <<members, former, waiting, matches>>

Next ==
  \/ Stop
  \/ \E c \in Clients : Connect(c) \/ Leave(c) \/ \E m \in Modes : Wait(c, m) \/ Match(c, m)

Spec == Init /\ [][Next]_vars
=============================================================================
