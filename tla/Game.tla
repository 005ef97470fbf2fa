-------------------------------- MODULE Game --------------------------------
(***************************************************************************)
(* What a game server promises its players, whatever its threads and the   *)
(* network do: each awaited token seats one player, once; the players are  *)
(* told of each other when the last of them sits, of everyone once; and    *)
(* what moves afterwards, or before, is the ship of a player who sits, or  *)
(* moves under no name: the server lets anyone unknown do that to a ship.  *)
(***************************************************************************)
EXTENDS FiniteSets, SequencesExt

CONSTANTS
  Conns,   \* the connections
  Tokens,  \* the tokens of the players the game was started for
  NickOf,  \* the nickname behind each token
  NoName   \* the empty name

VARIABLES
  awaited,  \* the tokens nobody has come with yet
  seats,    \* who sits: [from, token, nick]
  told      \* the notices published, in their order

vars == <<awaited, seats, told>>

Init == awaited = Tokens /\ seats = {} /\ told = <<>>

\* The player behind t comes, on connection c.
Admit(c, t) ==
  /\ t \in awaited
  /\ awaited' = awaited \ {t}
  /\ seats' = seats \cup {[from |-> c, token |-> t, nick |-> NickOf[t]]}
  /\ UNCHANGED told

Publish(notice) ==
  /\ told' = Append(told, notice)
  /\ UNCHANGED <<awaited, seats>>

\* Everyone is told of the player in one seat, once, when all the seats are taken.
Introduce(s) ==
  LET notice == [type |-> "CreatePlayer", nickName |-> s.nick]
  IN  /\ awaited = {}
      /\ notice \notin ToSet(told)
      /\ Publish(notice)

\* Everyone is told where the ship of the player in one seat has moved.
Relate(s) == Publish([type |-> "SetPosition", ettName |-> s.nick])

\* Everyone is told that a ship has moved, but not whose: whoever moved it has no
\* name.  There is a ship to move once somebody sits.
Stray == seats # {} /\ Publish([type |-> "SetPosition", ettName |-> NoName])

Next ==
  \/ Stray
  \/ \E c \in Conns, t \in Tokens : Admit(c, t)
  \/ \E s \in seats : Introduce(s) \/ Relate(s)

Spec == Init /\ [][Next]_vars
=============================================================================
