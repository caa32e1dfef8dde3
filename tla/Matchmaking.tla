----------------------------- MODULE Matchmaking -----------------------------
(***************************************************************************)
(* What the lobby promises its clients, with no sockets, no registries and *)
(* no messages but the relayed ones: every player sits in at most one      *)
(* room, a room holds a host and then one guest, a room that loses either  *)
(* is over for both and its code is never used again, and what a player    *)
(* relays reaches the player it was matched with and nobody else.          *)
(***************************************************************************)
EXTENDS Naturals

CONSTANTS Players, Codes

VARIABLES
  used,     \* the codes handed out so far
  seats,    \* the players in each room
  relayed   \* the players the last step relayed something to

vars == <<used, seats, relayed>>

Seated(p) == \E c \in Codes : p \in seats[c]

TypeOK ==
  /\ used \subseteq Codes
  /\ seats \in [Codes -> SUBSET Players]
  /\ relayed \subseteq Players

Init ==
  /\ used = {}
  /\ seats = [c \in Codes |-> {}]
  /\ relayed = {}

\* A player in no room opens one, under a code never used before.
OpenRoom(p, c) ==
  /\ ~ Seated(p)
  /\ c \notin used
  /\ used' = used \union {c}
  /\ seats' = [seats EXCEPT ![c] = {p}]
  /\ relayed' = {}

\* A player in no room takes the free seat of a room with one player.
Match(h, g, c) ==
  /\ ~ Seated(g)
  /\ seats[c] = {h}
  /\ seats' = [seats EXCEPT ![c] = {h, g}]
  /\ relayed' = {}
  /\ UNCHANGED used

\* A room ends for everybody in it at once.
Dissolve(c) ==
  /\ seats[c] # {}
  /\ seats' = [seats EXCEPT ![c] = {}]
  /\ relayed' = {}
  /\ UNCHANGED used

\* What one of two matched players relays reaches the other.
Relay(p, q) ==
  /\ p # q
  /\ \E c \in Codes : seats[c] = {p, q}
  /\ relayed' = {q}
  /\ UNCHANGED <<used, seats>>

\* Nothing the matched players can tell apart.
Quiet ==
  /\ relayed' = {}
  /\ UNCHANGED <<used, seats>>

Next ==
  \/ \E p \in Players, c \in Codes : OpenRoom(p, c)
  \/ \E h, g \in Players, c \in Codes : Match(h, g, c)
  \/ \E c \in Codes : Dissolve(c)
  \/ \E p, q \in Players : Relay(p, q)
  \/ Quiet

Spec == Init /\ [][Next]_vars

=============================================================================
