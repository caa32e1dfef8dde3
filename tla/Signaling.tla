------------------------------ MODULE Signaling ------------------------------
(***************************************************************************)
(* The signaling server's lobby: Hub (the registry of connected players),  *)
(* Rooms (the registry of rooms) and Player (the handler of one client's   *)
(* messages), src/server/signaling/.                                       *)
(*                                                                         *)
(* The server is one thread.  A handler runs to completion, with every     *)
(* write it makes to any socket, before the next one starts, so an action  *)
(* is one accept, one upgraded connection, one message or one disconnect.  *)
(*                                                                         *)
(* The C++ object graph is kept.  Room objects live on a heap indexed by   *)
(* code; `rooms' is the set of codes still in Rooms::rooms_, and `room[p]' *)
(* is the shared_ptr Player::room_, which may outlive the entry in rooms_. *)
(* Room::host and Room::guest are weak_ptrs: they name a Player that may   *)
(* be gone, and are expired when it is.  A Player is alive exactly while   *)
(* it is in Hub::players_.                                                 *)
(***************************************************************************)
EXTENDS Naturals, Sequences

CONSTANTS
  Players,    \* every Player object ever constructed, one per connection
  NoPlayer,   \* the empty weak_ptr
  Bodies,     \* bodies of RELAY messages, opaque to the server
  MaxCode     \* bound: number of rooms ever created (a uint64_t in the code)

ASSUME LobbyAssumption ==
  /\ NoPlayer \notin Players
  /\ MaxCode \in Nat

Codes  == 1 .. MaxCode
NoRoom == 0                 \* the null room_, and ParseCode's failure value

VARIABLES
  conn,       \* p's connection: "unused", "Handshake", "Open" or "closed"
  players,    \* Hub::players_
  rooms,      \* the keys of Rooms::rooms_
  nextCode,   \* Rooms::next_code_
  host,       \* Room::host, per code
  guest,      \* Room::guest, per code
  room,       \* Player::room_, per player
  sent,       \* the lines the last handler wrote, per player, in order
  \* History variables: no guard reads them.
  told,       \* what the lines sent to p so far say of p's place
  seen,       \* the last ROOMS list sent to p
  strays      \* players that entered a room while they were in one

serverVars == <<conn, players, rooms, nextCode, host, guest, room>>
vars == <<serverVars, sent, told, seen, strays>>

-----------------------------------------------------------------------------
(* The lines of the wire protocol, server to client. *)

RoomsLine(codes) == [verb |-> "ROOMS", codes |-> codes]
Created(c)       == [verb |-> "CREATED", code |-> c]
Ready(role)      == [verb |-> "READY", role |-> role]
Relayed(body)    == [verb |-> "RELAY", body |-> body]
PeerLeft         == [verb |-> "PEER_LEFT"]
Error(reason)    == [verb |-> "ERROR", reason |-> reason]

Reasons == {"join_failed", "not_in_room", "unknown_verb"}

Line == [verb : {"ROOMS"}, codes : SUBSET Codes]
          \union [verb : {"CREATED"}, code : Codes]
          \union [verb : {"READY"}, role : {"host", "guest"}]
          \union [verb : {"RELAY"}, body : Bodies]
          \union [verb : {"PEER_LEFT"}]
          \union [verb : {"ERROR"}, reason : Reasons]

\* The line, when the condition holds, as a sequence to be concatenated.
When(condition, line) == IF condition THEN <<line>> ELSE <<>>

Has(lines, verb) == \E i \in DOMAIN lines : lines[i].verb = verb

NoList == {NoRoom}          \* p was sent no ROOMS line yet

\* What lines amount to for a client that stood at `before'.
Told(before, lines) ==
  IF Has(lines, "READY") THEN "Playing"
  ELSE IF Has(lines, "CREATED") THEN "Hosting"
  ELSE IF Has(lines, "PEER_LEFT") THEN "Lobby"
  ELSE before

\* The list a client has after lines, `before' being the one it had.
Seen(before, lines) ==
  IF Has(lines, "ROOMS")
  THEN lines[CHOOSE i \in DOMAIN lines : lines[i].verb = "ROOMS"].codes
  ELSE before

\* A handler writes lines[p] to each p.  The history variables follow.
Emit(lines) ==
  /\ sent' = lines
  /\ told' = [p \in Players |-> Told(told[p], lines[p])]
  /\ seen' = [p \in Players |-> Seen(seen[p], lines[p])]

\* The handler answers p alone.
Answer(p, line) == Emit([q \in Players |-> When(q = p, line)])

-----------------------------------------------------------------------------
(* Rooms and Hub. *)

\* Rooms::JoinableCodes: the rooms whose guest has expired or never came.
JoinableCodes(codes, guests) == {c \in codes : guests[c] \notin players}

\* A variant: the list goes out before the rooms are entered and left.
BroadcastBeforeSeating(q, codes, guests, seats) ==
  When(q \in players /\ room[q] = NoRoom,
       RoomsLine(JoinableCodes(codes, guests)))

\* Hub::BroadcastRoomList, as the lines q is sent: the list goes to every
\* registered player without a room.  The arguments are the state of the
\* registries at the moment Rooms::Notify is called.
BroadcastRoomList(q, codes, guests, seats) ==
  When(q \in players /\ seats[q] = NoRoom,
       RoomsLine(JoinableCodes(codes, guests)))

\* A variant: Rooms::Join does not look at the guest.
AnyRoom(c) == c \in rooms

\* Rooms::Join takes a registered room whose guest has expired or never came.
Joinable(c) == c \in rooms /\ guest[c] \notin players

\* A variant: the room stays registered.
DeleteNothing(c) == rooms

\* A variant: a room with a guest stays registered.
DeleteUnjoined(c) == {d \in rooms : d # c \/ guest[d] \in players}

\* Rooms::Delete, as the rooms that remain.
Delete(c) == rooms \ {c}

\* A variant: the player stays registered.
UnregisterNobody(p) == players

\* Hub::Unregister, as the players that remain.
Unregister(p) == players \ {p}

\* A variant: a player alone in its room is its own peer.
AnyOccupant(c, self) ==
  IF host[c] \in players THEN host[c]
  ELSE IF guest[c] \in players THEN guest[c]
  ELSE NoPlayer

\* The other occupant of room c, host first, or NoPlayer.
OtherPlayer(c, self) ==
  IF host[c] \in players \ {self} THEN host[c]
  ELSE IF guest[c] \in players \ {self} THEN guest[c]
  ELSE NoPlayer

\* The player that p's RELAY would reach.
Peer(p) == IF room[p] = NoRoom THEN NoPlayer ELSE OtherPlayer(room[p], p)

\* A variant: the peer keeps its room.
LeaveNoRoom(peer) == room

\* Player::LeaveRoom, by the peer of a player that goes.
LeaveRoom(peer) == [q \in Players |-> IF q = peer THEN NoRoom ELSE room[q]]

\* A variant: the host is told only when it joins itself.
TellNoHost(q, p, c) ==
  When(q = host[c] /\ q \in players /\ q = p, Ready("host"))

\* The line q is sent as the host of the room c that p has joined.
TellHost(q, p, c) ==
  When(q = host[c] /\ q \in players /\ q # p, Ready("host"))

\* A variant: the room is deleted before the peer is told.
ListThenPeerLeft(q, peer, r, seats) ==
  (IF r \in rooms
   THEN BroadcastRoomList(q, Delete(r), guest, seats)
   ELSE <<>>) \o When(q = peer, PeerLeft)

\* The lines q is sent when a player in room r goes and its peer is put out.
\* Rooms::Delete broadcasts only when there was something to erase.
Partings(q, peer, r, seats) ==
  When(q = peer, PeerLeft)
    \o IF r \in rooms
       THEN BroadcastRoomList(q, Delete(r), guest, seats)
       ELSE <<>>

-----------------------------------------------------------------------------
(* The handlers. *)

Init ==
  /\ conn = [p \in Players |-> "unused"]
  /\ players = {}
  /\ rooms = {}
  /\ nextCode = 1
  /\ host = [c \in Codes |-> NoPlayer]
  /\ guest = [c \in Codes |-> NoPlayer]
  /\ room = [p \in Players |-> NoRoom]
  /\ sent = [p \in Players |-> <<>>]
  /\ told = [p \in Players |-> "Lobby"]
  /\ seen = [p \in Players |-> NoList]
  /\ strays = {}

\* The listener accepts a connection, constructs its Player and registers it.
\* The upgrade request has not been read yet.
Accept(p) ==
  /\ conn[p] = "unused"
  /\ conn' = [conn EXCEPT ![p] = "Handshake"]
  /\ players' = players \union {p}
  /\ Emit([q \in Players |-> <<>>])
  /\ UNCHANGED <<rooms, nextCode, host, guest, room, strays>>

\* The upgrade request is complete and well formed: 101, and frames from now.
Upgrade(p) ==
  /\ conn[p] = "Handshake"
  /\ conn' = [conn EXCEPT ![p] = "Open"]
  /\ Emit([q \in Players |-> <<>>])
  /\ UNCHANGED <<players, rooms, nextCode, host, guest, room, strays>>

HandleList(p) ==
  /\ conn[p] = "Open"
  /\ Answer(p, RoomsLine(JoinableCodes(rooms, guest)))
  /\ UNCHANGED <<serverVars, strays>>

\* The history of who entered a room without having left the previous one.
Enter(p) ==
  strays' = IF room[p] = NoRoom THEN strays ELSE strays \union {p}

\* Rooms::NewRoom (which seats p and broadcasts the list), then CREATED.
HandleCreate(p) ==
  /\ conn[p] = "Open"
  /\ nextCode <= MaxCode
  /\ nextCode' = nextCode + 1
  /\ rooms' = rooms \union {nextCode}
  /\ host' = [host EXCEPT ![nextCode] = p]
  /\ room' = [room EXCEPT ![p] = nextCode]
  /\ Emit([q \in Players |-> BroadcastRoomList(q, rooms', guest, room')
                               \o When(q = p, Created(nextCode))])
  /\ Enter(p)
  /\ UNCHANGED <<conn, players, guest>>

\* JOIN c succeeds.  The host, if it is still there and is not p itself, and
\* then p, are told READY.
JoinRoom(p, c) ==
  /\ conn[p] = "Open"
  /\ Joinable(c)
  /\ guest' = [guest EXCEPT ![c] = p]
  /\ room' = [room EXCEPT ![p] = c]
  /\ Emit([q \in Players |->
             BroadcastRoomList(q, rooms, guest', room')
               \o TellHost(q, p, c)
               \o When(q = p, Ready("guest"))])
  /\ Enter(p)
  /\ UNCHANGED <<conn, players, rooms, nextCode, host>>

\* JOIN of an unparsable or unknown code, or of a room that has a guest.
JoinFails(p, c) ==
  /\ conn[p] = "Open"
  /\ ~ Joinable(c)
  /\ Answer(p, Error("join_failed"))
  /\ UNCHANGED <<serverVars, strays>>

HandleRelay(p, body) ==
  /\ conn[p] = "Open"
  /\ IF Peer(p) = NoPlayer
     THEN Answer(p, Error("not_in_room"))
     ELSE Answer(Peer(p), Relayed(body))
  /\ UNCHANGED <<serverVars, strays>>

UnknownVerb(p) ==
  /\ conn[p] = "Open"
  /\ Answer(p, Error("unknown_verb"))
  /\ UNCHANGED <<serverVars, strays>>

\* p's Read returned Err.  Player::Cleanup puts the peer out of its room, tells
\* it, deletes the room, lets Rooms::Delete broadcast the list (p is still
\* registered and seated then), and unregisters p, which destroys it.
Cleanup(p) ==
  LET r     == room[p]
      peer  == Peer(p)
      seats == LeaveRoom(peer)
  IN
  /\ p \in players
  /\ conn' = [conn EXCEPT ![p] = "closed"]
  /\ players' = Unregister(p)
  /\ rooms' = Delete(r)
  /\ room' = [seats EXCEPT ![p] = NoRoom]
  /\ Emit([q \in Players |-> Partings(q, peer, r, seats)])
  /\ UNCHANGED <<nextCode, host, guest, strays>>

Next ==
  \E p \in Players :
    \/ Accept(p)
    \/ Upgrade(p)
    \/ HandleList(p)
    \/ HandleCreate(p)
    \/ \E c \in Codes : JoinRoom(p, c)
    \/ \E c \in Codes \union {NoRoom} : JoinFails(p, c)
    \/ \E body \in Bodies : HandleRelay(p, body)
    \/ UnknownVerb(p)
    \/ Cleanup(p)

\* Clients may send anything at any time.
Spec == Init /\ [][Next]_vars

-----------------------------------------------------------------------------
(* Properties. *)

\* Every variable holds a value of its kind.
TypeOK ==
  /\ conn \in [Players -> {"unused", "Handshake", "Open", "closed"}]
  /\ players = {p \in Players : conn[p] \in {"Handshake", "Open"}}
  /\ rooms \subseteq Codes
  /\ nextCode \in 1 .. MaxCode + 1
  /\ host \in [Codes -> Players \union {NoPlayer}]
  /\ guest \in [Codes -> Players \union {NoPlayer}]
  /\ room \in [Players -> Codes \union {NoRoom}]
  /\ sent \in [Players -> Seq(Line)]
  /\ told \in [Players -> {"Lobby", "Hosting", "Playing"}]
  /\ seen \in [Players -> (SUBSET Codes) \union {NoList}]
  /\ strays \subseteq Players

\* Whatever the clients do, a player's room_ never dangles: it is null, or a
\* room that is still registered and has that player as host or as guest.
\* Cleanup relies on it: it deletes room_->code and puts out only the one
\* other occupant it finds.
SeatIsReal ==
  \A p \in Players : room[p] # NoRoom =>
    /\ p \in players
    /\ room[p] \in rooms
    /\ p \in {host[room[p]], guest[room[p]]}

\* A client that never enters a room from inside a room is, whatever all the
\* others do, an occupant of at most one registered room: its room_.
OneSeat ==
  \A p \in players \ strays, c \in rooms :
    p \in {host[c], guest[c]} => room[p] = c

\* Relaying is mutual: if the messages of p reach q then those of q reach p,
\* and neither talks to itself.
MutualPeers ==
  \A p, q \in Players \ strays : Peer(p) = q => p # q /\ Peer(q) = p

\* A registered room does not outlive an occupant that kept to one room: when
\* either side disconnects, the room goes.
RoomsDieWithOccupants ==
  \A c \in rooms : {host[c], guest[c]} \ strays \subseteq players \union {NoPlayer}

\* While no client has entered a room from inside one, what the lines sent to
\* a client amount to is where the server has it: CREATED and no guest yet,
\* READY and a live peer, or in the lobby.
ToldTruth ==
  strays = {} => \A p \in players :
    told[p] = IF room[p] = NoRoom THEN "Lobby"
              ELSE IF Peer(p) = NoPlayer THEN "Hosting" ELSE "Playing"

\* Likewise the last list sent to a player in the lobby is the list of now:
\* every change of the joinable set was broadcast, in the right order.
SeenIsCurrent ==
  strays = {} => \A p \in players :
    room[p] = NoRoom => seen[p] \in {NoList, JoinableCodes(rooms, guest)}

\* A RELAY reaches only a client that was told READY before and not put out
\* since.  The client depends on it: it drops envelopes that find no peer
\* connection (rtc.ts), and READY is what creates one.
RelayFollowsReady ==
  \A p \in Players \ strays : Has(sent[p], "RELAY") => told[p] = "Playing"

\* No step puts a live player out of its room without telling it PEER_LEFT
\* first, before any list, and a client that keeps to one room hears PEER_LEFT
\* only then.
EvictedIsTold ==
  [][\A p \in players' :
       /\ room[p] # NoRoom /\ room'[p] = NoRoom
            => sent'[p] # <<>> /\ Head(sent'[p]) = PeerLeft
       /\ p \notin strays /\ Has(sent'[p], "PEER_LEFT")
            => room[p] # NoRoom /\ room'[p] = NoRoom]_vars

\* The first bytes the server writes to a connection answer its upgrade
\* request: "While in Handshake state, scan for a complete request and
\* respond" (connection.h).
NothingBeforeUpgrade ==
  \A p \in players : sent[p] # <<>> => conn[p] = "Open"

-----------------------------------------------------------------------------
(* What the lobby amounts to for clients that keep to one room. *)

Lobby == INSTANCE Matchmaking WITH
  used    <- 1 .. nextCode - 1,
  seats   <- [c \in Codes |-> {p \in Players : room[p] = c}],
  relayed <- {p \in Players : Has(sent[p], "RELAY")}

\* As long as no client has entered a room from inside one, the handlers keep
\* the promise of Matchmaking: one room per player, host then guest, an end for
\* both when either goes, codes never reused, RELAY to the matched player only.
MatchesPlayers ==
  Lobby!Init /\ [][strays' = {} => [Lobby!Next]_(Lobby!vars)]_vars

=============================================================================
