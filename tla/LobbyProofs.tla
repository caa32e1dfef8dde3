----------------------------- MODULE LobbyProofs ------------------------------
(***************************************************************************)
(* Theorems about the lobby: its registries, what it tells its clients,    *)
(* and that it implements Matchmaking as long as they keep to one room;    *)
(* for any set of players, of bodies and any bound on the number of rooms. *)
(***************************************************************************)
EXTENDS Signaling, TLAPS

-----------------------------------------------------------------------------
(* The lines. *)

LEMMA WhenTyped ==
  ASSUME NEW condition, NEW line \in Line
  PROVE  When(condition, line) \in Seq(Line)
<1>1. CASE condition
  BY <1>1 DEF When
<1>2. CASE ~ condition
  BY <1>2 DEF When
<1> QED
  BY <1>1, <1>2

LEMMA LinesTyped ==
  /\ \A codes \in SUBSET Codes : RoomsLine(codes) \in Line
  /\ \A c \in Codes : Created(c) \in Line
  /\ Ready("host") \in Line /\ Ready("guest") \in Line
  /\ \A body \in Bodies : Relayed(body) \in Line
  /\ PeerLeft \in Line
  /\ \A reason \in Reasons : Error(reason) \in Line
BY DEF Line, RoomsLine, Created, Ready, Relayed, PeerLeft, Error

LEMMA BroadcastTyped ==
  ASSUME NEW q, NEW codes \in SUBSET Codes, NEW guests, NEW seats
  PROVE  BroadcastRoomList(q, codes, guests, seats) \in Seq(Line)
<1>1. JoinableCodes(codes, guests) \in SUBSET Codes
  BY DEF JoinableCodes
<1> QED
  BY <1>1, LinesTyped, WhenTyped DEF BroadcastRoomList

LEMMA SeenTyped ==
  ASSUME NEW before \in (SUBSET Codes) \union {NoList}, NEW lines \in Seq(Line)
  PROVE  Seen(before, lines) \in (SUBSET Codes) \union {NoList}
<1>1. CASE Has(lines, "ROOMS")
  <2> DEFINE i == CHOOSE j \in DOMAIN lines : lines[j].verb = "ROOMS"
  <2>1. i \in DOMAIN lines /\ lines[i].verb = "ROOMS"
    BY <1>1 DEF Has
  <2>2. lines[i] \in Line
    BY <2>1
  <2>3. lines[i].codes \in SUBSET Codes
    <3> HIDE DEF i
    <3> QED BY <2>1, <2>2 DEF Line
  <2> QED
    BY <1>1, <2>3 DEF Seen
<1>2. CASE ~ Has(lines, "ROOMS")
  BY <1>2 DEF Seen
<1> QED
  BY <1>1, <1>2

\* What a handler emits keeps the lines and the history variables typed.
LEMMA EmitTyped ==
  ASSUME TypeOK, NEW lines \in [Players -> Seq(Line)], Emit(lines)
  PROVE  /\ sent' \in [Players -> Seq(Line)]
         /\ told' \in [Players -> {"Lobby", "Hosting", "Playing"}]
         /\ seen' \in [Players -> (SUBSET Codes) \union {NoList}]
<1>1. sent' \in [Players -> Seq(Line)]
  BY DEF Emit
<1>2. told' \in [Players -> {"Lobby", "Hosting", "Playing"}]
  BY DEF Emit, TypeOK, Told
<1>3. seen' \in [Players -> (SUBSET Codes) \union {NoList}]
  BY SeenTyped DEF Emit, TypeOK
<1> QED
  BY <1>1, <1>2, <1>3

LEMMA AnswerTyped ==
  ASSUME TypeOK, NEW p, NEW line \in Line, Answer(p, line)
  PROVE  /\ sent' \in [Players -> Seq(Line)]
         /\ told' \in [Players -> {"Lobby", "Hosting", "Playing"}]
         /\ seen' \in [Players -> (SUBSET Codes) \union {NoList}]
<1>1. [q \in Players |-> When(q = p, line)] \in [Players -> Seq(Line)]
  BY WhenTyped
<1> QED
  BY <1>1, EmitTyped DEF Answer

LEMMA SilenceTyped ==
  ASSUME TypeOK, Emit([q \in Players |-> <<>>])
  PROVE  /\ sent' \in [Players -> Seq(Line)]
         /\ told' \in [Players -> {"Lobby", "Hosting", "Playing"}]
         /\ seen' \in [Players -> (SUBSET Codes) \union {NoList}]
<1>1. [q \in Players |-> <<>>] \in [Players -> Seq(Line)]
  OBVIOUS
<1> QED
  BY <1>1, EmitTyped

-----------------------------------------------------------------------------
(* The type invariant. *)

LEMMA InitTyped == LobbyAssumption /\ Init => TypeOK
BY DEF LobbyAssumption, Init, TypeOK, Codes, NoRoom, NoList

LEMMA TypingStep ==
  ASSUME TypeOK, [Next]_vars
  PROVE  TypeOK'
<1> USE LobbyAssumption DEF TypeOK
<1>1. ASSUME NEW p \in Players, Accept(p)
      PROVE  TypeOK'
  BY <1>1, SilenceTyped DEF Accept
<1>2. ASSUME NEW p \in Players, Upgrade(p)
      PROVE  TypeOK'
  BY <1>2, SilenceTyped DEF Upgrade
<1>3. ASSUME NEW p \in Players, HandleList(p)
      PROVE  TypeOK'
  <2>1. RoomsLine(JoinableCodes(rooms, guest)) \in Line
    BY LinesTyped DEF JoinableCodes
  <2> QED
    BY <1>3, <2>1, AnswerTyped DEF HandleList, serverVars
<1>4. ASSUME NEW p \in Players, HandleCreate(p)
      PROVE  TypeOK'
  <2>1. nextCode \in Codes /\ nextCode + 1 \in 1 .. MaxCode + 1
    BY <1>4 DEF HandleCreate, Codes
  <2>2. rooms' \in SUBSET Codes
    BY <1>4, <2>1 DEF HandleCreate
  <2>3. [q \in Players |-> BroadcastRoomList(q, rooms', guest, room')
                            \o When(q = p, Created(nextCode))]
          \in [Players -> Seq(Line)]
    BY <2>1, <2>2, BroadcastTyped, WhenTyped, LinesTyped
  <2>4. sent' \in [Players -> Seq(Line)]
        /\ told' \in [Players -> {"Lobby", "Hosting", "Playing"}]
        /\ seen' \in [Players -> (SUBSET Codes) \union {NoList}]
    BY <1>4, <2>3, EmitTyped DEF HandleCreate
  <2> QED
    BY <1>4, <2>1, <2>2, <2>4 DEF HandleCreate, Enter
<1>5. ASSUME NEW p \in Players, NEW c \in Codes, JoinRoom(p, c)
      PROVE  TypeOK'
  <2>1. ASSUME NEW q \in Players
        PROVE  TellHost(q, p, c) \in Seq(Line)
    BY WhenTyped, LinesTyped DEF TellHost
  <2>2. [q \in Players |-> BroadcastRoomList(q, rooms, guest', room')
                            \o TellHost(q, p, c)
                            \o When(q = p, Ready("guest"))]
          \in [Players -> Seq(Line)]
    BY <2>1, BroadcastTyped, WhenTyped, LinesTyped
  <2>3. sent' \in [Players -> Seq(Line)]
        /\ told' \in [Players -> {"Lobby", "Hosting", "Playing"}]
        /\ seen' \in [Players -> (SUBSET Codes) \union {NoList}]
    BY <1>5, <2>2, EmitTyped DEF JoinRoom
  <2> QED
    BY <1>5, <2>3 DEF JoinRoom, Enter
<1>6. ASSUME NEW p \in Players, NEW c, JoinFails(p, c)
      PROVE  TypeOK'
  <2>1. Error("join_failed") \in Line
    BY LinesTyped DEF Reasons
  <2> QED
    BY <1>6, <2>1, AnswerTyped DEF JoinFails, serverVars
<1>7. ASSUME NEW p \in Players, NEW body \in Bodies, HandleRelay(p, body)
      PROVE  TypeOK'
  <2>1. Error("not_in_room") \in Line /\ Relayed(body) \in Line
    BY LinesTyped DEF Reasons
  <2> QED
    BY <1>7, <2>1, AnswerTyped DEF HandleRelay, serverVars
<1>8. ASSUME NEW p \in Players, UnknownVerb(p)
      PROVE  TypeOK'
  <2>1. Error("unknown_verb") \in Line
    BY LinesTyped DEF Reasons
  <2> QED
    BY <1>8, <2>1, AnswerTyped DEF UnknownVerb, serverVars
<1>9. ASSUME NEW p \in Players, Cleanup(p)
      PROVE  TypeOK'
  <2> DEFINE seats == LeaveRoom(Peer(p))
  <2>1. ASSUME NEW q \in Players
        PROVE  Partings(q, Peer(p), room[p], seats) \in Seq(Line)
    BY BroadcastTyped, WhenTyped, LinesTyped DEF Partings, Delete
  <2>2. sent' \in [Players -> Seq(Line)]
        /\ told' \in [Players -> {"Lobby", "Hosting", "Playing"}]
        /\ seen' \in [Players -> (SUBSET Codes) \union {NoList}]
    BY <1>9, <2>1, EmitTyped DEF Cleanup
  <2>3. seats \in [Players -> Codes \union {NoRoom}]
    BY DEF LeaveRoom
  <2>4. players' = {q \in Players : conn'[q] \in {"Handshake", "Open"}}
    BY <1>9 DEF Cleanup, Unregister
  <2> QED
    BY <1>9, <2>2, <2>3, <2>4 DEF Cleanup, Delete
<1>10. CASE UNCHANGED vars
  BY <1>10 DEF vars, serverVars
<1> QED
  BY <1>1, <1>2, <1>3, <1>4, <1>5, <1>6, <1>7, <1>8, <1>9, <1>10 DEF Next

\* Every variable of the lobby keeps to its kind: in particular a Player is
\* registered in the Hub exactly while its connection exists.
THEOREM TypeCorrect == Spec => []TypeOK
<1>1. Init => TypeOK
  BY LobbyAssumption, InitTyped
<1>2. TypeOK /\ [Next]_vars => TypeOK'
  BY TypingStep
<1> QED
  BY <1>1, <1>2, PTL DEF Spec

-----------------------------------------------------------------------------
(* The registries, whatever the clients send. *)

\* A code not handed out yet names no room and nobody in one.
FreshCodes ==
  \A c \in Codes : c >= nextCode =>
    c \notin rooms /\ host[c] = NoPlayer /\ guest[c] = NoPlayer

\* A registered room was given a host.
RoomsWereHosted == \A c \in rooms : host[c] \in Players

\* Whoever entered a room had been upgraded.
OccupantsConnected ==
  \A c \in Codes, p \in Players :
    p \in {host[c], guest[c]} => conn[p] \in {"Open", "closed"}

\* Inductive for arbitrary clients.  SeatIsReal alone is not: that the peer
\* found by Cleanup is all it must put out rests on the two places of a room,
\* that a new Player is in none of them on OccupantsConnected, that a new
\* room has no guest on FreshCodes.
IInv ==
  /\ TypeOK
  /\ SeatIsReal
  /\ OneSeat
  /\ RoomsDieWithOccupants
  /\ FreshCodes
  /\ RoomsWereHosted
  /\ OccupantsConnected

LEMMA PeerFacts ==
  ASSUME TypeOK, NEW p \in Players, Peer(p) # NoPlayer
  PROVE  /\ room[p] \in Codes
         /\ Peer(p) \in players
         /\ Peer(p) # p
         /\ Peer(p) \in {host[room[p]], guest[room[p]]}
BY LobbyAssumption DEF Peer, OtherPlayer, TypeOK, NoRoom

\* The peer is whoever else is alive and in the room's two places.
LEMMA PeerUnique ==
  ASSUME TypeOK, NEW p \in Players, NEW q \in players, p # q,
         room[p] \in Codes,
         p \in {host[room[p]], guest[room[p]]},
         q \in {host[room[p]], guest[room[p]]}
  PROVE  Peer(p) = q
BY LobbyAssumption DEF Peer, OtherPlayer, TypeOK, NoRoom, Codes

LEMMA InitIInv == Init => IInv
<1> SUFFICES ASSUME Init PROVE IInv
  OBVIOUS
<1>1. TypeOK
  BY LobbyAssumption, InitTyped
<1> QED
  BY <1>1, LobbyAssumption DEF Init, IInv, SeatIsReal, OneSeat, RoomsDieWithOccupants,
              FreshCodes, RoomsWereHosted, OccupantsConnected

\* The handlers that change no registry.
LEMMA QuietIInv ==
  ASSUME IInv, TypeOK', UNCHANGED <<serverVars, strays>>
  PROVE  IInv'
BY DEF serverVars, IInv, SeatIsReal, OneSeat, RoomsDieWithOccupants,
       FreshCodes, RoomsWereHosted, OccupantsConnected

LEMMA AcceptIInv ==
  ASSUME IInv, TypeOK', NEW p \in Players, Accept(p)
  PROVE  IInv'
<1> USE LobbyAssumption DEF IInv, TypeOK, Accept
<1>1. SeatIsReal'
  BY DEF SeatIsReal
<1>2. OneSeat'
  BY DEF OneSeat, OccupantsConnected
<1>3. RoomsDieWithOccupants'
  BY DEF RoomsDieWithOccupants
<1>4. FreshCodes' /\ RoomsWereHosted'
  BY DEF FreshCodes, RoomsWereHosted
<1>5. OccupantsConnected'
  BY DEF OccupantsConnected
<1> QED
  BY <1>1, <1>2, <1>3, <1>4, <1>5

LEMMA UpgradeIInv ==
  ASSUME IInv, TypeOK', NEW p \in Players, Upgrade(p)
  PROVE  IInv'
<1> USE DEF IInv, TypeOK, Upgrade
<1>1. SeatIsReal' /\ OneSeat' /\ RoomsDieWithOccupants'
  BY DEF SeatIsReal, OneSeat, RoomsDieWithOccupants
<1>2. FreshCodes' /\ RoomsWereHosted'
  BY DEF FreshCodes, RoomsWereHosted
<1>3. OccupantsConnected'
  BY DEF OccupantsConnected
<1> QED
  BY <1>1, <1>2, <1>3

LEMMA CreateIInv ==
  ASSUME IInv, TypeOK', NEW p \in Players, HandleCreate(p)
  PROVE  IInv'
<1> USE LobbyAssumption DEF IInv, TypeOK, HandleCreate
<1>1. nextCode \in Codes /\ p \in players
  BY DEF Codes
<1>2. nextCode \notin rooms /\ host[nextCode] = NoPlayer
      /\ guest[nextCode] = NoPlayer
  BY <1>1 DEF FreshCodes
<1>3. SeatIsReal'
  BY <1>1, <1>2 DEF SeatIsReal
<1>4. OneSeat'
  <2> SUFFICES ASSUME NEW q \in players' \ strays', NEW c \in rooms',
                      q \in {host'[c], guest'[c]}
               PROVE  room'[q] = c
    BY DEF OneSeat
  <2>1. CASE c = nextCode
    BY <1>1, <1>2, <2>1
  <2>2. CASE c # nextCode
    <3>1. q \notin strays /\ c \in rooms /\ q \in {host[c], guest[c]}
      BY <1>1, <2>2 DEF Enter
    <3>2. room[q] = c
      BY <3>1 DEF OneSeat
    <3>3. q # p
      BY <1>1, <3>2 DEF Enter, NoRoom, Codes
    <3> QED
      BY <3>2, <3>3
  <2> QED
    BY <2>1, <2>2
<1>5. RoomsDieWithOccupants'
  BY <1>1, <1>2 DEF RoomsDieWithOccupants, Enter
<1>6. FreshCodes' /\ RoomsWereHosted'
  BY <1>1 DEF FreshCodes, RoomsWereHosted, Codes
<1>7. OccupantsConnected'
  BY <1>1 DEF OccupantsConnected
<1> QED
  BY <1>3, <1>4, <1>5, <1>6, <1>7

LEMMA JoinIInv ==
  ASSUME IInv, TypeOK', NEW p \in Players, NEW c \in Codes, JoinRoom(p, c)
  PROVE  IInv'
<1> USE LobbyAssumption DEF IInv, TypeOK, JoinRoom, Joinable
<1>1. p \in players
  OBVIOUS
<1>2. SeatIsReal'
  BY <1>1 DEF SeatIsReal
<1>3. OneSeat'
  <2> SUFFICES ASSUME NEW q \in players' \ strays', NEW d \in rooms',
                      q \in {host'[d], guest'[d]}
               PROVE  room'[q] = d
    BY DEF OneSeat
  <2>1. CASE q = p
    <3>1. p \notin strays /\ room[p] = NoRoom
      BY <2>1 DEF Enter
    <3>2. d = c
      BY <3>1, <1>1, <2>1 DEF OneSeat, NoRoom, Codes
    <3> QED
      BY <2>1, <3>2
  <2>2. CASE q # p
    BY <2>2 DEF OneSeat, Enter
  <2> QED
    BY <2>1, <2>2
<1>4. RoomsDieWithOccupants'
  BY <1>1 DEF RoomsDieWithOccupants, Enter
<1>5. FreshCodes' /\ RoomsWereHosted'
  BY DEF FreshCodes, RoomsWereHosted, Codes
<1>6. OccupantsConnected'
  BY <1>1 DEF OccupantsConnected
<1> QED
  BY <1>2, <1>3, <1>4, <1>5, <1>6

\* Nobody is left behind in the room that Cleanup deletes.
LEMMA CleanupPutsOutAll ==
  ASSUME IInv, NEW p \in players, Cleanup(p), NEW q \in Players, q # p,
         room[q] = room[p], room[p] # NoRoom
  PROVE  room'[q] = NoRoom
<1>1. Peer(p) = q
  BY PeerUnique DEF IInv, TypeOK, SeatIsReal
<1> QED
  BY <1>1 DEF Cleanup, LeaveRoom, IInv, TypeOK

LEMMA CleanupIInv ==
  ASSUME IInv, TypeOK', NEW p \in Players, Cleanup(p)
  PROVE  IInv'
<1> USE LobbyAssumption DEF IInv, TypeOK
<1>1. /\ p \in players
      /\ conn' = [conn EXCEPT ![p] = "closed"]
      /\ players' = players \ {p}
      /\ rooms' = rooms \ {room[p]}
      /\ UNCHANGED <<nextCode, host, guest, strays>>
  BY DEF Cleanup, Unregister, Delete
<1>2. room' = [q \in Players |-> IF q = p \/ q = Peer(p) THEN NoRoom
                                  ELSE room[q]]
  BY DEF Cleanup, LeaveRoom
<1>3. SeatIsReal'
  <2> SUFFICES ASSUME NEW q \in Players, room'[q] # NoRoom
               PROVE  /\ q \in players'
                      /\ room'[q] \in rooms'
                      /\ q \in {host'[room'[q]], guest'[room'[q]]}
    BY DEF SeatIsReal
  <2>1. q # p /\ room'[q] = room[q]
    BY <1>2
  <2>2. q \in players /\ room[q] \in rooms
        /\ q \in {host[room[q]], guest[room[q]]}
    BY <2>1 DEF SeatIsReal
  <2>3. room[q] # room[p]
    BY <1>1, <2>1, CleanupPutsOutAll
  <2> QED
    BY <1>1, <2>1, <2>2, <2>3
<1>4. OneSeat'
  <2> SUFFICES ASSUME NEW q \in players' \ strays', NEW c \in rooms',
                      q \in {host'[c], guest'[c]}
               PROVE  room'[q] = c
    BY DEF OneSeat
  <2>1. q \in players \ strays /\ q # p /\ c \in rooms /\ c # room[p]
    BY <1>1
  <2>2. room[q] = c
    BY <1>1, <2>1 DEF OneSeat
  <2>3. q # Peer(p)
    <3> SUFFICES ASSUME q = Peer(p) PROVE FALSE
      OBVIOUS
    <3>1. room[p] \in Codes /\ q \in {host[room[p]], guest[room[p]]}
      BY <2>1, PeerFacts
    <3>2. room[p] \in rooms
      BY <3>1 DEF SeatIsReal, NoRoom, Codes
    <3> QED
      BY <2>1, <2>2, <3>1, <3>2 DEF OneSeat
  <2> QED
    BY <1>2, <2>1, <2>2, <2>3
<1>5. RoomsDieWithOccupants'
  <2> SUFFICES ASSUME NEW c \in rooms',
                      NEW q \in {host'[c], guest'[c]} \ strays'
               PROVE  q \in players' \union {NoPlayer}
    BY DEF RoomsDieWithOccupants
  <2>1. c \in rooms /\ c # room[p] /\ q \in {host[c], guest[c]} \ strays
    BY <1>1
  <2>2. q \in players \union {NoPlayer}
    BY <2>1 DEF RoomsDieWithOccupants
  <2>3. q # p
    BY <1>1, <2>1 DEF OneSeat
  <2> QED
    BY <1>1, <2>2, <2>3
<1>6. FreshCodes' /\ RoomsWereHosted'
  BY <1>1 DEF FreshCodes, RoomsWereHosted
<1>7. OccupantsConnected'
  BY <1>1 DEF OccupantsConnected
<1> QED
  BY <1>3, <1>4, <1>5, <1>6, <1>7

LEMMA StepIInv ==
  ASSUME IInv, [Next]_vars
  PROVE  IInv'
<1>1. TypeOK'
  BY TypingStep DEF IInv
<1>2. CASE UNCHANGED vars
  BY <1>1, <1>2, QuietIInv DEF vars
<1>3. ASSUME NEW p \in Players,
             \/ HandleList(p) \/ UnknownVerb(p)
             \/ \E c \in Codes \union {NoRoom} : JoinFails(p, c)
             \/ \E body \in Bodies : HandleRelay(p, body)
      PROVE  IInv'
  BY <1>1, <1>3, QuietIInv DEF HandleList, UnknownVerb, JoinFails, HandleRelay
<1> QED
  BY <1>1, <1>2, <1>3, AcceptIInv, UpgradeIInv, CreateIInv, JoinIInv,
     CleanupIInv DEF Next

LEMMA Invariance == Spec => []IInv
<1>1. IInv /\ [Next]_vars => IInv'
  BY StepIInv
<1> QED
  BY <1>1, InitIInv, PTL DEF Spec

\* A player's room_ is null or a registered room it is host or guest of,
\* whatever the clients send.
THEOREM SeatsAreReal == Spec => []SeatIsReal
<1>1. IInv => SeatIsReal
  BY DEF IInv
<1> QED
  BY <1>1, Invariance, PTL

\* A client that keeps to one room occupies no other, whatever the others do.
THEOREM SeatsAreSingle == Spec => []OneSeat
<1>1. IInv => OneSeat
  BY DEF IInv
<1> QED
  BY <1>1, Invariance, PTL

\* A room goes when an occupant that kept to it goes.
THEOREM RoomsDie == Spec => []RoomsDieWithOccupants
<1>1. IInv => RoomsDieWithOccupants
  BY DEF IInv
<1> QED
  BY <1>1, Invariance, PTL

\* Relaying between clients that keep to one room is mutual.
THEOREM RelayingIsMutual == Spec => []MutualPeers
<1>1. ASSUME IInv, NEW p \in Players \ strays, NEW q \in Players \ strays,
             Peer(p) = q
      PROVE  p # q /\ Peer(q) = p
  <2> USE LobbyAssumption DEF IInv, TypeOK
  <2>1. q # NoPlayer
    OBVIOUS
  <2>2. /\ room[p] \in Codes /\ q \in players /\ q # p
        /\ q \in {host[room[p]], guest[room[p]]}
    BY <1>1, <2>1, PeerFacts
  <2>3. p \in players /\ room[p] \in rooms
        /\ p \in {host[room[p]], guest[room[p]]}
    BY <1>1, <2>2 DEF SeatIsReal, NoRoom, Codes
  <2>4. room[q] = room[p]
    BY <1>1, <2>2, <2>3 DEF OneSeat
  <2> QED
    BY <1>1, <2>2, <2>3, <2>4, PeerUnique
<1>2. IInv => MutualPeers
  BY <1>1 DEF MutualPeers
<1> QED
  BY <1>2, Invariance, PTL

-----------------------------------------------------------------------------
(* The verbs among the lines of a handler. *)

LEMMA HasWhen ==
  ASSUME NEW condition, NEW line \in Line, NEW verb
  PROVE  Has(When(condition, line), verb) <=> condition /\ line.verb = verb
<1>1. CASE condition
  BY <1>1 DEF Has, When
<1>2. CASE ~ condition
  BY <1>2 DEF Has, When
<1> QED
  BY <1>1, <1>2

LEMMA HasNothing ==
  ASSUME NEW verb
  PROVE  ~ Has(<<>>, verb)
BY DEF Has

LEMMA HasConcat ==
  ASSUME NEW s \in Seq(Line), NEW t \in Seq(Line), NEW verb
  PROVE  Has(s \o t, verb) <=> Has(s, verb) \/ Has(t, verb)
<1>1. ASSUME Has(s, verb) PROVE Has(s \o t, verb)
  BY <1>1 DEF Has
<1>2. ASSUME Has(t, verb) PROVE Has(s \o t, verb)
  <2>1. PICK i \in DOMAIN t : t[i].verb = verb
    BY <1>2 DEF Has
  <2>2. Len(s) + i \in DOMAIN (s \o t) /\ (s \o t)[Len(s) + i] = t[i]
    OBVIOUS
  <2> QED
    BY <2>1, <2>2 DEF Has
<1>3. ASSUME Has(s \o t, verb) PROVE Has(s, verb) \/ Has(t, verb)
  <2>1. PICK i \in DOMAIN (s \o t) : (s \o t)[i].verb = verb
    BY <1>3 DEF Has
  <2>2. CASE i <= Len(s)
    BY <2>1, <2>2 DEF Has
  <2>3. CASE ~ i <= Len(s)
    <3>1. i - Len(s) \in DOMAIN t /\ (s \o t)[i] = t[i - Len(s)]
      BY <2>1, <2>3
    <3> QED
      BY <2>1, <3>1 DEF Has
  <2> QED
    BY <2>2, <2>3
<1> QED
  BY <1>1, <1>2, <1>3

LEMMA VerbOf ==
  /\ \A codes : RoomsLine(codes).verb = "ROOMS" /\ RoomsLine(codes).codes = codes
  /\ \A c : Created(c).verb = "CREATED"
  /\ \A role : Ready(role).verb = "READY"
  /\ \A body : Relayed(body).verb = "RELAY"
  /\ PeerLeft.verb = "PEER_LEFT"
  /\ \A reason : Error(reason).verb = "ERROR"
BY DEF RoomsLine, Created, Ready, Relayed, PeerLeft, Error

LEMMA HasBroadcast ==
  ASSUME NEW q, NEW codes \in SUBSET Codes, NEW guests, NEW seats, NEW verb
  PROVE  Has(BroadcastRoomList(q, codes, guests, seats), verb)
           <=> q \in players /\ seats[q] = NoRoom /\ verb = "ROOMS"
<1>1. RoomsLine(JoinableCodes(codes, guests)) \in Line
  BY LinesTyped DEF JoinableCodes
<1>2. RoomsLine(JoinableCodes(codes, guests)).verb = "ROOMS"
  BY VerbOf
<1>3. CASE q \in players /\ seats[q] = NoRoom
  <2>1. BroadcastRoomList(q, codes, guests, seats)
          = <<RoomsLine(JoinableCodes(codes, guests))>>
    BY <1>3 DEF BroadcastRoomList, When
  <2> QED
    BY <1>2, <1>3, <2>1 DEF Has
<1>4. CASE ~ (q \in players /\ seats[q] = NoRoom)
  <2>1. BroadcastRoomList(q, codes, guests, seats) = <<>>
    BY <1>4 DEF BroadcastRoomList, When
  <2> QED
    BY <1>4, <2>1, HasNothing
<1> QED
  BY <1>3, <1>4

\* Lines whose only lists are of these codes.
ListsOnly(lines, codes) ==
  \A i \in DOMAIN lines : lines[i].verb = "ROOMS" => lines[i].codes = codes

LEMMA ListsOnlyWhen ==
  ASSUME NEW condition, NEW line \in Line, NEW codes,
         line.verb = "ROOMS" => line.codes = codes
  PROVE  ListsOnly(When(condition, line), codes)
<1>1. CASE condition
  BY <1>1 DEF ListsOnly, When
<1>2. CASE ~ condition
  BY <1>2 DEF ListsOnly, When
<1> QED
  BY <1>1, <1>2

LEMMA ListsOnlyConcat ==
  ASSUME NEW s \in Seq(Line), NEW t \in Seq(Line), NEW codes,
         ListsOnly(s, codes), ListsOnly(t, codes)
  PROVE  ListsOnly(s \o t, codes)
<1> SUFFICES ASSUME NEW i \in DOMAIN (s \o t), (s \o t)[i].verb = "ROOMS"
             PROVE  (s \o t)[i].codes = codes
  BY DEF ListsOnly
<1>1. CASE i <= Len(s)
  BY <1>1 DEF ListsOnly
<1>2. CASE ~ i <= Len(s)
  <2>1. i - Len(s) \in DOMAIN t /\ (s \o t)[i] = t[i - Len(s)]
    BY <1>2
  <2> QED
    BY <2>1 DEF ListsOnly
<1> QED
  BY <1>1, <1>2

LEMMA SeenList ==
  ASSUME NEW before, NEW lines, NEW codes, ListsOnly(lines, codes)
  PROVE  Seen(before, lines) = IF Has(lines, "ROOMS") THEN codes ELSE before
<1>1. CASE Has(lines, "ROOMS")
  <2> DEFINE i == CHOOSE j \in DOMAIN lines : lines[j].verb = "ROOMS"
  <2>1. i \in DOMAIN lines /\ lines[i].verb = "ROOMS"
    BY <1>1 DEF Has
  <2>2. lines[i].codes = codes
    <3> HIDE DEF i
    <3> QED BY <2>1 DEF ListsOnly
  <2> QED
    BY <1>1, <2>2 DEF Seen
<1>2. CASE ~ Has(lines, "ROOMS")
  BY <1>2 DEF Seen
<1> QED
  BY <1>1, <1>2

\* After lines whose only lists are of one kind, that is the list seen last.
LEMMA SeenIsListed ==
  ASSUME NEW before, NEW lines, NEW codes, ListsOnly(lines, codes)
  PROVE  ListsOnly(lines, Seen(before, lines))
<1>1. CASE Has(lines, "ROOMS")
  BY <1>1, SeenList
<1>2. CASE ~ Has(lines, "ROOMS")
  BY <1>2 DEF Has, ListsOnly
<1> QED
  BY <1>1, <1>2

\* Lines that assign no role but this.
RolesOnly(lines, role) ==
  \A i \in DOMAIN lines : lines[i].verb = "READY" => lines[i].role = role

LEMMA RolesOnlyWhen ==
  ASSUME NEW condition, NEW line \in Line, NEW role,
         condition /\ line.verb = "READY" => line.role = role
  PROVE  RolesOnly(When(condition, line), role)
<1>1. CASE condition
  BY <1>1 DEF RolesOnly, When
<1>2. CASE ~ condition
  BY <1>2 DEF RolesOnly, When
<1> QED
  BY <1>1, <1>2

LEMMA RolesOnlyConcat ==
  ASSUME NEW s \in Seq(Line), NEW t \in Seq(Line), NEW role,
         RolesOnly(s, role), RolesOnly(t, role)
  PROVE  RolesOnly(s \o t, role)
<1> SUFFICES ASSUME NEW i \in DOMAIN (s \o t), (s \o t)[i].verb = "READY"
             PROVE  (s \o t)[i].role = role
  BY DEF RolesOnly
<1>1. CASE i <= Len(s)
  BY <1>1 DEF RolesOnly
<1>2. CASE ~ i <= Len(s)
  <2>1. i - Len(s) \in DOMAIN t /\ (s \o t)[i] = t[i - Len(s)]
    BY <1>2
  <2> QED
    BY <2>1 DEF RolesOnly
<1> QED
  BY <1>1, <1>2

-----------------------------------------------------------------------------
(* What each handler sends. *)

LEMMA SilenceSends ==
  ASSUME NEW q \in Players, Emit([r \in Players |-> <<>>])
  PROVE  /\ \A verb : ~ Has(sent'[q], verb)
         /\ told'[q] = told[q] /\ seen'[q] = seen[q]
<1>1. sent'[q] = <<>> /\ told'[q] = Told(told[q], <<>>) /\ seen'[q] = Seen(seen[q], <<>>)
  BY DEF Emit
<1>2. \A verb : ~ Has(<<>>, verb)
  BY HasNothing
<1> QED
  BY <1>1, <1>2 DEF Told, Seen

LEMMA AnswerSends ==
  ASSUME NEW p, NEW q \in Players, NEW line \in Line, Answer(p, line)
  PROVE  /\ \A verb : Has(sent'[q], verb) <=> q = p /\ line.verb = verb
         /\ line.verb \in {"ROOMS", "RELAY", "ERROR"} => told'[q] = told[q]
         /\ seen'[q] = IF q = p /\ line.verb = "ROOMS" THEN line.codes ELSE seen[q]
<1>1. /\ sent'[q] = When(q = p, line)
      /\ told'[q] = Told(told[q], When(q = p, line))
      /\ seen'[q] = Seen(seen[q], When(q = p, line))
  BY DEF Answer, Emit
<1>2. \A verb : Has(When(q = p, line), verb) <=> q = p /\ line.verb = verb
  BY HasWhen
<1>3. ListsOnly(When(q = p, line), line.codes)
  BY ListsOnlyWhen
<1>4. seen'[q] = IF Has(When(q = p, line), "ROOMS") THEN line.codes ELSE seen[q]
  BY <1>1, <1>3, SeenList
<1> QED
  BY <1>1, <1>2, <1>4 DEF Told

LEMMA CreateSends ==
  ASSUME TypeOK, NEW p \in Players, HandleCreate(p), NEW q \in Players
  PROVE  /\ Has(sent'[q], "ROOMS") <=> q \in players /\ room'[q] = NoRoom
         /\ Has(sent'[q], "CREATED") <=> q = p
         /\ \A verb : Has(sent'[q], verb) => verb \in {"ROOMS", "CREATED"}
         /\ told'[q] = IF q = p THEN "Hosting" ELSE told[q]
         /\ seen'[q] = IF q \in players /\ room'[q] = NoRoom
                       THEN JoinableCodes(rooms', guest) ELSE seen[q]
         /\ ListsOnly(sent'[q], seen'[q])
<1> DEFINE list == BroadcastRoomList(q, rooms', guest, room')
           answer == When(q = p, Created(nextCode))
<1>1. nextCode \in Codes /\ rooms' \in SUBSET Codes
  BY DEF HandleCreate, TypeOK, Codes
<1>2. /\ sent'[q] = list \o answer
      /\ told'[q] = Told(told[q], list \o answer)
      /\ seen'[q] = Seen(seen[q], list \o answer)
  BY DEF HandleCreate, Emit
<1>3. list \in Seq(Line) /\ answer \in Seq(Line) /\ Created(nextCode) \in Line
  BY <1>1, BroadcastTyped, WhenTyped, LinesTyped
<1>4. \A verb : Has(list, verb) <=> q \in players /\ room'[q] = NoRoom /\ verb = "ROOMS"
  BY <1>1, HasBroadcast
<1>5. \A verb : Has(answer, verb) <=> q = p /\ verb = "CREATED"
  <2>1. Created(nextCode).verb = "CREATED"
    BY VerbOf
  <2> QED
    BY <1>3, <2>1, HasWhen, ZenonT(30)
<1> DEFINE codes == JoinableCodes(rooms', guest)
<1>6. ListsOnly(list, codes)
  <2>1. RoomsLine(codes) \in Line
    BY <1>1, LinesTyped DEF JoinableCodes
  <2> QED
    BY <2>1, ListsOnlyWhen, VerbOf DEF BroadcastRoomList
<1>7. ListsOnly(answer, codes)
  BY <1>3, ListsOnlyWhen, VerbOf
<1> HIDE DEF list, answer, codes
<1>8. \A verb : Has(sent'[q], verb) <=> Has(list, verb) \/ Has(answer, verb)
  BY <1>2, <1>3, HasConcat
<1>9. seen'[q] = IF Has(sent'[q], "ROOMS") THEN codes ELSE seen[q]
  BY <1>2, <1>3, <1>6, <1>7, ListsOnlyConcat, SeenList
<1>10. told'[q] = Told(told[q], sent'[q])
  BY <1>2
<1>11. ListsOnly(sent'[q], seen'[q])
  BY <1>2, <1>3, <1>6, <1>7, ListsOnlyConcat, SeenIsListed
<1> QED
  BY <1>4, <1>5, <1>8, <1>9, <1>10, <1>11 DEF Told, codes

LEMMA JoinSends ==
  ASSUME TypeOK, NEW p \in Players, NEW c \in Codes, JoinRoom(p, c), NEW q \in Players
  PROVE  /\ Has(sent'[q], "ROOMS") <=> q \in players /\ room'[q] = NoRoom
         /\ Has(sent'[q], "READY") <=> q = p \/ (q = host[c] /\ q \in players)
         /\ \A verb : Has(sent'[q], verb) => verb \in {"ROOMS", "READY"}
         /\ told'[q] = IF q = p \/ (q = host[c] /\ q \in players)
                       THEN "Playing" ELSE told[q]
         /\ seen'[q] = IF q \in players /\ room'[q] = NoRoom
                       THEN JoinableCodes(rooms, guest') ELSE seen[q]
         /\ ListsOnly(sent'[q], seen'[q])
         /\ RolesOnly(sent'[q], IF q = p THEN "guest" ELSE "host")
<1> DEFINE list == BroadcastRoomList(q, rooms, guest', room')
           toHost == TellHost(q, p, c)
           toGuest == When(q = p, Ready("guest"))
           codes == JoinableCodes(rooms, guest')
<1>1. rooms \in SUBSET Codes
  BY DEF TypeOK
<1>2. /\ sent'[q] = list \o toHost \o toGuest
      /\ told'[q] = Told(told[q], list \o toHost \o toGuest)
      /\ seen'[q] = Seen(seen[q], list \o toHost \o toGuest)
  BY DEF JoinRoom, Emit
<1>3. list \in Seq(Line) /\ toHost \in Seq(Line) /\ toGuest \in Seq(Line)
      /\ Ready("host") \in Line /\ Ready("guest") \in Line
  BY <1>1, BroadcastTyped, WhenTyped, LinesTyped DEF TellHost
<1>4. \A verb : Has(list, verb) <=> q \in players /\ room'[q] = NoRoom /\ verb = "ROOMS"
  BY <1>1, HasBroadcast
<1>5. \A verb : Has(toHost, verb) <=>
                  q = host[c] /\ q \in players /\ q # p /\ verb = "READY"
  <2>1. Ready("host").verb = "READY"
    BY VerbOf
  <2> QED
    BY <1>3, <2>1, HasWhen DEF TellHost
<1>6. \A verb : Has(toGuest, verb) <=> q = p /\ verb = "READY"
  <2>1. Ready("guest").verb = "READY"
    BY VerbOf
  <2> QED
    BY <1>3, <2>1, HasWhen
<1>7. ListsOnly(list, codes)
  <2>1. RoomsLine(codes) \in Line
    BY <1>1, LinesTyped DEF JoinableCodes
  <2> QED
    BY <2>1, ListsOnlyWhen, VerbOf DEF BroadcastRoomList
<1>8. ListsOnly(toHost, codes) /\ ListsOnly(toGuest, codes)
  BY <1>3, ListsOnlyWhen, VerbOf DEF TellHost
<1> DEFINE role == IF q = p THEN "guest" ELSE "host"
<1>15. RolesOnly(list, role)
  <2>1. RoomsLine(codes) \in Line
    BY <1>1, LinesTyped DEF JoinableCodes
  <2> QED
    BY <2>1, RolesOnlyWhen, VerbOf DEF BroadcastRoomList
<1>16. RolesOnly(toHost, role)
  BY <1>3, RolesOnlyWhen DEF TellHost, Ready
<1>17. RolesOnly(toGuest, role)
  BY <1>3, RolesOnlyWhen DEF Ready
<1> HIDE DEF list, toHost, toGuest, codes, role
<1>9. list \o toHost \in Seq(Line)
  BY <1>3
<1>10. \A verb : Has(sent'[q], verb) <=>
                   Has(list, verb) \/ Has(toHost, verb) \/ Has(toGuest, verb)
  <2>1. \A verb : Has(list \o toHost, verb) <=> Has(list, verb) \/ Has(toHost, verb)
    BY <1>3, HasConcat
  <2>2. \A verb : Has(list \o toHost \o toGuest, verb)
                    <=> Has(list \o toHost, verb) \/ Has(toGuest, verb)
    BY <1>3, <1>9, HasConcat
  <2> QED
    BY <1>2, <2>1, <2>2
<1>11. ListsOnly(list \o toHost, codes)
  BY <1>3, <1>7, <1>8, ListsOnlyConcat
<1>12. ListsOnly(list \o toHost \o toGuest, codes)
  BY <1>3, <1>8, <1>9, <1>11, ListsOnlyConcat
<1>13. seen'[q] = IF Has(sent'[q], "ROOMS") THEN codes ELSE seen[q]
  BY <1>2, <1>12, SeenList
<1>14. told'[q] = Told(told[q], sent'[q])
  BY <1>2
<1>18. ListsOnly(sent'[q], seen'[q])
  BY <1>2, <1>12, SeenIsListed
<1>19. RolesOnly(sent'[q], role)
  <2>1. RolesOnly(list \o toHost, role)
    BY <1>3, <1>15, <1>16, RolesOnlyConcat
  <2>2. RolesOnly(list \o toHost \o toGuest, role)
    BY <1>3, <1>9, <1>17, <2>1, RolesOnlyConcat
  <2> QED
    BY <1>2, <2>2
<1> QED
  BY <1>4, <1>5, <1>6, <1>10, <1>13, <1>14, <1>18, <1>19 DEF Told, codes, role

LEMMA CleanupSends ==
  ASSUME TypeOK, NEW p \in Players, Cleanup(p), NEW q \in Players
  PROVE  LET listed == room[p] \in rooms /\ q \in players
                         /\ LeaveRoom(Peer(p))[q] = NoRoom
         IN
         /\ Has(sent'[q], "PEER_LEFT") <=> q = Peer(p)
         /\ q = Peer(p) => sent'[q] # <<>> /\ Head(sent'[q]) = PeerLeft
         /\ \A verb : Has(sent'[q], verb) => verb \in {"ROOMS", "PEER_LEFT"}
         /\ told'[q] = IF q = Peer(p) THEN "Lobby" ELSE told[q]
         /\ seen'[q] = IF listed THEN JoinableCodes(rooms \ {room[p]}, guest) ELSE seen[q]
         /\ ListsOnly(sent'[q], seen'[q])
<1> DEFINE seats == LeaveRoom(Peer(p))
           farewell == When(q = Peer(p), PeerLeft)
           list == IF room[p] \in rooms
                   THEN BroadcastRoomList(q, Delete(room[p]), guest, seats) ELSE <<>>
           codes == JoinableCodes(rooms \ {room[p]}, guest)
           listed == room[p] \in rooms /\ q \in players /\ seats[q] = NoRoom
<1>1. Delete(room[p]) \in SUBSET Codes /\ Delete(room[p]) = rooms \ {room[p]}
  BY DEF TypeOK, Delete
<1>2. /\ sent'[q] = farewell \o list
      /\ told'[q] = Told(told[q], farewell \o list)
      /\ seen'[q] = Seen(seen[q], farewell \o list)
  BY DEF Cleanup, Emit, Partings
<1>3. farewell \in Seq(Line) /\ list \in Seq(Line) /\ PeerLeft \in Line
  BY <1>1, BroadcastTyped, WhenTyped, LinesTyped
<1>4. \A verb : Has(list, verb) <=> listed /\ verb = "ROOMS"
  <2>1. CASE room[p] \in rooms
    BY <1>1, <2>1, HasBroadcast
  <2>2. CASE room[p] \notin rooms
    BY <2>2, HasNothing
  <2> QED
    BY <2>1, <2>2
<1>5. \A verb : Has(farewell, verb) <=> q = Peer(p) /\ verb = "PEER_LEFT"
  BY <1>3, HasWhen, VerbOf
<1>6. ListsOnly(list, codes)
  <2>1. CASE room[p] \in rooms
    <3>1. RoomsLine(codes) \in Line
      BY <1>1, LinesTyped DEF JoinableCodes
    <3> QED
      BY <1>1, <2>1, <3>1, ListsOnlyWhen, VerbOf DEF BroadcastRoomList
  <2>2. CASE room[p] \notin rooms
    BY <2>2 DEF ListsOnly
  <2> QED
    BY <2>1, <2>2
<1>7. ListsOnly(farewell, codes)
  BY <1>3, ListsOnlyWhen, VerbOf
<1>8. q = Peer(p) => farewell = <<PeerLeft>>
  BY DEF When
<1> HIDE DEF list, farewell, codes, listed, seats
<1>9. \A verb : Has(sent'[q], verb) <=> Has(farewell, verb) \/ Has(list, verb)
  BY <1>2, <1>3, HasConcat
<1>10. seen'[q] = IF Has(sent'[q], "ROOMS") THEN codes ELSE seen[q]
  BY <1>2, <1>3, <1>6, <1>7, ListsOnlyConcat, SeenList
<1>11. told'[q] = Told(told[q], sent'[q])
  BY <1>2
<1>12. q = Peer(p) => sent'[q] # <<>> /\ Head(sent'[q]) = PeerLeft
  <2>1. ASSUME NEW s \in Seq(Line)
        PROVE  <<PeerLeft>> \o s # <<>> /\ Head(<<PeerLeft>> \o s) = PeerLeft
    BY <1>3
  <2> QED
    BY <1>2, <1>3, <1>8, <2>1
<1>13. ListsOnly(sent'[q], seen'[q])
  BY <1>2, <1>3, <1>6, <1>7, ListsOnlyConcat, SeenIsListed
<1> QED
  BY <1>4, <1>5, <1>9, <1>10, <1>11, <1>12, <1>13 DEF Told, codes, listed, seats

-----------------------------------------------------------------------------
(* What the clients know. *)

\* Nobody writes to a connection that is not there yet.
Newcomers ==
  \A p \in Players : conn[p] = "unused" => told[p] = "Lobby" /\ seen[p] = NoList

\* Only a client that enters a room from inside one joins its own.
HostIsNotGuest ==
  \A c \in rooms : host[c] = guest[c] => host[c] \in strays

\* A client that keeps to one room knows when its room has been joined.
MatchedIsTold ==
  \A p \in players \ strays :
    room[p] # NoRoom /\ guest[room[p]] # NoPlayer => told[p] = "Playing"

\* A client that keeps to one room knows when it is in none.
OutsidersAreTold ==
  \A p \in players \ strays : room[p] = NoRoom => told[p] = "Lobby"

\* Where the registries have p.
Place(p) ==
  IF room[p] = NoRoom THEN "Lobby"
  ELSE IF guest[room[p]] = NoPlayer THEN "Hosting" ELSE "Playing"

\* Everybody knows its place, as long as nobody enters a room from inside one.
PlacesAreTold == strays = {} => \A p \in players : told[p] = Place(p)

\* Inductive with IInv.  ToldTruth alone is not: that a joined room has a live
\* peer in it rests on RoomsDieWithOccupants and HostIsNotGuest.
KInv ==
  /\ IInv
  /\ Newcomers
  /\ HostIsNotGuest
  /\ MatchedIsTold
  /\ OutsidersAreTold
  /\ PlacesAreTold
  /\ SeenIsCurrent
  /\ RelayFollowsReady

LEMMA InitKInv == Init => KInv
<1> SUFFICES ASSUME Init PROVE KInv
  OBVIOUS
<1>1. IInv
  BY InitIInv
<1> QED
  BY <1>1 DEF Init, KInv, Newcomers, HostIsNotGuest, MatchedIsTold, OutsidersAreTold,
              PlacesAreTold, SeenIsCurrent, RelayFollowsReady, Has

\* A step that leaves the registries and the players' knowledge alone.
LEMMA QuietKInv ==
  ASSUME KInv, IInv', UNCHANGED <<serverVars, strays>>, RelayFollowsReady',
         \A q \in Players : told'[q] = told[q]
           /\ seen'[q] \in {seen[q], JoinableCodes(rooms, guest)},
         \A q \in Players : conn[q] = "unused" => seen'[q] = seen[q]
  PROVE  KInv'
<1> USE DEF KInv, IInv, TypeOK, serverVars
<1>1. Newcomers'
  BY DEF Newcomers
<1>2. HostIsNotGuest' /\ MatchedIsTold' /\ OutsidersAreTold' /\ PlacesAreTold'
  BY DEF HostIsNotGuest, MatchedIsTold, OutsidersAreTold, PlacesAreTold, Place
<1>3. JoinableCodes(rooms, guest)' = JoinableCodes(rooms, guest)
  BY DEF JoinableCodes
<1>4. SeenIsCurrent'
  BY <1>3 DEF SeenIsCurrent
<1> QED
  BY <1>1, <1>2, <1>4

\* The peer of a client that kept to one room is its match.
LEMMA PeerIsMatched ==
  ASSUME IInv, NEW p \in Players, Peer(p) # NoPlayer, Peer(p) \notin strays
  PROVE  /\ Peer(p) \in players
         /\ room[Peer(p)] = room[p]
         /\ room[p] \in rooms
         /\ guest[room[p]] # NoPlayer
<1> USE LobbyAssumption DEF IInv
<1>1. /\ room[p] \in Codes /\ Peer(p) \in players /\ Peer(p) # p
      /\ Peer(p) \in {host[room[p]], guest[room[p]]}
  BY PeerFacts
<1>2. p \in players /\ room[p] \in rooms /\ p \in {host[room[p]], guest[room[p]]}
  BY <1>1 DEF SeatIsReal, NoRoom, Codes
<1>3. room[Peer(p)] = room[p]
  BY <1>1, <1>2 DEF OneSeat
<1>4. guest[room[p]] \in {p, Peer(p)}
  BY <1>1, <1>2
<1> QED
  BY <1>1, <1>2, <1>3, <1>4 DEF TypeOK

LEMMA AnswerKInv ==
  ASSUME KInv, IInv', NEW p \in Players, NEW line \in Line, conn[p] = "Open",
         Answer(p, line), UNCHANGED <<serverVars, strays>>,
         \/ line.verb = "ERROR"
         \/ line = RoomsLine(JoinableCodes(rooms, guest))
  PROVE  KInv'
<1>1. line.verb \in {"ROOMS", "ERROR"}
      /\ (line.verb = "ROOMS" => line.codes = JoinableCodes(rooms, guest))
  BY VerbOf
<1>2. \A q \in Players : told'[q] = told[q] /\ ~ Has(sent'[q], "RELAY")
  <2> TAKE q \in Players
  <2>1. told'[q] = told[q]
    BY <1>1, AnswerSends, SMTT(60)
  <2>2. \A verb : Has(sent'[q], verb) <=> q = p /\ line.verb = verb
    BY AnswerSends
  <2> QED
    BY <1>1, <2>1, <2>2
<1>3. \A q \in Players : seen'[q] = IF q = p /\ line.verb = "ROOMS" THEN line.codes ELSE seen[q]
  BY AnswerSends
<1>4. RelayFollowsReady'
  BY <1>2 DEF RelayFollowsReady
<1> QED
  BY <1>1, <1>2, <1>3, <1>4, QuietKInv

LEMMA RelayKInv ==
  ASSUME KInv, IInv', NEW p \in Players, NEW body \in Bodies, HandleRelay(p, body)
  PROVE  KInv'
<1>1. CASE Peer(p) = NoPlayer
  <2>1. Error("not_in_room") \in Line /\ Error("not_in_room").verb = "ERROR"
    BY LinesTyped, VerbOf DEF Reasons
  <2> QED
    BY <1>1, <2>1, AnswerKInv DEF HandleRelay
<1>2. CASE Peer(p) # NoPlayer
  <2>1. Relayed(body) \in Line /\ Relayed(body).verb = "RELAY"
    BY LinesTyped, VerbOf
  <2>2. Answer(Peer(p), Relayed(body)) /\ UNCHANGED <<serverVars, strays>>
    BY <1>2 DEF HandleRelay
  <2>3. \A q \in Players : /\ told'[q] = told[q] /\ seen'[q] = seen[q]
                           /\ Has(sent'[q], "RELAY") => q = Peer(p)
    BY <2>1, <2>2, AnswerSends
  <2>4. Peer(p) \notin strays => told[Peer(p)] = "Playing"
    BY <1>2, PeerIsMatched DEF KInv, MatchedIsTold, IInv, SeatIsReal, NoRoom, TypeOK, Codes
  <2>5. RelayFollowsReady'
    BY <2>2, <2>3, <2>4 DEF RelayFollowsReady
  <2> QED
    BY <2>2, <2>3, <2>5, QuietKInv
<1> QED
  BY <1>1, <1>2

LEMMA AcceptKInv ==
  ASSUME KInv, IInv', NEW p \in Players, Accept(p)
  PROVE  KInv'
<1> USE DEF KInv, IInv, TypeOK
<1>1. \A q \in Players : /\ told'[q] = told[q] /\ seen'[q] = seen[q]
                         /\ ~ Has(sent'[q], "RELAY")
  BY SilenceSends DEF Accept
<1>2. /\ conn[p] = "unused" /\ conn' = [conn EXCEPT ![p] = "Handshake"]
      /\ players' = players \union {p}
      /\ UNCHANGED <<rooms, nextCode, host, guest, room, strays>>
  BY DEF Accept
<1>3. Newcomers' /\ HostIsNotGuest' /\ RelayFollowsReady'
  BY <1>1, <1>2 DEF Newcomers, HostIsNotGuest, RelayFollowsReady
<1>4. room[p] = NoRoom /\ told[p] = "Lobby" /\ seen[p] = NoList
  BY <1>2 DEF SeatIsReal, Newcomers
<1>5. MatchedIsTold' /\ OutsidersAreTold' /\ PlacesAreTold'
  BY <1>1, <1>2, <1>4 DEF MatchedIsTold, OutsidersAreTold, PlacesAreTold, Place
<1>6. JoinableCodes(rooms, guest)' = JoinableCodes(rooms, guest)
  BY <1>2 DEF JoinableCodes, OccupantsConnected
<1>7. SeenIsCurrent'
  BY <1>1, <1>2, <1>4, <1>6 DEF SeenIsCurrent
<1> QED
  BY <1>3, <1>5, <1>7

LEMMA UpgradeKInv ==
  ASSUME KInv, IInv', NEW p \in Players, Upgrade(p)
  PROVE  KInv'
<1> USE DEF KInv, IInv, TypeOK
<1>1. \A q \in Players : /\ told'[q] = told[q] /\ seen'[q] = seen[q]
                         /\ ~ Has(sent'[q], "RELAY")
  BY SilenceSends DEF Upgrade
<1>2. /\ conn[p] = "Handshake" /\ conn' = [conn EXCEPT ![p] = "Open"]
      /\ UNCHANGED <<players, rooms, nextCode, host, guest, room, strays>>
  BY DEF Upgrade
<1>3. Newcomers' /\ HostIsNotGuest' /\ RelayFollowsReady'
  BY <1>1, <1>2 DEF Newcomers, HostIsNotGuest, RelayFollowsReady
<1>4. MatchedIsTold' /\ OutsidersAreTold' /\ PlacesAreTold'
  BY <1>1, <1>2 DEF MatchedIsTold, OutsidersAreTold, PlacesAreTold, Place
<1>5. JoinableCodes(rooms, guest)' = JoinableCodes(rooms, guest)
  BY <1>2 DEF JoinableCodes
<1>6. SeenIsCurrent'
  BY <1>1, <1>2, <1>5 DEF SeenIsCurrent
<1> QED
  BY <1>3, <1>4, <1>6

LEMMA CreateKInv ==
  ASSUME KInv, IInv', NEW p \in Players, HandleCreate(p)
  PROVE  KInv'
<1> DEFINE told1(q) == told'[q] = IF q = p THEN "Hosting" ELSE told[q]
           seen1(q) == seen'[q] = IF q \in players /\ room'[q] = NoRoom
                                  THEN JoinableCodes(rooms', guest) ELSE seen[q]
<1>1. \A q \in Players : told1(q) /\ seen1(q) /\ ~ Has(sent'[q], "RELAY")
  <2> TAKE q \in Players
  <2>1. told1(q) /\ seen1(q)
    BY CreateSends DEF KInv, IInv
  <2>2. \A verb : Has(sent'[q], verb) => verb \in {"ROOMS", "CREATED"}
    BY CreateSends DEF KInv, IInv
  <2> QED
    BY <2>1, <2>2
<1> USE LobbyAssumption DEF KInv, IInv, TypeOK
<1>2. /\ conn[p] = "Open" /\ p \in players /\ nextCode \in Codes
      /\ rooms' = rooms \union {nextCode}
      /\ host' = [host EXCEPT ![nextCode] = p]
      /\ room' = [room EXCEPT ![p] = nextCode]
      /\ Enter(p)
      /\ UNCHANGED <<conn, players, guest>>
  BY DEF HandleCreate, Codes
<1>3. nextCode \notin rooms /\ guest[nextCode] = NoPlayer
  BY <1>2 DEF FreshCodes
<1>4. Newcomers'
  BY <1>1, <1>2 DEF Newcomers
<1>5. HostIsNotGuest'
  BY <1>2, <1>3 DEF HostIsNotGuest, Enter
<1>6. RelayFollowsReady'
  BY <1>1 DEF RelayFollowsReady
<1>7. MatchedIsTold'
  BY <1>1, <1>2, <1>3 DEF MatchedIsTold, Enter
<1>11. OutsidersAreTold'
  BY <1>1, <1>2 DEF OutsidersAreTold, Enter, NoRoom, Codes
<1>8. PlacesAreTold'
  <2> SUFFICES ASSUME strays' = {}, NEW q \in players
               PROVE  told'[q] = Place(q)'
    BY <1>2 DEF PlacesAreTold
  <2>1. CASE q = p
    BY <1>1, <1>2, <1>3, <2>1 DEF Place, NoRoom, Codes
  <2>2. CASE q # p
    BY <1>1, <1>2, <2>2 DEF PlacesAreTold, Place, Enter
  <2> QED
    BY <2>1, <2>2
<1>9. JoinableCodes(rooms, guest)' = JoinableCodes(rooms', guest)
  BY <1>2 DEF JoinableCodes
<1>10. SeenIsCurrent'
  BY <1>1, <1>2, <1>9 DEF SeenIsCurrent
<1> QED
  BY <1>4, <1>5, <1>6, <1>7, <1>8, <1>10, <1>11

LEMMA JoinKInv ==
  ASSUME KInv, IInv', NEW p \in Players, NEW c \in Codes, JoinRoom(p, c)
  PROVE  KInv'
<1> DEFINE told1(q) == told'[q] = IF q = p \/ (q = host[c] /\ q \in players)
                                  THEN "Playing" ELSE told[q]
           seen1(q) == seen'[q] = IF q \in players /\ room'[q] = NoRoom
                                  THEN JoinableCodes(rooms, guest') ELSE seen[q]
<1>1. \A q \in Players : told1(q) /\ seen1(q) /\ ~ Has(sent'[q], "RELAY")
  <2> TAKE q \in Players
  <2>1. told1(q) /\ seen1(q)
    BY JoinSends DEF KInv, IInv
  <2>2. \A verb : Has(sent'[q], verb) => verb \in {"ROOMS", "READY"}
    BY JoinSends DEF KInv, IInv
  <2> QED
    BY <2>1, <2>2
<1> USE LobbyAssumption DEF KInv, IInv, TypeOK
<1>2. /\ conn[p] = "Open" /\ p \in players
      /\ c \in rooms /\ guest[c] \notin players
      /\ guest' = [guest EXCEPT ![c] = p]
      /\ room' = [room EXCEPT ![p] = c]
      /\ Enter(p)
      /\ UNCHANGED <<conn, players, rooms, host>>
  BY DEF JoinRoom, Joinable
<1>3. Newcomers'
  BY <1>1, <1>2 DEF Newcomers
<1>4. HostIsNotGuest'
  <2> SUFFICES ASSUME NEW d \in rooms, host[d] = guest'[d]
               PROVE  host[d] \in strays'
    BY <1>2 DEF HostIsNotGuest
  <2>1. CASE d = c
    BY <1>2, <2>1 DEF OneSeat, Enter, NoRoom, Codes
  <2>2. CASE d # c
    BY <1>2, <2>2 DEF HostIsNotGuest, Enter
  <2> QED
    BY <2>1, <2>2
<1>5. RelayFollowsReady'
  BY <1>1 DEF RelayFollowsReady
\* The occupants of the room that is joined are its host and p.
<1>6. ASSUME NEW q \in Players, q # p, room[q] = c
      PROVE  q = host[c] /\ q \in players
  BY <1>2, <1>6 DEF SeatIsReal, NoRoom, Codes
<1>7. MatchedIsTold'
  <2> SUFFICES ASSUME NEW q \in players \ strays', room'[q] # NoRoom,
                      guest'[room'[q]] # NoPlayer
               PROVE  told'[q] = "Playing"
    BY <1>2 DEF MatchedIsTold
  <2>1. CASE q = p \/ room[q] = c
    BY <1>1, <1>6, <2>1
  <2>2. CASE q # p /\ room[q] # c
    <3>1. room[q] \in Codes
      BY <1>2, <2>2 DEF NoRoom
    <3>2. room'[q] = room[q] /\ guest'[room[q]] = guest[room[q]]
      BY <1>2, <2>2, <3>1
    <3>3. told[q] = "Playing"
      BY <1>2, <3>2 DEF MatchedIsTold, Enter
    <3> QED
      BY <1>1, <3>3
  <2> QED
    BY <2>1, <2>2
<1>11. OutsidersAreTold'
  <2> SUFFICES ASSUME NEW q \in players \ strays', room'[q] = NoRoom
               PROVE  told'[q] = "Lobby"
    BY <1>2 DEF OutsidersAreTold
  <2>1. q # p /\ room[q] = NoRoom /\ q \notin strays
    BY <1>2 DEF Enter, NoRoom, Codes
  <2>2. q # host[c]
    BY <1>2, <2>1 DEF OneSeat, NoRoom, Codes
  <2> QED
    BY <1>1, <2>1, <2>2 DEF OutsidersAreTold
<1>8. PlacesAreTold'
  <2> SUFFICES ASSUME strays' = {}, NEW q \in players
               PROVE  told'[q] = Place(q)'
    BY <1>2 DEF PlacesAreTold
  <2>1. strays = {}
    BY DEF Enter, JoinRoom
  <2>2. CASE q = p
    BY <1>1, <1>2, <2>2 DEF Place, NoRoom, Codes
  <2>3. CASE q # p /\ room[q] = c
    BY <1>1, <1>2, <1>6, <2>3 DEF Place, NoRoom, Codes
  <2>4. CASE q # p /\ room[q] # c
    <3>1. q # host[c]
      BY <1>2, <2>1, <2>4 DEF OneSeat
    <3>2. told'[q] = told[q] /\ told[q] = Place(q)
      BY <1>1, <2>1, <2>4, <3>1 DEF PlacesAreTold
    <3>3. room[q] # NoRoom => room[q] \in Codes
      OBVIOUS
    <3> QED
      BY <1>2, <2>4, <3>2, <3>3 DEF Place
  <2> QED
    BY <2>2, <2>3, <2>4
<1>9. JoinableCodes(rooms, guest)' = JoinableCodes(rooms, guest')
  BY <1>2 DEF JoinableCodes
<1>10. SeenIsCurrent'
  BY <1>1, <1>2, <1>9 DEF SeenIsCurrent
<1> QED
  BY <1>3, <1>4, <1>5, <1>7, <1>8, <1>10, <1>11

LEMMA CleanupKInv ==
  ASSUME KInv, IInv', NEW p \in Players, Cleanup(p)
  PROVE  KInv'
<1> DEFINE told1(q) == told'[q] = IF q = Peer(p) THEN "Lobby" ELSE told[q]
           listed(q) == room[p] \in rooms /\ q \in players /\ LeaveRoom(Peer(p))[q] = NoRoom
           seen1(q) == seen'[q] = IF listed(q) THEN JoinableCodes(rooms \ {room[p]}, guest)
                                  ELSE seen[q]
<1>1. \A q \in Players : told1(q) /\ seen1(q) /\ ~ Has(sent'[q], "RELAY")
  <2> TAKE q \in Players
  <2>1. told1(q) /\ seen1(q)
    BY CleanupSends DEF KInv, IInv
  <2>2. \A verb : Has(sent'[q], verb) => verb \in {"ROOMS", "PEER_LEFT"}
    BY CleanupSends DEF KInv, IInv
  <2> QED
    BY <2>1, <2>2
<1> USE LobbyAssumption DEF KInv, IInv, TypeOK
<1>2. /\ p \in players
      /\ conn' = [conn EXCEPT ![p] = "closed"]
      /\ players' = players \ {p}
      /\ rooms' = rooms \ {room[p]}
      /\ UNCHANGED <<nextCode, host, guest, strays>>
  BY DEF Cleanup, Unregister, Delete
<1>3. room' = [q \in Players |-> IF q = p \/ q = Peer(p) THEN NoRoom ELSE room[q]]
  BY DEF Cleanup, LeaveRoom
<1>4. Peer(p) # NoPlayer => Peer(p) \in players
  BY PeerFacts
<1>5. Newcomers'
  <2> SUFFICES ASSUME NEW q \in Players, conn'[q] = "unused"
               PROVE  told'[q] = "Lobby" /\ seen'[q] = NoList
    BY DEF Newcomers
  <2>1. conn[q] = "unused" /\ q \notin players /\ q # p
    BY <1>2
  <2>2. q # Peer(p)
    BY <1>4, <2>1
  <2> QED
    BY <1>1, <2>1, <2>2 DEF Newcomers
<1>6. HostIsNotGuest'
  BY <1>2 DEF HostIsNotGuest
<1>7. RelayFollowsReady'
  BY <1>1 DEF RelayFollowsReady
<1>8. MatchedIsTold'
  BY <1>1, <1>2, <1>3 DEF MatchedIsTold
<1>11. OutsidersAreTold'
  BY <1>1, <1>2, <1>3 DEF OutsidersAreTold
<1>9. PlacesAreTold'
  BY <1>1, <1>2, <1>3 DEF PlacesAreTold, Place
<1>10. SeenIsCurrent'
  <2> SUFFICES ASSUME strays = {}, NEW q \in players, q # p, room'[q] = NoRoom
               PROVE  seen'[q] \in {NoList, JoinableCodes(rooms, guest)'}
    BY <1>2 DEF SeenIsCurrent
  <2>1. JoinableCodes(rooms, guest)' = JoinableCodes(rooms \ {room[p]}, guest)
    <3>1. \A c \in rooms \ {room[p]} : guest[c] # p
      BY <1>2 DEF OneSeat
    <3> QED
      BY <1>2, <3>1 DEF JoinableCodes
  <2>2. CASE room[p] \in rooms
    BY <1>1, <1>3, <2>1, <2>2 DEF LeaveRoom
  <2>3. CASE room[p] \notin rooms
    <3>1. room[p] = NoRoom
      BY <2>3 DEF SeatIsReal
    <3>2. Peer(p) = NoPlayer /\ rooms \ {room[p]} = rooms
      BY <2>3, <3>1 DEF Peer
    <3> QED
      BY <1>1, <1>3, <2>1, <2>3, <3>2 DEF SeenIsCurrent
  <2> QED
    BY <2>2, <2>3
<1> QED
  BY <1>5, <1>6, <1>7, <1>8, <1>9, <1>10, <1>11

LEMMA StepKInv ==
  ASSUME KInv, [Next]_vars
  PROVE  KInv'
<1>1. IInv'
  BY StepIInv DEF KInv
<1>2. CASE UNCHANGED vars
  <2>1. RelayFollowsReady'
    BY <1>2 DEF KInv, RelayFollowsReady, Has, vars
  <2> QED
    BY <1>1, <1>2, <2>1, QuietKInv DEF vars
<1>3. ASSUME NEW p \in Players, HandleList(p)
      PROVE  KInv'
  <2>1. RoomsLine(JoinableCodes(rooms, guest)) \in Line
    BY LinesTyped DEF KInv, IInv, TypeOK, JoinableCodes
  <2> QED
    BY <1>1, <1>3, <2>1, AnswerKInv DEF HandleList
<1>4. ASSUME NEW p \in Players, UnknownVerb(p)
      PROVE  KInv'
  <2>1. Error("unknown_verb") \in Line /\ Error("unknown_verb").verb = "ERROR"
    BY LinesTyped, VerbOf DEF Reasons
  <2> QED
    BY <1>1, <1>4, <2>1, AnswerKInv DEF UnknownVerb
<1>5. ASSUME NEW p \in Players, NEW c, JoinFails(p, c)
      PROVE  KInv'
  <2>1. Error("join_failed") \in Line /\ Error("join_failed").verb = "ERROR"
    BY LinesTyped, VerbOf DEF Reasons
  <2> QED
    BY <1>1, <1>5, <2>1, AnswerKInv DEF JoinFails
<1> QED
  BY <1>1, <1>2, <1>3, <1>4, <1>5, AcceptKInv, UpgradeKInv, CreateKInv, JoinKInv,
     RelayKInv, CleanupKInv DEF Next

LEMMA KnowledgeInvariance == Spec => []KInv
<1>1. KInv /\ [Next]_vars => KInv'
  BY StepKInv
<1> QED
  BY <1>1, InitKInv, PTL DEF Spec

\* What a client's place amounts to, from the room's two entries.
LEMMA PlaceOfPeer ==
  ASSUME KInv, strays = {}, NEW p \in players, room[p] # NoRoom
  PROVE  Peer(p) = NoPlayer <=> guest[room[p]] = NoPlayer
<1> USE LobbyAssumption DEF KInv, IInv, TypeOK
<1> DEFINE c == room[p]
<1>1. c \in rooms /\ p \in {host[c], guest[c]}
  BY DEF SeatIsReal
<1>2. CASE guest[c] = NoPlayer
  BY <1>1, <1>2 DEF Peer, OtherPlayer
<1>3. CASE guest[c] # NoPlayer
  <2>1. host[c] \in players /\ guest[c] \in players
    BY <1>1, <1>3 DEF RoomsDieWithOccupants, RoomsWereHosted
  <2>2. host[c] # guest[c]
    BY <1>1 DEF HostIsNotGuest
  <2> QED
    BY <1>1, <1>3, <2>1, <2>2 DEF Peer, OtherPlayer
<1> QED
  BY <1>2, <1>3

\* While no client has entered a room from inside one, the lines sent to a
\* client amount to its place in the registries.
THEOREM ClientsKnowTheirPlace == Spec => []ToldTruth
<1>1. KInv => ToldTruth
  BY PlaceOfPeer DEF KInv, PlacesAreTold, Place, ToldTruth
<1> QED
  BY <1>1, KnowledgeInvariance, PTL

\* While no client has entered a room from inside one, the last list sent to a
\* client in the lobby is the list of now.
THEOREM ListsAreCurrent == Spec => []SeenIsCurrent
<1>1. KInv => SeenIsCurrent
  BY DEF KInv
<1> QED
  BY <1>1, KnowledgeInvariance, PTL

\* A RELAY reaches a client that keeps to one room only between READY and
\* PEER_LEFT, whatever the others do.
THEOREM RelaysReachTheReady == Spec => []RelayFollowsReady
<1>1. KInv => RelayFollowsReady
  BY DEF KInv
<1> QED
  BY <1>1, KnowledgeInvariance, PTL

-----------------------------------------------------------------------------
(* Who is put out of a room is told. *)

\* EvictedIsTold, of one step.
PartingsAreTold ==
  \A p \in players' :
    /\ room[p] # NoRoom /\ room'[p] = NoRoom
         => sent'[p] # <<>> /\ Head(sent'[p]) = PeerLeft
    /\ p \notin strays /\ Has(sent'[p], "PEER_LEFT")
         => room[p] # NoRoom /\ room'[p] = NoRoom

LEMMA KeptRoomsStep ==
  ASSUME IInv', UNCHANGED room, \A q \in Players : ~ Has(sent'[q], "PEER_LEFT")
  PROVE  PartingsAreTold
BY DEF PartingsAreTold, IInv, TypeOK

LEMMA AnswerTellsNoParting ==
  ASSUME NEW p, NEW line \in Line, Answer(p, line), line.verb # "PEER_LEFT"
  PROVE  \A q \in Players : ~ Has(sent'[q], "PEER_LEFT")
<1> TAKE q \in Players
<1>1. Has(sent'[q], "PEER_LEFT") <=> q = p /\ line.verb = "PEER_LEFT"
  BY AnswerSends, ZenonT(60)
<1> QED
  BY <1>1

LEMMA CleanupTells ==
  ASSUME IInv, IInv', NEW p \in Players, Cleanup(p)
  PROVE  PartingsAreTold
<1> SUFFICES ASSUME NEW q \in players'
             PROVE  /\ room[q] # NoRoom /\ room'[q] = NoRoom
                         => sent'[q] # <<>> /\ Head(sent'[q]) = PeerLeft
                    /\ q \notin strays /\ Has(sent'[q], "PEER_LEFT")
                         => room[q] # NoRoom /\ room'[q] = NoRoom
  BY DEF PartingsAreTold
<1>1. q \in players /\ q \in Players /\ q # p
  BY DEF Cleanup, Unregister, IInv, TypeOK
<1>2. /\ Has(sent'[q], "PEER_LEFT") <=> q = Peer(p)
      /\ q = Peer(p) => sent'[q] # <<>> /\ Head(sent'[q]) = PeerLeft
  BY <1>1, CleanupSends DEF IInv
<1>3. room'[q] = IF q = Peer(p) THEN NoRoom ELSE room[q]
  BY <1>1 DEF Cleanup, LeaveRoom, IInv, TypeOK
<1>4. q = Peer(p) /\ q \notin strays => room[q] # NoRoom
  <2> SUFFICES ASSUME q = Peer(p), q \notin strays PROVE room[q] # NoRoom
    OBVIOUS
  <2>1. room[q] \in rooms
    BY <1>1, PeerIsMatched, LobbyAssumption
  <2> QED
    BY <2>1 DEF IInv, TypeOK, NoRoom, Codes
<1> QED
  BY <1>2, <1>3, <1>4

LEMMA PartingsStep ==
  ASSUME IInv, Next
  PROVE  PartingsAreTold
<1>1. IInv'
  BY StepIInv
<1>2. ASSUME NEW p \in Players, Accept(p) \/ Upgrade(p)
      PROVE  PartingsAreTold
  <2>1. \A q \in Players : ~ Has(sent'[q], "PEER_LEFT")
    BY <1>2, SilenceSends DEF Accept, Upgrade
  <2> QED
    BY <1>1, <1>2, <2>1, KeptRoomsStep DEF Accept, Upgrade
<1>3. ASSUME NEW p \in Players, HandleList(p)
      PROVE  PartingsAreTold
  <2>1. RoomsLine(JoinableCodes(rooms, guest)) \in Line
    BY LinesTyped DEF IInv, TypeOK, JoinableCodes
  <2>2. RoomsLine(JoinableCodes(rooms, guest)).verb # "PEER_LEFT"
    BY VerbOf
  <2> QED
    BY <1>1, <1>3, <2>1, <2>2, AnswerTellsNoParting, KeptRoomsStep
    DEF HandleList, serverVars
<1>4. ASSUME NEW p, NEW reason \in Reasons, Answer(p, Error(reason)), UNCHANGED room
      PROVE  PartingsAreTold
  <2>1. Error(reason) \in Line /\ Error(reason).verb # "PEER_LEFT"
    BY LinesTyped, VerbOf
  <2> QED
    BY <1>1, <1>4, <2>1, AnswerTellsNoParting, KeptRoomsStep
<1>5. ASSUME NEW p, NEW body \in Bodies, Answer(p, Relayed(body)), UNCHANGED room
      PROVE  PartingsAreTold
  <2>1. Relayed(body) \in Line /\ Relayed(body).verb # "PEER_LEFT"
    BY LinesTyped, VerbOf
  <2> QED
    BY <1>1, <1>5, <2>1, AnswerTellsNoParting, KeptRoomsStep
<1>6. ASSUME NEW p \in Players, NEW c, JoinFails(p, c)
      PROVE  PartingsAreTold
  BY <1>4, <1>6 DEF JoinFails, Reasons, serverVars
<1>7. ASSUME NEW p \in Players, UnknownVerb(p)
      PROVE  PartingsAreTold
  BY <1>4, <1>7 DEF UnknownVerb, Reasons, serverVars
<1>8. ASSUME NEW p \in Players, NEW body \in Bodies, HandleRelay(p, body)
      PROVE  PartingsAreTold
  BY <1>4, <1>5, <1>8 DEF HandleRelay, Reasons, serverVars
<1>9. ASSUME NEW p \in Players, HandleCreate(p)
      PROVE  PartingsAreTold
  <2>1. \A q \in Players : ~ Has(sent'[q], "PEER_LEFT")
    <3> TAKE q \in Players
    <3>1. \A verb : Has(sent'[q], verb) => verb \in {"ROOMS", "CREATED"}
      BY <1>9, CreateSends DEF IInv
    <3> QED
      BY <3>1
  <2>2. \A q \in Players : room'[q] = room[q] \/ room'[q] # NoRoom
    BY <1>9 DEF HandleCreate, IInv, TypeOK, NoRoom
  <2>3. players' \subseteq Players
    BY <1>1 DEF IInv, TypeOK
  <2> QED
    BY <2>1, <2>2, <2>3 DEF PartingsAreTold
<1>10. ASSUME NEW p \in Players, NEW c \in Codes, JoinRoom(p, c)
       PROVE  PartingsAreTold
  <2>1. \A q \in Players : ~ Has(sent'[q], "PEER_LEFT")
    <3> TAKE q \in Players
    <3>1. \A verb : Has(sent'[q], verb) => verb \in {"ROOMS", "READY"}
      BY <1>10, JoinSends DEF IInv
    <3> QED
      BY <3>1
  <2>2. \A q \in Players : room'[q] = room[q] \/ room'[q] # NoRoom
    BY <1>10 DEF JoinRoom, IInv, TypeOK, NoRoom, Codes
  <2>3. players' \subseteq Players
    BY <1>1 DEF IInv, TypeOK
  <2> QED
    BY <2>1, <2>2, <2>3 DEF PartingsAreTold
<1> QED
  BY <1>1, <1>2, <1>3, <1>6, <1>7, <1>8, <1>9, <1>10, CleanupTells DEF Next

\* Nobody is put out of its room without hearing PEER_LEFT before any list, and
\* a client that keeps to one room hears PEER_LEFT only then.
THEOREM EvictionsAreTold == Spec => EvictedIsTold
<1>1. IInv /\ [Next]_vars => [PartingsAreTold]_vars
  BY PartingsStep
<1>2. Spec => [][PartingsAreTold]_vars
  BY <1>1, Invariance, PTL DEF Spec
<1> QED
  BY <1>2 DEF EvictedIsTold, PartingsAreTold

-----------------------------------------------------------------------------
(* The lobby implements Matchmaking. *)

SeatsOf(c) == {q \in Players : room[q] = c}
Receivers  == {q \in Players : Has(sent[q], "RELAY")}

\* The handlers that change the registries relay nothing.
LEMMA RelayAloneRelays ==
  ASSUME TypeOK, NEW p \in Players,
         HandleCreate(p) \/ Cleanup(p) \/ \E c \in Codes : JoinRoom(p, c)
  PROVE  \A q \in Players : ~ Has(sent'[q], "RELAY")
<1> TAKE q \in Players
<1>1. CASE HandleCreate(p)
  <2>1. \A verb : Has(sent'[q], verb) => verb \in {"ROOMS", "CREATED"}
    BY <1>1, CreateSends
  <2> QED
    BY <2>1
<1>2. CASE Cleanup(p)
  <2>1. \A verb : Has(sent'[q], verb) => verb \in {"ROOMS", "PEER_LEFT"}
    BY <1>2, CleanupSends
  <2> QED
    BY <2>1
<1>3. ASSUME NEW c \in Codes, JoinRoom(p, c)
      PROVE  ~ Has(sent'[q], "RELAY")
  <2>1. \A verb : Has(sent'[q], verb) => verb \in {"ROOMS", "READY"}
    BY <1>3, JoinSends
  <2> QED
    BY <2>1
<1> QED
  BY <1>1, <1>2, <1>3

LEMMA SeatedMeans ==
  ASSUME TypeOK, NEW p \in Players
  PROVE  Lobby!Seated(p) <=> room[p] # NoRoom
BY DEF Lobby!Seated, TypeOK, NoRoom, Codes

LEMMA CreateOpensRoom ==
  ASSUME KInv, KInv', strays' = {}, NEW p \in Players, HandleCreate(p),
         NEW c, c = nextCode
  PROVE  c \in Codes /\ Lobby!OpenRoom(p, c)
<1> USE DEF KInv, IInv, TypeOK
<1>1. /\ conn[p] = "Open" /\ p \in players /\ nextCode \in Codes
      /\ nextCode' = nextCode + 1
      /\ room' = [room EXCEPT ![p] = nextCode]
      /\ room[p] = NoRoom
  BY DEF HandleCreate, Codes, Enter
<1>2. ~ Lobby!Seated(p)
  BY <1>1, SeatedMeans
<1>3. nextCode \notin 1 .. nextCode - 1
      /\ 1 .. nextCode' - 1 = (1 .. nextCode - 1) \union {nextCode}
  BY <1>1 DEF Codes
<1>4. SeatsOf(nextCode) = {}
  BY <1>1 DEF SeatsOf, SeatIsReal, FreshCodes, NoRoom, Codes
<1>5. \A d \in Codes : SeatsOf(d)' = IF d = c THEN {p} ELSE SeatsOf(d)
  BY <1>1, <1>4 DEF SeatsOf, NoRoom, Codes
<1>6. Receivers' = {}
  BY RelayAloneRelays DEF Receivers
<1>7. [d \in Codes |-> SeatsOf(d)]' = [[d \in Codes |-> SeatsOf(d)] EXCEPT ![c] = {p}]
  BY <1>5
<1> QED
  BY <1>1, <1>2, <1>3, <1>6, <1>7 DEF Lobby!OpenRoom, SeatsOf, Receivers

LEMMA JoinMatches ==
  ASSUME KInv, KInv', strays' = {}, NEW p \in Players, NEW c \in Codes, JoinRoom(p, c),
         NEW h, h = host[c]
  PROVE  h \in Players /\ Lobby!Match(h, p, c)
<1> USE LobbyAssumption DEF KInv, IInv, TypeOK
<1>1. /\ conn[p] = "Open" /\ p \in players
      /\ c \in rooms /\ guest[c] \notin players
      /\ room' = [room EXCEPT ![p] = c]
      /\ room[p] = NoRoom /\ strays = {}
      /\ UNCHANGED nextCode
  BY DEF JoinRoom, Joinable, Enter
<1>2. ~ Lobby!Seated(p)
  BY <1>1, SeatedMeans
<1>3. h \in players /\ room[h] = c
  <2>1. h \in Players /\ h \in {host[c], guest[c]} \ strays
    BY <1>1 DEF RoomsWereHosted
  <2>2. h \in players
    BY <1>1, <2>1 DEF RoomsDieWithOccupants
  <2> QED
    BY <1>1, <2>1, <2>2 DEF OneSeat
<1>4. SeatsOf(c) = {h}
  <2>1. \A q \in Players : room[q] = c => q \in players /\ q \in {host[c], guest[c]}
    BY <1>1 DEF SeatIsReal, NoRoom, Codes
  <2> QED
    BY <1>1, <1>3, <2>1 DEF SeatsOf
<1>5. \A d \in Codes : SeatsOf(d)' = IF d = c THEN {h, p} ELSE SeatsOf(d)
  BY <1>1, <1>4 DEF SeatsOf, NoRoom, Codes
<1>6. Receivers' = {}
  BY RelayAloneRelays DEF Receivers
<1>7. [d \in Codes |-> SeatsOf(d)]' = [[d \in Codes |-> SeatsOf(d)] EXCEPT ![c] = {h, p}]
  BY <1>5
<1> QED
  BY <1>1, <1>2, <1>3, <1>4, <1>6, <1>7 DEF Lobby!Match, SeatsOf, Receivers

\* Nothing but the receivers of a RELAY shows in Matchmaking.
LEMMA SilentStep ==
  ASSUME UNCHANGED <<nextCode, room>>, \A q \in Players : ~ Has(sent'[q], "RELAY")
  PROVE  Lobby!Quiet
BY DEF Lobby!Quiet

LEMMA AnswerIsQuiet ==
  ASSUME NEW p, NEW line \in Line, Answer(p, line), line.verb # "RELAY",
         UNCHANGED <<nextCode, room>>
  PROVE  Lobby!Quiet
<1>1. ASSUME NEW q \in Players
      PROVE  ~ Has(sent'[q], "RELAY")
  <2>1. Has(sent'[q], "RELAY") <=> q = p /\ line.verb = "RELAY"
    BY AnswerSends, ZenonT(60)
  <2> QED
    BY <2>1
<1> QED
  BY <1>1, SilentStep

LEMMA CleanupDissolves ==
  ASSUME KInv, KInv', strays' = {}, NEW p \in Players, Cleanup(p),
         NEW c, c = room[p]
  PROVE  Lobby!Quiet \/ (c \in Codes /\ Lobby!Dissolve(c))
<1> USE LobbyAssumption DEF KInv, IInv, TypeOK
<1>1. p \in players /\ strays = {} /\ UNCHANGED nextCode
  BY DEF Cleanup
<1>2. room' = [q \in Players |-> IF q = p \/ q = Peer(p) THEN NoRoom ELSE room[q]]
  BY DEF Cleanup, LeaveRoom
<1>3. \A q \in Players : ~ Has(sent'[q], "RELAY")
  BY RelayAloneRelays
<1>4. CASE room[p] = NoRoom
  <2>1. Peer(p) = NoPlayer
    BY <1>4 DEF Peer
  <2>2. room' = room
    BY <1>2, <1>4, <2>1
  <2> QED
    BY <1>1, <1>3, <2>2, SilentStep
<1>5. CASE room[p] # NoRoom
  <2>1. c \in Codes /\ p \in SeatsOf(c)
    BY <1>5 DEF SeatsOf
  <2>2. \A q \in Players : room[q] = c => room'[q] = NoRoom
    BY <1>1, <1>2, <1>5, CleanupPutsOutAll
  <2>3. \A q \in Players : room[q] # c => room'[q] = room[q]
    BY <1>1, <1>2, PeerIsMatched
  <2>4. \A d \in Codes : SeatsOf(d)' = IF d = c THEN {} ELSE SeatsOf(d)
    BY <2>1, <2>2, <2>3 DEF SeatsOf, NoRoom, Codes
  <2>5. [d \in Codes |-> SeatsOf(d)]' = [[d \in Codes |-> SeatsOf(d)] EXCEPT ![c] = {}]
    BY <2>4, ZenonT(30)
  <2>6. Receivers' = {}
    BY <1>3 DEF Receivers
  <2> QED
    BY <1>1, <2>1, <2>5, <2>6 DEF Lobby!Dissolve, SeatsOf, Receivers
<1> QED
  BY <1>4, <1>5

LEMMA RelayReachesTheMatch ==
  ASSUME KInv, KInv', strays' = {}, NEW p \in Players, NEW body \in Bodies,
         HandleRelay(p, body), NEW q, q = Peer(p)
  PROVE  Lobby!Quiet \/ (q \in Players /\ Lobby!Relay(p, q))
<1> USE LobbyAssumption DEF KInv, IInv, TypeOK
<1>1. UNCHANGED <<nextCode, room>> /\ strays = {}
  BY DEF HandleRelay, serverVars
<1>2. CASE Peer(p) = NoPlayer
  <2>1. Error("not_in_room") \in Line /\ Error("not_in_room").verb = "ERROR"
    BY LinesTyped, VerbOf DEF Reasons
  <2> QED
    BY <1>1, <1>2, <2>1, AnswerIsQuiet DEF HandleRelay
<1>3. CASE Peer(p) # NoPlayer
  <2> PICK c : c = room[p]
    OBVIOUS
  <2>1. q \in players /\ q # p /\ c \in rooms /\ c \in Codes /\ room[q] = c
    BY <1>1, <1>3, PeerFacts, PeerIsMatched
  <2>2. p \in {host[c], guest[c]} /\ q \in {host[c], guest[c]}
    BY <2>1 DEF SeatIsReal, NoRoom, Codes
  <2>3. SeatsOf(c) = {p, q}
    BY <2>1, <2>2 DEF SeatsOf, SeatIsReal, NoRoom, Codes
  <2>4. Receivers' = {q}
    <3>1. Relayed(body) \in Line /\ Relayed(body).verb = "RELAY"
      BY LinesTyped, VerbOf
    <3>2. Answer(q, Relayed(body))
      BY <1>3 DEF HandleRelay
    <3>3. ASSUME NEW r \in Players
          PROVE  Has(sent'[r], "RELAY") <=> r = q
      BY <3>1, <3>2, AnswerSends
    <3> QED
      BY <2>1, <3>3 DEF Receivers
  <2>5. [d \in Codes |-> {r \in Players : room[r] = d}][c] = {p, q}
    BY <2>1, <2>3 DEF SeatsOf
  <2>6. {r \in Players : Has(sent[r], "RELAY")}' = {q}
    BY <2>4 DEF Receivers
  <2>7. Lobby!Relay(p, q)
    <3>1. \E d \in Codes : [e \in Codes |-> {r \in Players : room[r] = e}][d] = {p, q}
      BY <2>1, <2>5
    <3>2. UNCHANGED <<1 .. nextCode - 1, [d \in Codes |-> {r \in Players : room[r] = d}]>>
      BY <1>1
    <3> QED
      BY <2>1, <2>6, <3>1, <3>2 DEF Lobby!Relay
  <2> QED
    BY <2>1, <2>7
<1> QED
  BY <1>2, <1>3

LEMMA MatchmakingStep ==
  ASSUME KInv, [Next]_vars, strays' = {}
  PROVE  [Lobby!Next]_(Lobby!vars)
<1> SUFFICES ASSUME Next PROVE Lobby!Next
  BY DEF vars, serverVars, Lobby!vars
<1>1. KInv'
  BY StepKInv
<1>2. ASSUME NEW p \in Players, Accept(p) \/ Upgrade(p)
      PROVE  Lobby!Quiet
  <2>1. \A q \in Players : ~ Has(sent'[q], "RELAY")
    BY <1>2, SilenceSends DEF Accept, Upgrade
  <2> QED
    BY <1>2, <2>1, SilentStep DEF Accept, Upgrade
<1>3. ASSUME NEW p \in Players, HandleList(p)
      PROVE  Lobby!Quiet
  <2>1. RoomsLine(JoinableCodes(rooms, guest)) \in Line
    BY LinesTyped DEF KInv, IInv, TypeOK, JoinableCodes
  <2>2. RoomsLine(JoinableCodes(rooms, guest)).verb # "RELAY"
    BY VerbOf
  <2> QED
    BY <1>3, <2>1, <2>2, AnswerIsQuiet DEF HandleList, serverVars
<1>4. ASSUME NEW p, NEW reason \in Reasons, Answer(p, Error(reason)),
             UNCHANGED <<nextCode, room>>
      PROVE  Lobby!Quiet
  <2>1. Error(reason) \in Line /\ Error(reason).verb # "RELAY"
    BY LinesTyped, VerbOf
  <2> QED
    BY <1>4, <2>1, AnswerIsQuiet
<1>5. ASSUME NEW p \in Players, NEW c, JoinFails(p, c)
      PROVE  Lobby!Quiet
  BY <1>4, <1>5 DEF JoinFails, Reasons, serverVars
<1>6. ASSUME NEW p \in Players, UnknownVerb(p)
      PROVE  Lobby!Quiet
  BY <1>4, <1>6 DEF UnknownVerb, Reasons, serverVars
<1>7. ASSUME NEW p \in Players, HandleCreate(p)
      PROVE  Lobby!Next
  <2> PICK c : c = nextCode
    OBVIOUS
  <2>1. c \in Codes /\ Lobby!OpenRoom(p, c)
    BY <1>1, <1>7, CreateOpensRoom
  <2> QED
    BY <2>1 DEF Lobby!Next
<1>8. ASSUME NEW p \in Players, NEW c \in Codes, JoinRoom(p, c)
      PROVE  Lobby!Next
  <2> PICK h : h = host[c]
    OBVIOUS
  <2>1. h \in Players /\ Lobby!Match(h, p, c)
    BY <1>1, <1>8, JoinMatches
  <2> QED
    BY <2>1 DEF Lobby!Next
<1>9. ASSUME NEW p \in Players, Cleanup(p)
      PROVE  Lobby!Next
  <2> PICK c : c = room[p]
    OBVIOUS
  <2>1. Lobby!Quiet \/ (c \in Codes /\ Lobby!Dissolve(c))
    BY <1>1, <1>9, CleanupDissolves
  <2> QED
    BY <2>1 DEF Lobby!Next
<1>10. ASSUME NEW p \in Players, NEW body \in Bodies, HandleRelay(p, body)
       PROVE  Lobby!Next
  <2> PICK q : q = Peer(p)
    OBVIOUS
  <2>1. Lobby!Quiet \/ (q \in Players /\ Lobby!Relay(p, q))
    BY <1>1, <1>10, RelayReachesTheMatch
  <2> QED
    BY <2>1 DEF Lobby!Next
<1> QED
  BY <1>2, <1>3, <1>5, <1>6, <1>7, <1>8, <1>9, <1>10 DEF Next, Lobby!Next

LEMMA MatchmakingInit == Init => Lobby!Init
BY LobbyAssumption DEF Init, Lobby!Init, Has, NoRoom, Codes

\* As long as no client enters a room from inside one, every handler is a step
\* of Matchmaking: one room per player, host then guest, an end for both when
\* either goes, no code twice, RELAY to the matched player only.
THEOREM ImplementsMatchmaking == Spec => MatchesPlayers
<1>1. KInv /\ [Next]_vars => [strays' = {} => [Lobby!Next]_(Lobby!vars)]_vars
  BY MatchmakingStep
<1>2. Spec => [][strays' = {} => [Lobby!Next]_(Lobby!vars)]_vars
  BY <1>1, KnowledgeInvariance, PTL DEF Spec
<1>3. Spec => Lobby!Init
  BY MatchmakingInit DEF Spec
<1> QED
  BY <1>2, <1>3 DEF MatchesPlayers

-----------------------------------------------------------------------------
(* What the lines of a handler mean to a client that acts on them. *)

PlaceVerbs == {"CREATED", "READY", "PEER_LEFT"}

\* The role of a client that is in a room.
Role(p) == IF host[room[p]] = p THEN "host" ELSE "guest"

\* What a step's lines to q say is what they are sent for: at most one thing of
\* q's place; the list of now, if any; to a client that keeps to one room,
\* CREATED only in the lobby; the role q has, which is kept until q is told its
\* place again; and nothing but lists before the upgrade.
LinesMean(q) ==
  /\ sent'[q] \in Seq(Line)
  /\ \A u, v \in PlaceVerbs : Has(sent'[q], u) /\ Has(sent'[q], v) => u = v
  /\ Has(sent'[q], "READY") => told'[q] = "Playing"
  /\ Has(sent'[q], "CREATED") => told'[q] = "Hosting"
  /\ Has(sent'[q], "PEER_LEFT") => told'[q] = "Lobby"
  /\ (\A v \in PlaceVerbs : ~ Has(sent'[q], v)) => told'[q] = told[q]
  /\ ListsOnly(sent'[q], seen'[q])
  /\ ~ Has(sent'[q], "ROOMS") => seen'[q] = seen[q]
  /\ Has(sent'[q], "CREATED") => Len(sent'[q]) = 1 /\ (q \notin strays' => told[q] = "Lobby")
  /\ strays \subseteq strays'
  /\ strays' = {} => RolesOnly(sent'[q], Role(q)')
  /\ strays' = {} /\ q \in players' /\ told'[q] = "Playing" /\ ~ Has(sent'[q], "READY")
       => Role(q)' = Role(q)
  /\ conn[q] # "Open" => \A v : Has(sent'[q], v) => v = "ROOMS"

\* A handler that answers at most one client, and moves nobody.
LEMMA QuietMeans ==
  ASSUME KInv, KInv', NEW q \in Players, UNCHANGED <<rooms, host, room, strays>>,
         told'[q] = told[q],
         \A verb \in PlaceVerbs : ~ Has(sent'[q], verb),
         ListsOnly(sent'[q], seen'[q]), ~ Has(sent'[q], "ROOMS") => seen'[q] = seen[q],
         conn[q] # "Open" => \A v : Has(sent'[q], v) => v = "ROOMS"
  PROVE  LinesMean(q)
<1>1. sent'[q] \in Seq(Line)
  BY DEF KInv, IInv, TypeOK
<1>2. Role(q)' = Role(q)
  BY DEF Role
<1>3. \A role : RolesOnly(sent'[q], role)
  BY DEF RolesOnly, Has, PlaceVerbs
<1>4. ~ Has(sent'[q], "READY") /\ ~ Has(sent'[q], "CREATED") /\ ~ Has(sent'[q], "PEER_LEFT")
  BY DEF PlaceVerbs
<1> QED
  BY <1>1, <1>2, <1>3, <1>4 DEF LinesMean

LEMMA AnswerMeans ==
  ASSUME KInv, KInv', NEW p \in Players, NEW q \in Players, NEW line \in Line,
         Answer(p, line), UNCHANGED <<serverVars, strays>>, conn[p] = "Open",
         line.verb \in {"ROOMS", "RELAY", "ERROR"}
  PROVE  LinesMean(q)
<1>1. \A verb : Has(sent'[q], verb) <=> q = p /\ line.verb = verb
  BY AnswerSends
<1>2. told'[q] = told[q]
  BY AnswerSends
<1>3. seen'[q] = IF q = p /\ line.verb = "ROOMS" THEN line.codes ELSE seen[q]
  BY AnswerSends
<1>4. ListsOnly(sent'[q], seen'[q])
  <2>1. sent'[q] = When(q = p, line)
    BY DEF Answer, Emit
  <2>2. ListsOnly(When(q = p, line), line.codes)
    BY ListsOnlyWhen
  <2> QED
    BY <1>1, <1>3, <2>1, <2>2 DEF ListsOnly, Has
<1>5. \A verb \in PlaceVerbs : ~ Has(sent'[q], verb)
  BY <1>1 DEF PlaceVerbs
<1>6. ~ Has(sent'[q], "ROOMS") => seen'[q] = seen[q]
  BY <1>1, <1>3
<1>7. conn[q] # "Open" => \A v : Has(sent'[q], v) => v = "ROOMS"
  BY <1>1
<1> QED
  BY <1>2, <1>4, <1>5, <1>6, <1>7, QuietMeans DEF serverVars

LEMMA RelayMeans ==
  ASSUME KInv, KInv', NEW p \in Players, NEW q \in Players, NEW body \in Bodies,
         HandleRelay(p, body)
  PROVE  LinesMean(q)
<1>1. conn[p] = "Open" /\ UNCHANGED <<serverVars, strays>>
  BY DEF HandleRelay
<1>2. CASE Peer(p) = NoPlayer
  <2>1. Error("not_in_room") \in Line /\ Error("not_in_room").verb = "ERROR"
    BY LinesTyped, VerbOf DEF Reasons
  <2>2. Answer(p, Error("not_in_room"))
    BY <1>2 DEF HandleRelay
  <2> QED
    BY <1>1, <2>1, <2>2, AnswerMeans
<1>3. CASE Peer(p) # NoPlayer
  <2>1. Relayed(body) \in Line /\ Relayed(body).verb = "RELAY"
    BY LinesTyped, VerbOf
  <2>2. Answer(Peer(p), Relayed(body))
    BY <1>3 DEF HandleRelay
  <2>3. /\ room[p] \in Codes /\ Peer(p) \in players
        /\ Peer(p) \in {host[room[p]], guest[room[p]]}
    BY <1>3, PeerFacts DEF KInv, IInv
  <2>4. Peer(p) \in Players /\ conn[Peer(p)] = "Open"
    BY <2>3 DEF KInv, IInv, OccupantsConnected, TypeOK
  <2> QED
    BY <1>1, <2>1, <2>2, <2>4, AnswerMeans
<1> QED
  BY <1>2, <1>3

LEMMA SilenceMeans ==
  ASSUME KInv, KInv', NEW q \in Players, Emit([r \in Players |-> <<>>]),
         UNCHANGED <<rooms, host, room, strays>>
  PROVE  LinesMean(q)
<1>1. \A verb : ~ Has(sent'[q], verb)
  BY SilenceSends
<1>2. told'[q] = told[q] /\ seen'[q] = seen[q]
  BY SilenceSends
<1>3. ListsOnly(sent'[q], seen'[q])
  BY <1>1 DEF ListsOnly, Has
<1> QED
  BY <1>1, <1>2, <1>3, QuietMeans

LEMMA CreateMeans ==
  ASSUME KInv, KInv', NEW p \in Players, NEW q \in Players, HandleCreate(p)
  PROVE  LinesMean(q)
<1> USE LobbyAssumption DEF KInv, IInv
<1>1. /\ Has(sent'[q], "CREATED") <=> q = p
      /\ \A verb : Has(sent'[q], verb) => verb \in {"ROOMS", "CREATED"}
      /\ told'[q] = IF q = p THEN "Hosting" ELSE told[q]
      /\ ListsOnly(sent'[q], seen'[q])
      /\ Has(sent'[q], "ROOMS") <=> q \in players /\ room'[q] = NoRoom
      /\ seen'[q] = IF q \in players /\ room'[q] = NoRoom
                    THEN JoinableCodes(rooms', guest) ELSE seen[q]
  BY CreateSends
<1>2. ~ Has(sent'[q], "READY") /\ ~ Has(sent'[q], "PEER_LEFT")
  BY <1>1
<1>3. \A role : RolesOnly(sent'[q], role)
  BY <1>2 DEF RolesOnly, Has
<1>4. sent'[q] \in Seq(Line)
  BY DEF TypeOK
<1>5. /\ conn[p] = "Open" /\ p \in players /\ nextCode \in Codes
      /\ host' = [host EXCEPT ![nextCode] = p]
      /\ room' = [room EXCEPT ![p] = nextCode]
      /\ Enter(p) /\ players' = players
  BY DEF HandleCreate, Codes, TypeOK
<1>6. Has(sent'[q], "CREATED") /\ q \notin strays' => told[q] = "Lobby"
  BY <1>1, <1>5 DEF OutsidersAreTold, Enter
<1>10. Has(sent'[q], "CREATED") => Len(sent'[q]) = 1
  <2> SUFFICES ASSUME q = p
               PROVE  Len(sent'[p]) = 1
    BY <1>1
  <2>1. room'[p] # NoRoom
    BY <1>5 DEF NoRoom, Codes, TypeOK
  <2>2. sent'[p] = <<>> \o <<Created(nextCode)>>
    BY <2>1 DEF HandleCreate, Emit, BroadcastRoomList, When
  <2> QED
    BY <2>2
<1>7. strays \subseteq strays'
  BY <1>5 DEF Enter
<1>8. ASSUME strays' = {}, q \in players', told'[q] = "Playing"
      PROVE  Role(q)' = Role(q)
  <2>1. q # p /\ told[q] = "Playing"
    BY <1>1, <1>8
  <2>2. room[q] # NoRoom
    BY <1>5, <1>7, <1>8, <2>1 DEF PlacesAreTold, Place
  <2>3. room[q] \in rooms /\ nextCode \notin rooms /\ room[q] \in Codes
    BY <1>5, <2>2 DEF SeatIsReal, FreshCodes, TypeOK
  <2> QED
    BY <1>5, <2>1, <2>3 DEF Role, TypeOK
<1>9. conn[q] # "Open" => \A v : Has(sent'[q], v) => v = "ROOMS"
  BY <1>1, <1>5
<1> HIDE DEF KInv, IInv
<1> QED
  BY <1>1, <1>2, <1>3, <1>4, <1>6, <1>7, <1>8, <1>9, <1>10 DEF LinesMean, PlaceVerbs

LEMMA JoinMeans ==
  ASSUME KInv, KInv', NEW p \in Players, NEW c \in Codes, NEW q \in Players,
         JoinRoom(p, c)
  PROVE  LinesMean(q)
<1> USE LobbyAssumption DEF KInv, IInv
<1>1. /\ Has(sent'[q], "READY") <=> q = p \/ (q = host[c] /\ q \in players)
      /\ \A verb : Has(sent'[q], verb) => verb \in {"ROOMS", "READY"}
      /\ told'[q] = IF q = p \/ (q = host[c] /\ q \in players)
                    THEN "Playing" ELSE told[q]
      /\ ListsOnly(sent'[q], seen'[q])
      /\ RolesOnly(sent'[q], IF q = p THEN "guest" ELSE "host")
      /\ Has(sent'[q], "ROOMS") <=> q \in players /\ room'[q] = NoRoom
      /\ seen'[q] = IF q \in players /\ room'[q] = NoRoom
                    THEN JoinableCodes(rooms, guest') ELSE seen[q]
  BY JoinSends
<1>2. ~ Has(sent'[q], "CREATED") /\ ~ Has(sent'[q], "PEER_LEFT")
  BY <1>1
<1>4. sent'[q] \in Seq(Line)
  BY DEF TypeOK
<1>5. /\ conn[p] = "Open" /\ p \in players /\ c \in rooms
      /\ host' = host
      /\ room' = [room EXCEPT ![p] = c]
      /\ Enter(p) /\ players' = players
  BY DEF JoinRoom, Joinable, TypeOK
<1>6. /\ strays \subseteq strays'
      /\ strays' = {} => strays = {} /\ room[p] = NoRoom
  BY <1>5 DEF Enter
<1>7. ASSUME strays' = {}
      PROVE  RolesOnly(sent'[q], Role(q)')
  <2>1. CASE q = p
    <3>1. host[c] # p
      BY <1>5, <1>6, <1>7 DEF OneSeat, NoRoom, Codes
    <3>2. Role(q)' = "guest"
      BY <1>5, <2>1, <3>1 DEF Role, TypeOK
    <3> QED
      BY <1>1, <2>1, <3>2
  <2>2. CASE q # p /\ q = host[c] /\ q \in players
    <3>1. room[q] = c
      BY <1>5, <1>6, <1>7, <2>2 DEF OneSeat
    <3>2. Role(q)' = "host"
      BY <1>5, <2>2, <3>1 DEF Role, TypeOK
    <3> QED
      BY <1>1, <2>2, <3>2
  <2>3. CASE ~ Has(sent'[q], "READY")
    BY <2>3 DEF RolesOnly, Has
  <2> QED
    BY <1>1, <2>1, <2>2, <2>3
<1>8. ASSUME ~ Has(sent'[q], "READY")
      PROVE  Role(q)' = Role(q)
  <2>1. q # p
    BY <1>1, <1>8
  <2> QED
    BY <1>5, <2>1 DEF Role, TypeOK
<1>9. conn[q] # "Open" => \A v : Has(sent'[q], v) => v = "ROOMS"
  <2> SUFFICES ASSUME conn[q] # "Open"
               PROVE  ~ Has(sent'[q], "READY")
    BY <1>1
  <2> QED
    BY <1>1, <1>5 DEF OccupantsConnected, TypeOK
<1> HIDE DEF KInv, IInv
<1> QED
  BY <1>1, <1>2, <1>4, <1>6, <1>7, <1>8, <1>9 DEF LinesMean, PlaceVerbs

LEMMA CleanupMeans ==
  ASSUME KInv, KInv', NEW p \in Players, NEW q \in Players, Cleanup(p)
  PROVE  LinesMean(q)
<1> USE LobbyAssumption DEF KInv, IInv
<1>1. /\ Has(sent'[q], "PEER_LEFT") <=> q = Peer(p)
      /\ \A verb : Has(sent'[q], verb) => verb \in {"ROOMS", "PEER_LEFT"}
      /\ told'[q] = IF q = Peer(p) THEN "Lobby" ELSE told[q]
      /\ ListsOnly(sent'[q], seen'[q])
  BY CleanupSends
<1>2. ~ Has(sent'[q], "READY") /\ ~ Has(sent'[q], "CREATED")
  BY <1>1
<1>3. \A role : RolesOnly(sent'[q], role)
  BY <1>2 DEF RolesOnly, Has
<1>4. sent'[q] \in Seq(Line)
  BY DEF TypeOK
<1>5. seen'[q] = Seen(seen[q], sent'[q])
  BY DEF Cleanup, Emit
<1>6. ~ Has(sent'[q], "ROOMS") => seen'[q] = seen[q]
  BY <1>5 DEF Seen
<1>7. /\ players' = players \ {p} /\ UNCHANGED <<host, strays>>
      /\ room' = [r \in Players |-> IF r = p \/ r = Peer(p) THEN NoRoom ELSE room[r]]
  BY ZenonT(60) DEF Cleanup, LeaveRoom, Unregister, TypeOK
<1>8. ASSUME q \in players', told'[q] = "Playing"
      PROVE  Role(q)' = Role(q)
  <2>1. q # p /\ q # Peer(p)
    BY <1>1, <1>7, <1>8
  <2> QED
    BY <1>7, <2>1 DEF Role, TypeOK
<1>9. conn[q] # "Open" => \A v : Has(sent'[q], v) => v = "ROOMS"
  <2> SUFFICES ASSUME conn[q] # "Open"
               PROVE  q # Peer(p)
    BY <1>1
  <2>1. ASSUME q = Peer(p) PROVE FALSE
    <3>1. Peer(p) # NoPlayer
      BY <2>1
    <3>2. /\ room[p] \in Codes /\ q \in players /\ q \in {host[room[p]], guest[room[p]]}
      BY <2>1, <3>1, PeerFacts
    <3> QED
      BY <3>2 DEF OccupantsConnected, TypeOK
  <2> QED
    BY <2>1
<1> HIDE DEF KInv, IInv
<1> QED
  BY <1>1, <1>2, <1>3, <1>4, <1>6, <1>7, <1>8, <1>9 DEF LinesMean, PlaceVerbs

\* Between the handlers nothing is sent.
LEMMA PauseKInv ==
  ASSUME KInv, UNCHANGED <<serverVars, told, seen, strays>>,
         sent' = [p \in Players |-> <<>>]
  PROVE  KInv'
<1>1. TypeOK'
  BY DEF KInv, IInv, TypeOK, serverVars
<1>2. IInv'
  BY <1>1, QuietIInv DEF KInv
<1>3. RelayFollowsReady'
  BY DEF RelayFollowsReady, Has
<1> QED
  BY <1>2, <1>3, QuietKInv

=============================================================================
