------------------------------ MODULE WebLobby -------------------------------
(***************************************************************************)
(* The pages of the web client (loader.ts, signaling.ts) and the lobby     *)
(* they talk to, composed: each page holds a WebSocket to the server, a    *)
(* FIFO queue in each direction, and the server's handlers are those of    *)
(* Signaling.  What people do is free, within what a page lets them do.    *)
(*                                                                         *)
(* A page is one load of the site and makes one connection, so it is named *)
(* by the Player the server constructs for it.  Its peer connection is     *)
(* Rtc's matter: here it relays whatever it likes while there is one, and  *)
(* what reaches the other page is dropped.                                 *)
(***************************************************************************)
EXTENDS Naturals, Sequences, FiniteSets

CONSTANTS
  Players, NoPlayer, Bodies, MaxCode,   \* those of Signaling
  MaxUnderWay                           \* bound: what is under way when a page asks or relays

ASSUME WebLobbyAssumption ==
  /\ NoPlayer \notin Players
  /\ MaxCode \in Nat
  /\ MaxUnderWay \in Nat \ {0}

VARIABLES
  conn, players, rooms, nextCode, host, guest, room,   \* those of Signaling
  sent, told, seen, strays,
  ws,         \* Signaling.ws: "none" before the page loads, then its readyState
  screen,     \* currentScreen
  enabled,    \* the HOST and JOIN buttons are enabled
  list,       \* the codes of the room list's buttons
  listed,     \* those buttons are enabled
  playing,    \* the role the engine runs in, or "none" when not in_game
  toServer,   \* requests on their way, the end of the stream included
  toClient    \* lines on their way, the 101 included

Server == INSTANCE Signaling

server   == <<conn, players, rooms, nextCode, host, guest, room, told, seen, strays>>
shown    == <<screen, enabled, list, listed, playing>>
channels == <<toServer, toClient>>
vars     == <<server, sent, ws, shown, channels>>

Codes == Server!Codes

-----------------------------------------------------------------------------
(* The connection. *)

Request(verb)  == [verb |-> verb]
JoinRequest(c) == [verb |-> "JOIN", code |-> c]
RelayRequest(b) == [verb |-> "RELAY", body |-> b]
Upgraded       == [verb |-> "101"]
End            == [verb |-> "end"]

\* The browser drops what arrives for a socket that it closes or has closed.
Hears(p) == ws[p] \in {"CONNECTING", "OPEN"}

ToServer(p, items) ==
  toServer' = [toServer EXCEPT ![p] =
                 IF conn[p] = "closed" THEN @ ELSE @ \o items]

\* A step of a page.  No handler of the server runs.
Page == UNCHANGED server /\ sent' = [p \in Players |-> <<>>]

\* The queue to page q after a handler's writes.
Post(q, first) ==
  IF Hears(q) THEN toClient[q] \o first \o sent'[q] ELSE <<>>

-----------------------------------------------------------------------------
(* The server. *)

Accept(p) ==
  /\ ws[p] # "none"
  /\ Server!Accept(p)
  /\ toClient' = [q \in Players |-> Post(q, <<>>)]
  /\ UNCHANGED <<ws, shown, toServer>>

\* The server reads the next thing p sent.
Serve(p) ==
  /\ toServer[p] # <<>>
  /\ LET r == Head(toServer[p]) IN
       \/ r.verb = "GET"    /\ Server!Upgrade(p)
       \/ r.verb = "LIST"   /\ Server!HandleList(p)
       \/ r.verb = "CREATE" /\ Server!HandleCreate(p)
       \/ r.verb = "JOIN"   /\ (Server!JoinRoom(p, r.code) \/ Server!JoinFails(p, r.code))
       \/ r.verb = "RELAY"  /\ Server!HandleRelay(p, r.body)
       \/ r.verb = "end"    /\ Server!Cleanup(p)
  /\ toServer' = [toServer EXCEPT ![p] = Tail(@)]
  /\ toClient' = [q \in Players |->
                    Post(q, IF q = p /\ conn[p] = "Handshake" /\ conn'[p] = "Open"
                            THEN <<Upgraded>> ELSE <<>>)]
  /\ UNCHANGED <<ws, shown>>

\* A variant: the engine goes on.
KeepPlaying(p) == playing[p]

\* What runs after stop_game.
StopGame(p) == "none"

\* CANCEL and the loss of the socket stop the engine only if the game is on the
\* screen.
Stopped(p) == IF screen[p] = "Game" THEN StopGame(p) ELSE playing[p]

\* onClose.  The screen stays, with a banner that says to reload.
Closed(p) ==
  /\ ws' = [ws EXCEPT ![p] = "CLOSED"]
  /\ playing' = [playing EXCEPT ![p] = Stopped(p)]
  /\ UNCHANGED <<screen, enabled, list, listed>>

-----------------------------------------------------------------------------
(* What people do. *)

\* The page loads: init(), showScreen(Menu) and connect().
Load(p) ==
  /\ ws[p] = "none"
  /\ ws' = [ws EXCEPT ![p] = "CONNECTING"]
  /\ ToServer(p, <<Request("GET")>>)
  /\ Page /\ UNCHANGED <<shown, toClient>>

CreatesInFlight ==
  UNION {{<<p, i>> : i \in {j \in DOMAIN toServer[p] : toServer[p][j].verb = "CREATE"}} :
           p \in Players}

UnderWay(p) == Len(toServer[p]) + Len(toClient[p])

\* A person clicks or types on the menu, and the page sends r: Signaling.send,
\* which drops it unless the socket is open.
Ask(p, r) ==
  /\ screen[p] = "Menu" /\ ws[p] = "OPEN"
  /\ UnderWay(p) < MaxUnderWay
  /\ ToServer(p, <<r>>)
  /\ Page /\ UNCHANGED <<ws, screen, list, playing, toClient>>

Disable(p) ==
  /\ enabled' = [enabled EXCEPT ![p] = FALSE]
  /\ listed' = [listed EXCEPT ![p] = FALSE]

ClickHost(p) ==
  /\ enabled[p]
  /\ nextCode + Cardinality(CreatesInFlight) <= MaxCode
  /\ Ask(p, Request("CREATE"))
  /\ Disable(p)

\* The code field takes any number, and Enter in it asks no button.
TypeCode(p, c) == Ask(p, JoinRequest(c)) /\ Disable(p)

\* The buttons of the list disable nothing.
ClickRoom(p, c) ==
  /\ listed[p] /\ c \in list[p]
  /\ Ask(p, JoinRequest(c))
  /\ UNCHANGED <<enabled, listed>>

\* Signaling.close.  A closing handshake starts, and nothing that comes before
\* its end is heard.  A socket that was lost stays as it is.
Close(p) ==
  \/ /\ ws[p] = "OPEN"
     /\ ws' = [ws EXCEPT ![p] = "CLOSING"]
     /\ ToServer(p, <<End>>)
     /\ toClient' = [toClient EXCEPT ![p] = <<>>]
  \/ /\ ws[p] = "CLOSED"
     /\ UNCHANGED <<ws, channels>>

\* CANCEL, on the waiting screen.
Cancel(p) ==
  /\ screen[p] = "Waiting"
  /\ Disable(p)
  /\ playing' = [playing EXCEPT ![p] = Stopped(p)]
  /\ Close(p)
  /\ screen' = [screen EXCEPT ![p] = "Menu"]
  /\ Page /\ UNCHANGED list

\* The peer connection, which there is while the engine runs, has something for
\* the other page: Signaling.relay.
Relay(p, b) ==
  /\ playing[p] # "none" /\ ws[p] = "OPEN"
  /\ \A q \in Players \ {p} : UnderWay(p) + UnderWay(q) < MaxUnderWay
  /\ ToServer(p, <<RelayRequest(b)>>)
  /\ Page /\ UNCHANGED <<ws, shown, toClient>>

\* The tab is closed or the connection is lost: onClose.  What the page has not
\* heard by now it never will; what the server had not read comes before the
\* end.  (Had that been lost too, the server would be as if it was never sent.)
Break(p) ==
  /\ Hears(p) /\ Closed(p)
  /\ ToServer(p, <<End>>)
  /\ toClient' = [toClient EXCEPT ![p] = <<>>]
  /\ Page

-----------------------------------------------------------------------------
(* The page's handlers. *)

\* The next line p hears has this verb.
Hear(p, verb) ==
  /\ Hears(p) /\ toClient[p] # <<>> /\ Head(toClient[p]).verb = verb
  /\ toClient' = [toClient EXCEPT ![p] = Tail(@)]
  /\ Page

\* A variant: the buttons stay as they were.
LeaveDisabled(p) == UNCHANGED <<enabled, listed>>

Enable(p) ==
  /\ enabled' = [enabled EXCEPT ![p] = TRUE]
  /\ listed' = [listed EXCEPT ![p] = TRUE]

\* onOpen.
OnOpen(p) ==
  /\ ws[p] = "CONNECTING" /\ Hear(p, "101")
  /\ ws' = [ws EXCEPT ![p] = "OPEN"]
  /\ Enable(p)
  /\ ToServer(p, <<Request("LIST")>>)
  /\ UNCHANGED <<screen, list, playing>>

\* The closing handshake is over, or the browser waits no longer.
OnClosed(p) ==
  /\ ws[p] = "CLOSING" /\ Closed(p)
  /\ Page /\ UNCHANGED channels

\* A frame before the 101 is no answer to an upgrade: the browser gives up.
UpgradeFails(p) ==
  /\ ws[p] = "CONNECTING" /\ Hear(p, "ROOMS") /\ Closed(p)
  /\ ToServer(p, <<End>>)

\* A variant: the buttons of the last list stay.
RenderMore(p, codes) == IF screen[p] = "Menu" THEN list[p] \union codes ELSE list[p]

\* renderRoomList, called on the menu only.
Render(p, codes) == IF screen[p] = "Menu" THEN codes ELSE list[p]

\* onRooms.  Buttons made anew are enabled.
OnRooms(p) ==
  /\ ws[p] = "OPEN" /\ Hear(p, "ROOMS")
  /\ list' = [list EXCEPT ![p] = Render(p, Head(toClient[p]).codes)]
  /\ listed' = [listed EXCEPT ![p] = @ \/ screen[p] = "Menu"]
  /\ UNCHANGED <<ws, screen, enabled, playing, toServer>>

OnCreated(p) ==
  /\ Hear(p, "CREATED")
  /\ screen' = [screen EXCEPT ![p] = "Waiting"]
  /\ UNCHANGED <<ws, enabled, list, listed, playing, toServer>>

\* onReady: rtc.init(role) and start_game(role).
OnReady(p) ==
  /\ Hear(p, "READY")
  /\ screen' = [screen EXCEPT ![p] = "Game"]
  /\ playing' = [playing EXCEPT ![p] = Head(toClient[p]).role]
  /\ UNCHANGED <<ws, enabled, list, listed, toServer>>

\* onPeerLeft.
OnPeerLeft(p) ==
  /\ Hear(p, "PEER_LEFT")
  /\ playing' = [playing EXCEPT ![p] = StopGame(p)]
  /\ screen' = [screen EXCEPT ![p] = "Menu"]
  /\ Enable(p)
  /\ ToServer(p, <<Request("LIST")>>)
  /\ UNCHANGED <<ws, list>>

\* onRelay: rtc.on_signal alone.
OnRelay(p) ==
  /\ Hear(p, "RELAY")
  /\ UNCHANGED <<ws, shown, toServer>>

\* onError, whatever the reason.
OnError(p) ==
  /\ Hear(p, "ERROR")
  /\ Enable(p)
  /\ UNCHANGED <<ws, screen, list, playing, toServer>>

-----------------------------------------------------------------------------

Init ==
  /\ Server!Init
  /\ ws = [p \in Players |-> "none"]
  /\ screen = [p \in Players |-> "Menu"]
  /\ enabled = [p \in Players |-> FALSE]
  /\ list = [p \in Players |-> {}]
  /\ listed = [p \in Players |-> FALSE]
  /\ playing = [p \in Players |-> "none"]
  /\ toServer = [p \in Players |-> <<>>]
  /\ toClient = [p \in Players |-> <<>>]

Person(p) ==
  \/ Load(p) \/ ClickHost(p) \/ Cancel(p) \/ Break(p)
  \/ \E c \in Codes \union {Server!NoRoom} : TypeCode(p, c)
  \/ \E c \in Codes : ClickRoom(p, c)
  \/ \E b \in Bodies : Relay(p, b)

Handler(p) ==
  \/ OnOpen(p) \/ OnClosed(p) \/ UpgradeFails(p)
  \/ OnRooms(p) \/ OnCreated(p) \/ OnReady(p) \/ OnPeerLeft(p)
  \/ OnRelay(p) \/ OnError(p)

Next == \E p \in Players : Accept(p) \/ Serve(p) \/ Person(p) \/ Handler(p)

\* The server and the browsers keep running.  People owe nothing, nor do their
\* peer connections.  (A step of the server's changes conn or toServer, and one
\* of a page's handlers ws or toClient.)
Spec ==
  /\ Init /\ [][Next]_vars
  /\ \A p \in Players : /\ WF_<<conn, toServer>>(Accept(p) \/ Serve(p))
                        /\ WF_<<ws, toClient>>(Handler(p))

-----------------------------------------------------------------------------
(* Properties. *)

\* The engine of a client that keeps to one room runs while the game is on the
\* screen of an open page, and never behind another screen or without a server:
\* tick "returns early when not in game" (loader.ts).
EngineFollowsScreen ==
  \A p \in Players \ strays :
    playing[p] # "none" <=> screen[p] = "Game" /\ ws[p] = "OPEN"

\* Nothing is under way between the open page p and the server.
Settled(p) == ws[p] = "OPEN" /\ toServer[p] = <<>> /\ toClient[p] = <<>>

\* As long as nobody entered a room from inside one, a page with nothing under
\* way shows its place in the lobby: the menu outside rooms, the waiting screen
\* to a host without a guest, and the game in the role the server has it in.
ScreenIsTrue ==
  strays = {} => \A p \in Players : Settled(p) =>
    LET r == room[p] IN
    CASE r = Server!NoRoom -> screen[p] = "Menu"
      [] r # Server!NoRoom /\ Server!Peer(p) = NoPlayer -> screen[p] = "Waiting"
      [] OTHER -> /\ screen[p] = "Game"
                  /\ playing[p] = IF host[r] = p THEN "host" ELSE "guest"

\* Likewise its menu lists the rooms that can be joined now, also after a game,
\* during which it was sent no lists.
ListIsCurrent ==
  strays = {} => \A p \in Players :
    Settled(p) /\ screen[p] = "Menu" => list[p] = Server!JoinableCodes(rooms, guest)

\* Whatever people do, a menu with nothing under way can be used: the buttons a
\* request disabled are enabled again by every outcome that leaves it there.
MenuIsUsable ==
  \A p \in Players : Settled(p) /\ screen[p] = "Menu" => enabled[p] /\ listed[p]

\* A page is not left in a game alone: when the peer of a client that kept to
\* one room, with one that did, is gone, its game ends.
NobodyPlaysAlone ==
  \A p \in Players :
    (playing[p] # "none" /\ Server!Peer(p) = NoPlayer /\ strays = {})
      ~> (playing[p] = "none" \/ strays # {})

\* A room on the list, "listing currently joinable rooms" (player.h), has a
\* host to play against.
ListedRoomsHaveHosts ==
  \A c \in Server!JoinableCodes(rooms, guest) : host[c] \in players

=============================================================================
