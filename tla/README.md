# pong_pp: a verification project

pong_pp is a two-player Pong for the browser.  A C++ WebSocket server
(`src/src/server`) brings two browsers together in a room and relays their
WebRTC negotiation; the game itself (`src/src/client/main.cpp`, compiled to
WebAssembly) then runs peer to peer over a data channel, the host simulating
the ball.  `src/web/src` holds the TypeScript glue.

This directory holds TLA+ modules that model the server, the pages and both game
engines, TLC configurations that check them, and TLAPS proofs.  Run
`tlc -config X.cfg M` for the runs listed below and `tlapm M.tla` for the proofs.

## The system

| component | state | operations | talks to |
|---|---|---|---|
| Lobby: `Hub`, `Rooms`, `Player` | `players_`, `rooms_`, `next_code_`, `Room::host`/`guest` (weak), `room_` (shared) | LIST, CREATE, JOIN, RELAY, `Cleanup`, the room-list broadcast | called by the connection (message) and by the event loop (accept, disconnect); writes to any connection |
| `ws::Connection`, handshake | `state_`, `in_buf_` | `Read`, `Write`, the upgrade, the frame loop | called by the event loop; calls `Player::OnMessage` |
| Frame codec | none | `ParseFrame`, `EncodeFrame` | called by the connection and by `Player::Send` |
| `Reactor` and `main.cpp` | `handlers_`, descriptors | `Run`, `OnReadable`, `Remove`; accept | the kernel; `Player::Read`, `Player::Cleanup` |
| Game engine, host | ball, paddles, scores | `tick`, `on_peer_message` (P), `start_game` | the data channel, the page |
| Game engine, guest | own paddle, copies of the rest | `tick`, `on_peer_message` (S) | the data channel, the page |
| Web client: screens | `currentScreen`, buttons | handlers of the lobby's lines and of clicks | `Signaling`, `Rtc`, the engine |
| Web client: socket | `ws` | `connect`, `send`, dispatch of lines | the server |
| Web client: `Rtc` | `pc`, `dc` | `init`, `handleSignal`, `close` | the other browser, through RELAY |
| SHA-1, base64 | none | one function each | the handshake |

What makes it hard:

* The server is one thread, so handlers do not interleave, but each of them
  writes to other clients' sockets, and a client may be connected without being
  upgraded, or gone without the server having noticed.
* Rooms and players refer to each other through shared and weak pointers that
  expire at different moments, and a client may CREATE or JOIN while it is in a
  room.  The page can do so too: the buttons of a freshly rendered room list are
  enabled (`loader.ts:71`), and Enter in the code field does not look at the
  button (`loader.ts:276-278`).
* A TCP stream may be cut anywhere; poll reports only what the kernel still holds.
* All sockets are blocking.
* A page acts on clicks, on lines of the server and on the browser's completions,
  in whatever order they come: a click crosses the line that makes it void, and
  `rtc.ts` goes on after an `await` in a world that may have changed.
* The host hears of the guest's paddle whenever a message comes, and the guest
  shows a game that is as old as the last message.

What makes each component correct is stated by the properties below.  The
hazards, each at its line, are in `PROJECT.json`.

## Modules

| module | models |
|---|---|
| `Signaling` | the lobby: one action per handler |
| `Matchmaking` | what the lobby promises, without registries or messages |
| `LobbyProofs` | five theorems about `Signaling`'s registries, four about what clients are told, and that `Signaling` implements `Matchmaking` |
| `Connection` | one connection's buffer, handshake and frame loop |
| `ConnectionProofs` | four theorems about `Connection` |
| `Reactor` | the event loop, accept, descriptors, blocking reads and writes |
| `ReactorProofs` | three theorems about `Reactor` |
| `Frame` | the frame header, byte by byte, both ways |
| `FrameProofs` | three theorems about `Frame` |
| `Pong` | the host's engine along the axis between the goals |
| `PongProofs` | two theorems about `Pong` |
| `WebLobby` | the pages' screens and sockets, composed with `Signaling` |
| `WebLobbyProofs` | four theorems about `WebLobby` |
| `Rtc` | the peer connections of two pages, through one match after another |
| `RtcProofs` | two theorems about `Rtc` |
| `PongSync` | the two engines of a match over the data channel |
| `PongSyncProofs` | three theorems about `PongSync`'s states, three about the numbers in its messages |
| `MC...` | the instances TLC checks |

A definition introduced by "A variant:" is a plausible mistake in the code.  It
is used by nothing: put in the place of the definition that follows, it makes a
property fail, which shows that the property says something about that code.

### Signaling

`players`, `rooms`, `nextCode`, `host`, `guest`, `room` are the C++ fields of
those names.  `room[p]` is the shared pointer `Player::room_`; `host[c]` and
`guest[c]` are weak pointers, which still name a player after it has gone and
are expired exactly when it is not in `players`.  `conn` is the connection's
state, `sent` the lines the last handler wrote to each client, in order.  `told`,
`seen` and `strays` are history: what a client was told, the last list it got,
and who entered a room while in one.  The handlers' order of effects is kept:
the broadcast inside `Rooms::NewRoom`, `Join` and `Delete` sees the registries
and the `room_` fields as they are at that moment, and in `Cleanup` the player
is still registered and seated when the list goes out.

An action is a whole handler because the server has one thread.  It is also a
whole message, however many bytes: `Connection` shows that a message is
dispatched once and in order, and `Reactor` that nothing runs in between.

`Codes` is bounded by `MaxCode` (`next_code_` has 64 bits).  Bodies of RELAY are
opaque.  A failed JOIN has one reason in the code, so a code that cannot be
parsed and one that is unknown are one case (`NoRoom`).  What `OnMessage` does
to find the verb is left out.

### Connection

An item is a request or a frame, in two tokens: the head decides whether a frame
is malformed, the tail completes it.  One read takes any number of the tokens
the kernel holds.  `HandleFrames` is split at its iterations, between which only
the client can act.  A Close frame's payload, masks and contents are left out;
reserved opcodes pass the code's switch without a case and are with "pong".
Whether a request carries a key is all that is left of `FindHeader`.

### Reactor

`table` is the kernel's descriptor table, `handlers` the keys of `handlers_`,
`pass` the part of poll's snapshot that is still to be looked at; as
`handlers_` is an unordered map, the order of the snapshot is open.  `Accept`
takes the lowest free descriptor, as POSIX says.  A handler is `StartRead`,
which blocks on a live socket with nothing to read, some `Write`s, to any set of
connected clients, which block on a full send buffer, and `Finish`, which
destroys the connection when `Read` returned `Err`.  Whom it writes to is the
lobby's matter and left open here.  After `Err` the `Player` has left the hub, but
the handler's own pointer (`main.cpp:90`) keeps it, and with it the connection,
until the handler returns; so a handler's writes all come before a `close`.

### Frame

`ParseFrame` is translated test by test over byte values; the state machine
feeds it one frame, whose every form is possible, in growing prefixes.

### Pong

Positions and velocity of the ball are in fifths of a pixel, in which
`PADDLE_BOOST * 4` is whole; the C++ uses floats, whose rounding is left out.
Each tick moves the host's paddle, then the ball, then tries both paddles, then
the goals, as in the code.  Whether ball and paddle are level is a free choice
at each tick, which allows every behaviour of the vertical axis.  The guest's
message `P x y` may come at any time, any number of times per tick, from a
stride away of the one before; the first, from anywhere.

### WebLobby

A page has a FIFO queue to the server and one from it, its socket's readyState
(`ws`), its screen, what its buttons allow, the list it shows and the role its
engine runs in.  The server is `INSTANCE Signaling`: `Serve` takes the next
request of a page and runs Signaling's handler for it, and what the handler wrote
(`Signaling`'s `sent`) goes to the ends of the queues.  A page is one load of
the site, and so one `Player`.  Everything a person can do there is an action:
load, HOST, any number in the code field (Enter there asks no button), any
button of the list, CANCEL, and closing the tab.  `Disable` and `Enable` are
`setButtonsDisabled`, which reaches the buttons that exist at that moment; those
rendered later are enabled, as in the code.  A frame that comes before the 101
makes the browser give the upgrade up (`UpgradeFails`).  CANCEL also works on a
waiting screen whose socket was lost (`Close` then changes nothing).  While its
engine runs a page may send a RELAY of an opaque body; one that comes after the match is
answered with the ERROR `not_in_room`, which enables the buttons like any other.
What relays contain, and the peers' own channel, is left to `Rtc`.

### Rtc

`pc` and `dc` are the fields of class `Rtc`; a connection object is named by its
page and by the match it was made for, which also stands for what its
descriptions and candidates contain.  `chain` is the browser's queue of
operations of a connection: `await` is the call that appends to it, and the
code behind the `await` is the action that settles it.  What it then does with
`this.pc` it does with whatever is there by then.  A closed connection settles nothing
and fires nothing, as the WebRTC specification has it; its contents are then
forgotten, which keeps the state space small.  The server is that of `Signaling`
for two clients that keep to one room, in three actions; the ERROR with which
it answers a late RELAY concerns the menu's buttons alone and is in `WebLobby`.  A page that goes is
followed by a new one in the same place, once the server has cleaned up.

### PongSync

Messages are sequences of characters, in which a digit is itself: what is sent
goes through `int_to_str` and what arrives through `skip_sep` and `parse_int`,
as in the code, sign and truncation included.  The channel is ordered, may open
at one end before the other or never, and drops what is sent before.  What moves
the ball and the paddles is `Pong`'s matter: places are pairs of x and y, a tick of
the host takes its paddle to any of a few and the ball to any of a few or, with a
goal of either side, to the serve; a tick of the guest takes the guest's paddle to any of a few.  `basis` remembers what the host had when it sent
what the guest shows.  `start_game` sets every variable and `Rtc` shows that a
channel belongs to one match, so one match is enough.

## Runs

| run | question | bounds |
|---|---|---|
| `lobby` | do registries, rooms and what clients were told agree, whatever clients send; do the handlers implement `Matchmaking`? | 3 players, 2 rooms, 1 body |
| `lobby_upgrade` | finding: a list before the 101 | as `lobby` |
| `pages_ghosts` | finding: listed rooms without a host | as `web_lobby` |
| `connection` | does the parser keep in step, dispatch and answer once, in order, and in the end everything? | 4 items |
| `connection_pipelined` | finding: a frame left in the buffer | 4 items |
| `event_loop` | does a read ever block; do handlers, descriptors and connections correspond; is a client accepted, served, noticed? | 3 clients, 3 descriptors, 1 chunk unread, 1 message unsent |
| `frames` | are frames parsed and written as they are defined? | lengths around 0, 126, 65536, 2^20; long form of 3 bytes |
| `court` | bounds, no stall, rallies go on | a court of 24 px with 2 px ball |
| `court_bounce` | finding: double bounce | the same |
| `web_lobby` | do screens, engines, lists and buttons agree with the server? | 2 pages, 2 rooms, 2 things under way when a page asks; 1 body, relayed with at most one other thing under way |
| `rtc` | does a match that lasts connect, and does nothing of it reach the next? | 2 places, 3 matches, 2 candidates each |
| `pong_sync` | does the guest show what the host had, and the host learn of the guest's paddle? | 2 places of the ball and of each paddle, 1 goal each, 2 messages each way |

Why the bounds are enough.  Three players are a pair and a third that joins,
waits or is listed; two rooms let a stray client leave one behind and a pair
exist beside a listed room.  Players are interchangeable, and no run with symmetry
checks liveness.  Four
items are a request and three frames, so that a read can hold the end of one,
the whole of another and the beginning of a third.  Two descriptors beside the
listener's are one to be closed while the other is in the same pass, and a third
client takes the freed one or is refused; liveness is checked for one of the three
clients (`Watched`), as they are interchangeable.  TLC's integers have 32 bits, so the
long length has three bytes instead of eight; `FrameProofs` covers any number.  The court is short, with strides, ball speeds
and boost as in the code.  Two pages are host and guest of one room or of two;
`MaxUnderWay` delays a click while two things of the page are under way, so a JOIN,
a CREATE and the answers to both can still cross, and a relay waits until the two pages
together have less than that under way, so it can meet a `Cleanup`, a PEER_LEFT or a request.  Three matches are one to be cut
short, one that meets its remains and one after; two candidates can come on both sides
of a description.  Two messages in the channel can be in the wrong order.  The two
places of the ball and of each paddle differ in both coordinates, and at least one of them
from where a match starts, so that a number that is not read, or read in
another's place, shows; the ball's are where coordinates are negative or not whole;
`NumbersArrive` covers all others, and scores of any size.

No run checks deadlock: clients may stop, and codes, items and clients run out.

Fairness.  `Connection`: poll is level-triggered and `Read` runs to its end, so
reads and iterations are weakly fair; clients owe nothing.  `Reactor`: the
process runs (weak fairness of its step as a whole, not of each handler); clients
owe nothing.  `Connection::Write` waits as long as it takes, and one client
that does not read can stop all, so the three liveness properties are about
behaviours in which no write waits for ever (`[]<>~Stuck`): they say that
nothing else can hold the loop.  `Pong`: `requestAnimationFrame` goes on
calling `tick`.  `PongSync`: it does so on the host, and what arrives at the guest is
delivered.  `WebLobby`, `Rtc`: the
server's loop and the browser's task queues go on, page by page; a browser
settles the operations of an open connection and finds its candidates.  People
owe nothing, and the network need not open the channel.

## What the runs show

Whatever clients send, `room_` never dangles (`SeatIsReal`).  A client that
keeps to one room at a time is protected from all the others: it occupies only
that room (`OneSeat`), its room ends when either side goes
(`RoomsDieWithOccupants`), it relays to the peer that relays to it
(`MutualPeers`), and receives RELAY only between READY and PEER_LEFT
(`RelayFollowsReady`).  It is put out only with PEER_LEFT, which comes before
the list (`EvictedIsTold`).  If all clients keep to one room, everybody's last
list is the current one (`SeenIsCurrent`), what they were told is true
(`ToldTruth`) and the lobby implements `Matchmaking` (`MatchesPlayers`).

Pages show what the server has.  As long as nobody entered a room from inside one,
a page with nothing under way is on the menu outside rooms, waiting as a
host without a guest, and in the game in its role (`ScreenIsTrue`); its list is
current, also after a game in which it was sent none (`ListIsCurrent`), and
whatever people do its menu can be used (`MenuIsUsable`).  The engine runs
behind the game screen only (`EngineFollowsScreen`), and not for long without a
peer (`NobodyPlaysAlone`).  While modelling this it turned out that the exception is
real: a page with a JOIN and a CREATE on their way can end up on the waiting screen
with the engine running behind it.

Although `handleSignal` reads `this.pc` again after every `await`, a match cut short
leaves nothing to the next (`OneMatchAtATime`): `init` and `close` close the old connection
before the field changes, and a closed connection resumes nothing.  Candidates
come after the description they need, because they are sent after it through
queues that keep order and wait in the browser's chain behind it
(`NoCandidateLost`), so a match that lasts is negotiated completely
(`MatchesConnect`).

The guest shows one snapshot of the host's, the ball on both axes with its signs, the
host's paddle and the scores, each number in its place
(`GuestShowsASnapshot`); never an older score after a newer one
(`ScoresNeverGoBack`); and it gets to know every goal of either side while the channel is
open (`ScoresArrive`).  Once the host has heard all, it has the guest's paddle where
the guest shows it (`MirrorCatchesUp`).

Findings, each the violation of a run:

* `lobby_upgrade`: a player is registered at accept, so a room-list broadcast
  can be written to a socket before its 101, which breaks the upgrade.
* `pages_ghosts`: a second CREATE leaves the first room behind; when the client
  goes, that room stays listed.  The page itself can do it.  In the run, two codes that
  name no room are sent by Enter, one upon the other; the ERROR of the first JOIN enables HOST,
  which creates room 1, and the ERROR of the second enables HOST again before CREATED is
  heard: room 2.  The connection is lost, and room 1 stays.
* `connection_pipelined`: a frame that comes in one read with the upgrade request
  waits for more bytes.
* `court_bounce`: a fast retreat can leave the ball heading into the paddle, and
  the next tick hits it again, in spite of the comment at `main.cpp:169`.

## Proofs

Each theorem holds for every value of the constants the module's assumption
admits (`LobbyAssumption`, `ConnectionAssumption`, `ReactorAssumption`,
`FrameAssumption`, `PongAssumption`, `WebLobbyAssumption`, `RtcAssumption`,
`PongSyncAssumption`): any number of clients, rooms, descriptors, items, matches,
requests under way.  TLC evaluates the assumptions on the runs' constants.  Every
invariant and action property that a passing run checks is the statement of a
theorem.  There is one lemma per handler, and a last lemma that puts them
together (`StepIInv` and its like).

`LobbyProofs`, first part: `TypeOK`, `SeatIsReal`, `OneSeat`, `RoomsDieWithOccupants` and
`MutualPeers`.  None of the last four is inductive.  The invariant `IInv` adds:
codes not handed out yet have no occupants (`FreshCodes`), a registered room had a
host (`RoomsWereHosted`), and whoever has a place in a room had been upgraded.  With
them, `Cleanup` can be shown to reach all who hold the room it deletes: an
occupant that is seated there is the leaver or the one `OtherPlayer` finds.

`LobbyProofs`, second part: `ToldTruth`, `SeenIsCurrent`, `RelayFollowsReady`, the action property
`EvictedIsTold`, and `MatchesPlayers`, the refinement of `Matchmaking`.  A first
group of lemmas says which verbs a handler writes to whom (`CreateSends`,
`JoinSends`, `CleanupSends`), which is where the order of its effects matters: the
list a client sees last is the one after the handler's last broadcast.  `ToldTruth`
speaks of relations between clients, and is not inductive; `PlacesAreTold` is, that
everybody was told its place (lobby, waiting, matched) as the registries have
it.  It needs to know who was never served (`Newcomers`), that nobody is host and
guest of one room (`HostIsNotGuest`), and that a client which keeps to one room and
has a peer, or is in no room, was told so whatever the others do (`MatchedIsTold`,
`OutsidersAreTold`); the former is what `RelayFollowsReady` needs too.  The refinement maps each handler to one step of
`Matchmaking` or to a stutter; it uses `KInv` before and after the step.  A last
group says what a handler's lines mean to a client that acts on them (`LinesMean`):
at most one thing about its place, the list and the role it has after the step,
CREATED alone.  It is all that `WebLobbyProofs` needs to know of the server.

`ConnectionProofs`: `InStep`, `DispatchedOnce`, `AnsweredInTurn`, `NothingAfterTheEnd`.
The invariant's heart is `Stream`: the buffer followed by the wire is the tail of the
stream of tokens, from the first item not yet parsed to the last one sent, short of
what a reset took.  A read only moves the border between the two, so the
property holds however the stream is cut; a frame, once whole, is by `Stream` the
next one the client sent.  `BeforeUpgrade` and `AfterUpgrade` say what the parser's
state means for the items, without which the first frame could be taken for the
request.

`ReactorProofs`: `TypeOK`, `NoReadBlocks`, `HandlersMatchFds`.
`Run` walks a snapshot while handlers close descriptors and accept gives
them out again.  The invariant says that the rest of the snapshot never gets stale
(`PassIsFresh`): what is still to be looked at is registered and readable.
This holds because a pass closes only the descriptor it looks at
(`RunningWasLookedAt`), and the kernel cannot give a descriptor again that is open.

`FrameProofs`: `NothingReadAhead`: with what lies behind the end of the buffer
changed, `ParseFrame` returns the same (`SameBytesSameResult`), for frames of every
form and every cut.  `ParsesTheFrame`: what a client wrote is what `ParseFrame` returns,
and nothing before it is whole; `EncodesTheShortest`.  Both rest on one fact, that
a number is the sum of its bytes times powers of 256, for any number of bytes.
`FrameAssumption` says that every length fits into the long form, as the 64 bits of the
code hold every `size_t`.

`PongProofs`: `BallNeverStalls` and `InBounds`.  Neither follows from itself: that
the ball moves now does not say that the next collision leaves it moving.  The
invariant (`IInv`) is about residues.  Paddles stand, and so move, in whole strides of 4 px,
of which the boost takes 12 fifths each; so a collision turns a velocity v into
-v plus a multiple of 12, or into the limit, 70 or -70.  The serve is 25 or -25, so
velocities stay at 1, 2, 10 or 11 over a multiple of 12 (`Alive`), never at 0.

`WebLobbyProofs`: `ScreenIsTrue`, `ListIsCurrent`, `MenuIsUsable` and
`EngineFollowsScreen`, of the pages composed with the lobby, on top of `KInv`.  The
first three are about a page with nothing under way, which says nothing of the
step that empties its queue.  The invariant (`PageInv`) says what a page will come to when
it has heard all that is on its way: `WillShow`, of its screen and of what the server
told it; `WillPlay`, of its engine and its role; `WillList`, of its menu and the
last list.  The last line of a kind in the queue decides, and with none the page
as it is.  A queue grows at one end and shrinks at the other, so each of them
has a lemma for more lines (`...More`) and one for a line heard (`...Heard`),
and the handlers of a page need to be looked at one line at a time only.  A page
renders lists on the menu alone: that the last list is not lost on another
screen is `PutOutReturns`, that a page put out by its peer hears PEER_LEFT before
anything else takes it there.  `EngineFollows` rests on it too: CREATED finds the
engine stopped.  `AnswerToCome` says why disabled buttons do not stay so: a
request is on its way to the server, or its answer back.

`RtcProofs`: `OneMatchAtATime`.  That nothing of one match is in a connection of
another depends on the order in which the lines that bring it reach a page, so most of the
invariant is about queues.  In a page's queue (`PagesInOrder`) READY comes first and only
to a page without an engine, what follows is of that match, PEER_LEFT comes last and
only once the server has ended the match; `EndComesLast`, `RelaysAreOfTheMatch`,
`AskingPages` and `WaitingPage` say what can be on the way to the server meanwhile.
`OfTheirMatch` says that the operations in a connection's chain are of its own match.
What an `await` goes on with is `this.pc` of that moment; as closed connections settle
nothing, the chain that settles is the one of `this.pc`.

The second theorem is `NoCandidateLost`, with an invariant of its own on top
(`IceInv`), about two pages whose connections are of the same match (`Together`) and the
link from one to the other: the lines on their way to the server, then those on
their way to the other page, then its chain (`PagesLinked`).  The description is
ahead of the candidates in all three, or was taken already, and the candidates along
the link, those taken and those still to be found are together as many as there are.  A handler moves
lines from one stretch of the link to the next, so the sum stays; what could lose
one, a candidate settled before the description, cannot come to the front of the chain.

`PongSyncProofs`: `NumbersArrive` says that what `Text` writes, `Values` reads: all
numbers, of every size and sign, each in its place.  First, the digits of a number are
what repeated division leaves, and reading them back undoes the divisions; then
a message is laid out with each number behind a space (`Written`), and the reader
stands at the end of one number when it looks for the next.  `MessagesFit` and
`ScoreFits` count the characters: eight ints (-2^31 aside, which `n = -n` cannot negate) fit into `send_buf[128]`,
a score below 10^8 into `buf[8]`; a larger one would not, and nothing in the code
stops the count.  With `NumbersArrive`, `GuestShowsASnapshot`, `MirrorCatchesUp` and
`ScoresNeverGoBack` follow from an invariant about the channel: each message is the text of
what the sender had (`Typed`, `Shown`); the scores rise from what the guest shows
through the messages on their way to what the host has (`ScoresRise`); and the
guest's last message, or with none the host's copy, is where its paddle is (`Reported`).

Induction.  The library's induction theorems take a predicate as a parameter, which
the installed provers cannot instantiate.  Where a proof needs induction over numbers
(`FrameProofs`, `PongSyncProofs`), it forms the set of the numbers for which the
claim holds and shows that 0 is in it and with k also k + 1; recursive functions are
shown to exist in the same way.

Model-checked only: liveness, which needs fairness and `ENABLED`, both beyond the
prover: `EveryMessageDispatched`, `EveryReadableClientServed`, `EveryHangUpNoticed`,
`EveryClientAccepted`, `RallyGoesOn`, `NobodyPlaysAlone`, `MatchesConnect` and `ScoresArrive`.
`Matchmaking` states safety only, so its refinement is proved as a whole.

## Not modelled

* The vertical axis of the court: `Pong` leaves it free, which allows more than the
  code does, and no property of the horizontal one depends on it.  `PongSync` carries
  both coordinates, but does not say how they come about.
* SHA-1 and base64: pure functions with published test vectors, which a unit
  test settles; `Connection` abstracts the answer to an upgrade to `101`.
* `FindHeader`, but for whether there is a key; the parsing of verbs and JSON.
* Rendering, keyboard, banners; build and deployment (no behaviour of the
  program).  `Reactor::Stop` has no caller.  Failures of poll other than EINTR, and of
  memory, end the process.
* The browser and the network are external and modelled as the code relies on
  them: a FIFO socket, the operations chain of an RTCPeerConnection, an ordered channel.
  That the channel may fail to open, or die while both pages stay in the
  game, which the code answers with a status text only, is in the models as a
  channel that never opens; they promise nothing then.

## Plan

Done, in this order: `Signaling` with `Matchmaking`, `Connection`, `Reactor`,
`Frame`, `Pong`; the proofs of the lobby's and the ball's safety; `WebLobby`,
`Rtc` and `PongSync`.

Then the proofs: of what the lobby tells its clients and its refinement of
`Matchmaking`; of `Connection`, `Reactor`, `Frame` and `Rtc`; of `WebLobby`, on top of
the lobby's; of the codecs of `Frame` and `PongSync`, of `Rtc`'s candidates and of
`PongSync`'s engines.

Left: the vertical axis of the court, with the corner cases of the paddles'
collision; SHA-1 and base64.  Liveness stays with TLC.
