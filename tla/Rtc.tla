--------------------------------- MODULE Rtc ---------------------------------
(***************************************************************************)
(* The peer connections of two pages (rtc.ts) through one match after      *)
(* another: offer, answer and candidates relayed by the server, the awaits *)
(* of init and handleSignal, and close.                                    *)
(*                                                                         *)
(* The browser's RTCPeerConnection is external.  Its operations form a     *)
(* chain, first in first out; when one is done the code that awaits it     *)
(* runs on, in the same step, up to its next await.  A closed connection   *)
(* does nothing any more: its operations never settle, it fires no event.  *)
(*                                                                         *)
(* A connection object is named by its page and by the match it was made   *)
(* for, which stands for what its descriptions and candidates contain.     *)
(* The server is Signaling's lobby for two clients that keep to one room:  *)
(* who asks first is the host, who asks next the guest.                    *)
(***************************************************************************)
EXTENDS Naturals, Sequences, FiniteSets

CONSTANTS
  Pages,      \* two places, each of them held by one page after another
  Nobody,
  MaxMatch,   \* bound: matches ever made
  MaxIce      \* bound: candidates a connection discovers

ASSUME RtcAssumption ==
  /\ \E a, b \in Pages : a # b /\ Pages = {a, b}
  /\ Nobody \notin Pages
  /\ MaxMatch \in Nat \ {0} /\ MaxIce \in Nat \ {0}

Matches == 1 .. MaxMatch
None    == 0                 \* null, and no match

VARIABLES
  pc, dc,       \* Rtc.pc and Rtc.dc, per page: the match they were made for
  game,         \* the match the page's engine plays
  role,         \* the role of the page's last READY
  asked,        \* the page has asked for a match and was not given one yet
  leaving,      \* the page is gone and the server does not know yet
  live,         \* per page, its connections that are not closed
  chain,        \* per connection, its operations, the first being under way
  local,        \* per connection, whether it has a local description
  remote,       \* per connection, the match its remote description is of
  undiscovered, \* per connection, the candidates still to come
  added,        \* per connection, the peer's candidates it took
  toServer,     \* per page, requests and RELAYs on their way
  inbox,        \* per page, lines on their way
  waiting,      \* the page that asked first, at the server
  match,        \* the match the server has the two pages in, or None
  made          \* the matches made so far

fields  == <<pc, dc, game, role>>
objects == <<live, chain, local, remote, undiscovered, added>>
lobby   == <<waiting, match, made>>
vars    == <<fields, asked, leaving, objects, toServer, inbox, lobby>>

Other(s) == CHOOSE t \in Pages : t # s
PerObject(x) == [s \in Pages |-> [m \in Matches |-> x]]

Init ==
  /\ pc = [s \in Pages |-> None] /\ dc = pc /\ game = pc
  /\ role = [s \in Pages |-> "none"]
  /\ asked = [s \in Pages |-> FALSE] /\ leaving = asked
  /\ live = [s \in Pages |-> {}]
  /\ chain = PerObject(<<>>)
  /\ local = PerObject(FALSE)
  /\ remote = PerObject(None)
  /\ undiscovered = PerObject(0) /\ added = undiscovered
  /\ toServer = [s \in Pages |-> <<>>] /\ inbox = toServer
  /\ waiting = Nobody /\ match = None /\ made = 0

-----------------------------------------------------------------------------
(* The server. *)

Post(s, line)  == inbox' = [inbox EXCEPT ![s] = Append(@, line)]
Send(s, thing) == toServer' = [toServer EXCEPT ![s] = Append(@, thing)]

ReadsFrom(s, t) ==
  /\ toServer[s] # <<>> /\ Head(toServer[s]).t = t
  /\ toServer' = [toServer EXCEPT ![s] = Tail(@)]

\* CREATE by the first page, JOIN by the second: READY to the host, then to the
\* guest.
ServeAsk(s) ==
  /\ ReadsFrom(s, "ask")
  /\ IF waiting = Nobody
     THEN waiting' = s /\ UNCHANGED <<match, made, inbox>>
     ELSE /\ made < MaxMatch
          /\ waiting' = Nobody /\ made' = made + 1 /\ match' = made + 1
          /\ inbox' = [h \in Pages |->
               Append(inbox[h], [t |-> "READY", of |-> made + 1,
                                 role |-> IF h = s THEN "guest" ELSE "host"])]
  /\ UNCHANGED <<fields, asked, leaving, objects>>

\* RELAY.  Out of a match it is answered by an ERROR, which goes to the menu's
\* buttons (WebLobby) and not to rtc.ts.
ServeRelay(s) ==
  /\ \E t \in {"offer", "answer", "ice"} : ReadsFrom(s, t)
  /\ IF match # None THEN Post(Other(s), Head(toServer[s])) ELSE UNCHANGED inbox
  /\ UNCHANGED <<fields, asked, leaving, objects, lobby>>

\* The page has gone: Cleanup.  Another page may take its place.
ServeEnd(s) ==
  /\ ReadsFrom(s, "end")
  /\ match' = None
  /\ waiting' = IF waiting = s THEN Nobody ELSE waiting
  /\ inbox' = [inbox EXCEPT
       ![s] = <<>>,
       ![Other(s)] = IF match = None THEN @ ELSE Append(@, [t |-> "PEER_LEFT"])]
  /\ leaving' = [leaving EXCEPT ![s] = FALSE]
  /\ UNCHANGED <<fields, asked, objects, made>>

-----------------------------------------------------------------------------
(* The page. *)

\* A variant: the fields are cleared and the connection goes on.
CloseNothing(s, new) == live' = [live EXCEPT ![s] = @ \union new]

\* close(), and init's new connection if any.
Close(s, new) == live' = [live EXCEPT ![s] = (@ \ {pc[s]}) \union new]

\* close() and stop_game.  What the closed connection held has no effect any
\* more and is forgotten.
Stop(s) ==
  LET Forget(f, x) == [f EXCEPT ![s] = [m \in Matches |-> x]] IN
  /\ Close(s, {})
  /\ pc' = [pc EXCEPT ![s] = None] /\ dc' = [dc EXCEPT ![s] = None]
  /\ game' = [game EXCEPT ![s] = None]
  /\ chain' = Forget(chain, <<>>)
  /\ local' = Forget(local, FALSE)
  /\ remote' = Forget(remote, None)
  /\ undiscovered' = Forget(undiscovered, 0)
  /\ added' = Forget(added, 0)
  /\ UNCHANGED role

\* The person asks for a match on the menu.
Ask(s) ==
  /\ game[s] = None /\ ~ asked[s] /\ ~ leaving[s]
  /\ asked' = [asked EXCEPT ![s] = TRUE]
  /\ Send(s, [t |-> "ask"])
  /\ UNCHANGED <<fields, leaving, objects, inbox, lobby>>

\* The tab is closed or the socket lost: onClose.
Leave(s) ==
  /\ ~ leaving[s] /\ (asked[s] \/ game[s] # None)
  /\ leaving' = [leaving EXCEPT ![s] = TRUE]
  /\ asked' = [asked EXCEPT ![s] = FALSE]
  /\ Stop(s)
  /\ Send(s, [t |-> "end"])
  /\ inbox' = [inbox EXCEPT ![s] = <<>>]
  /\ UNCHANGED lobby

Hears(s, t) ==
  /\ ~ leaving[s]
  /\ inbox[s] # <<>> /\ Head(inbox[s]).t = t
  /\ inbox' = [inbox EXCEPT ![s] = Tail(@)]

\* onReady: init(role) up to its first await, start_game.
OnReady(s) ==
  /\ Hears(s, "READY")
  /\ LET m == Head(inbox[s]).of
         isHost == Head(inbox[s]).role = "host"
     IN
     /\ Close(s, {m})
     /\ chain' = [chain EXCEPT
          ![s][m] = IF isHost THEN <<[op |-> "createOffer", of |-> m]>> ELSE <<>>]
     /\ undiscovered' = [undiscovered EXCEPT ![s][m] = MaxIce]
     /\ pc' = [pc EXCEPT ![s] = m]
     /\ dc' = [dc EXCEPT ![s] = IF isHost THEN m ELSE None]
     /\ game' = [game EXCEPT ![s] = m]
     /\ role' = [role EXCEPT ![s] = Head(inbox[s]).role]
  /\ asked' = [asked EXCEPT ![s] = FALSE]
  /\ UNCHANGED <<leaving, local, remote, added, toServer, lobby>>

\* onPeerLeft: close, stop_game, the menu.
OnPeerLeft(s) ==
  /\ Hears(s, "PEER_LEFT")
  /\ Stop(s)
  /\ UNCHANGED <<asked, leaving, toServer, lobby>>

\* A variant: a candidate is dropped unless the remote description is there.
CallOnceDescribed(chains, s, m, op, of) ==
  IF m = None \/ (op = "addIce" /\ remote[s][m] = None) THEN chains
  ELSE [chains EXCEPT ![s][m] = Append(@, [op |-> op, of |-> of])]

\* The chains after an operation was called on the connection of match m.  A
\* call on null throws and leaves them.
Call(chains, s, m, op, of) ==
  IF m = None THEN chains
  ELSE [chains EXCEPT ![s][m] = Append(@, [op |-> op, of |-> of])]

\* A variant: the branch of the answer is missing.
HandlingNoAnswer == [offer |-> "setRemoteOffer", ice |-> "addIce"]

\* What handleSignal calls on this.pc, by the envelope.
Handling ==
  [offer |-> "setRemoteOffer", answer |-> "setRemoteAnswer", ice |-> "addIce"]

\* handleSignal up to its first await.
HandleSignal(s) ==
  /\ \E t \in {"offer", "answer", "ice"} :
       /\ Hears(s, t)
       /\ chain' = IF t \in DOMAIN Handling
                   THEN Call(chain, s, pc[s], Handling[t], Head(inbox[s]).of)
                   ELSE chain
  /\ UNCHANGED <<fields, asked, leaving, live, local, remote, undiscovered, added,
                 toServer, lobby>>

-----------------------------------------------------------------------------
(* The browser. *)

\* The first operation of page s's connection m is done.  `Done' are the chains
\* that are left.
Settles(s, m, op) ==
  m \in live[s] /\ chain[s][m] # <<>> /\ Head(chain[s][m]).op = op
Done(s, m) == [chain EXCEPT ![s][m] = Tail(@)]

\* init, after createOffer: the local variable pc.
CreatedOffer(s, m) ==
  /\ Settles(s, m, "createOffer")
  /\ chain' = Call(Done(s, m), s, m, "setLocalOffer", m)
  /\ UNCHANGED <<fields, asked, leaving, live, local, remote, undiscovered, added,
                 toServer, inbox, lobby>>

\* init and handleSignal, after setLocalDescription: the description is sent.
SetLocal(s, m, op, t) ==
  /\ Settles(s, m, op)
  /\ chain' = Done(s, m)
  /\ local' = [local EXCEPT ![s][m] = TRUE]
  /\ Send(s, [t |-> t, of |-> m])
  /\ UNCHANGED <<fields, asked, leaving, live, remote, undiscovered, added, inbox, lobby>>

\* handleSignal, after setRemoteDescription of an offer: createAnswer on this.pc.
SetRemoteOffer(s, m) ==
  /\ Settles(s, m, "setRemoteOffer")
  /\ remote' = [remote EXCEPT ![s][m] = Head(chain[s][m]).of]
  /\ chain' = Call(Done(s, m), s, pc[s], "createAnswer", m)
  /\ UNCHANGED <<fields, asked, leaving, live, local, undiscovered, added,
                 toServer, inbox, lobby>>

\* handleSignal, after createAnswer: setLocalDescription on this.pc.
CreatedAnswer(s, m) ==
  /\ Settles(s, m, "createAnswer")
  /\ chain' = Call(Done(s, m), s, pc[s], "setLocalAnswer", m)
  /\ UNCHANGED <<fields, asked, leaving, live, local, remote, undiscovered, added,
                 toServer, inbox, lobby>>

SetRemoteAnswer(s, m) ==
  /\ Settles(s, m, "setRemoteAnswer")
  /\ chain' = Done(s, m)
  /\ remote' = [remote EXCEPT ![s][m] = Head(chain[s][m]).of]
  /\ UNCHANGED <<fields, asked, leaving, live, local, undiscovered, added,
                 toServer, inbox, lobby>>

\* addIceCandidate.  Without a remote description, or of another connection, it
\* fails, and handleSignal swallows that.
AddIce(s, m) ==
  /\ Settles(s, m, "addIce")
  /\ chain' = Done(s, m)
  /\ added' = [added EXCEPT
       ![s][m] = IF remote[s][m] = Head(chain[s][m]).of THEN @ + 1 ELSE @]
  /\ UNCHANGED <<fields, asked, leaving, live, local, remote, undiscovered,
                 toServer, inbox, lobby>>

\* Gathering starts with the local description, whose sender has run by then.
Gathers(s, m) == local[s][m]

\* onicecandidate.
OnIceCandidate(s, m) ==
  /\ m \in live[s] /\ undiscovered[s][m] > 0 /\ Gathers(s, m)
  /\ undiscovered' = [undiscovered EXCEPT ![s][m] = @ - 1]
  /\ Send(s, [t |-> "ice", of |-> m])
  /\ UNCHANGED <<fields, asked, leaving, live, chain, local, remote, added, inbox, lobby>>

\* Both connections of match m have both descriptions, of each other.
Negotiated(m) ==
  \A s \in Pages : m \in live[s] /\ local[s][m] /\ remote[s][m] = m

\* The connection is up, if the network lets it, and the guest is given the
\* channel: ondatachannel.
OnDataChannel(s, m) ==
  /\ m \in live[s] /\ role[s] = "guest" /\ Negotiated(m)
  /\ dc[s] = None
  /\ dc' = [dc EXCEPT ![s] = m]
  /\ UNCHANGED <<pc, game, role, asked, leaving, objects, toServer, inbox, lobby>>

-----------------------------------------------------------------------------

Serve(s) == ServeAsk(s) \/ ServeRelay(s) \/ ServeEnd(s)
Handle(s) == OnReady(s) \/ OnPeerLeft(s) \/ HandleSignal(s)

Settle(s, m) ==
  \/ CreatedOffer(s, m) \/ SetLocal(s, m, "setLocalOffer", "offer")
  \/ SetRemoteOffer(s, m) \/ CreatedAnswer(s, m)
  \/ SetLocal(s, m, "setLocalAnswer", "answer")
  \/ SetRemoteAnswer(s, m) \/ AddIce(s, m)

Next ==
  \E s \in Pages :
    \/ Ask(s) \/ Leave(s) \/ Serve(s) \/ Handle(s)
    \/ \E m \in Matches : Settle(s, m) \/ OnIceCandidate(s, m) \/ OnDataChannel(s, m)

\* Server and browsers keep running; a browser finds its candidates.  People owe
\* nothing, and the network need not let the channel through.
Spec ==
  /\ Init /\ [][Next]_vars
  /\ \A s \in Pages :
       /\ WF_vars(Serve(s)) /\ WF_vars(Handle(s))
       /\ \A m \in Matches : WF_vars(Settle(s, m)) /\ WF_vars(OnIceCandidate(s, m))

-----------------------------------------------------------------------------
(* Properties. *)

\* Whatever awaits were cut short by PEER_LEFT, a lost socket or a new READY, a
\* page's connection, channel and engine are those of one match, no connection
\* of an earlier one is left running, and the remote description is of the same
\* match: nothing of an earlier match gets into the next.
OneMatchAtATime ==
  \A s \in Pages :
    /\ pc[s] = game[s] /\ dc[s] \in {None, game[s]}
    /\ live[s] = {game[s]} \ {None}
    /\ \A m \in Matches : remote[s][m] \in {None, m}

\* How often x is in q.
Times(x, q) == Cardinality({i \in DOMAIN q : q[i] = x})

\* The candidates of page s for match m that were not taken yet.
Candidate(m) == [t |-> "ice", of |-> m]
UnderWay(s, m) ==
  Times(Candidate(m), toServer[s]) + Times(Candidate(m), inbox[Other(s)])
    + Times([op |-> "addIce", of |-> m], chain[Other(s)][m])

\* No candidate is lost in a match that lasts: those discovered by one side are
\* on their way, waiting in the other's chain, or were taken.
NoCandidateLost ==
  \A s \in Pages, m \in Matches :
    m \in live[s] /\ m \in live[Other(s)] =>
      undiscovered[s][m] + UnderWay(s, m) + added[Other(s)][m] = MaxIce

\* Every match is negotiated to the end, with all candidates exchanged, unless
\* one of the two leaves.
MatchesConnect ==
  \A m \in Matches :
    match = m ~> \/ Negotiated(m) /\ \A s \in Pages : added[s][m] = MaxIce
                 \/ match # m

=============================================================================
