----------------------------- MODULE Connection ------------------------------
(***************************************************************************)
(* One ws::Connection: the bytes a client sends arrive in pieces of any    *)
(* size, are appended to in_buf_, and are taken off its front as one HTTP  *)
(* request and then as WebSocket frames (src/server/ws/).                  *)
(*                                                                         *)
(* An item is a request or a frame.  Its bytes are two tokens: the head,   *)
(* all that is needed to reject a malformed frame, and the tail, without   *)
(* which a request or a frame is incomplete.                               *)
(*                                                                         *)
(* Connection::Read is split at the iterations of HandleFrames' loop:      *)
(* between two of them only the client can act, and only on what the       *)
(* kernel holds.                                                           *)
(***************************************************************************)
EXTENDS Naturals, Sequences

CONSTANT
  MaxItems      \* bound: items the client sends

ASSUME ConnectionAssumption == MaxItems \in Nat

\* "upgrade": a request with a Sec-WebSocket-Key; "plain": one without.
Requests == {"upgrade", "plain"}
\* "text": Text or Binary; "pong": Pong, or one of the reserved opcodes, which
\* no case of the switch takes; "fragment": FIN=0, or a Continuation;
\* "bad": an RSV bit, no mask, or a length over kMaxFramePayload.
Frames == {"text", "ping", "pong", "close", "fragment", "bad"}
Kinds == Requests \union Frames

VARIABLES
  wire,         \* the tokens the kernel holds for this fd
  fin,          \* the client will send no more: end of file, or a reset
  state,        \* state_
  in_buf,       \* in_buf_
  pc,           \* "idle": in poll; "frames": in HandleFrames; "closed"
  replies,      \* what was written to the client
  dispatched,   \* the items handed to on_message_
  \* History variables: no guard of the server reads them.
  sent,         \* the kinds of the items the client sent
  upgraded,     \* the number of the item whose request was accepted, or 0
  parsed,       \* the number of items erased from the front of in_buf_
  lost,         \* a reset threw away what the kernel held
  early         \* the number of items sent before the server had answered

vars == <<wire, fin, state, in_buf, pc, replies, dispatched,
          sent, upgraded, parsed, lost, early>>

Token(i, part) == [item |-> i, part |-> part]
Tokens(i) == <<Token(i, "head"), Token(i, "tail")>>
Kind(token) == sent[token.item]

\* What the server writes, and the item it answers.
Reply(answer, i) == [answer |-> answer, item |-> i]

-----------------------------------------------------------------------------
(* The client and the network. *)

Init ==
  /\ wire = <<>>
  /\ fin = FALSE
  /\ state = "Handshake"
  /\ in_buf = <<>>
  /\ pc = "idle"
  /\ replies = <<>>
  /\ dispatched = <<>>
  /\ sent = <<>>
  /\ upgraded = 0
  /\ parsed = 0
  /\ lost = FALSE
  /\ early = 0

\* A client may send frames before the answer to its request has come.
Send(kind) ==
  /\ Len(sent) < MaxItems
  /\ ~ fin
  /\ sent' = Append(sent, kind)
  /\ wire' = wire \o Tokens(Len(sent) + 1)
  /\ early' = IF replies = <<>> THEN Len(sent) + 1 ELSE early
  /\ UNCHANGED <<fin, state, in_buf, pc, replies, dispatched,
                 upgraded, parsed, lost>>

\* The client closes its socket: end of file follows what was sent.
Shutdown ==
  /\ ~ fin
  /\ fin' = TRUE
  /\ UNCHANGED <<wire, state, in_buf, pc, replies, dispatched,
                 sent, upgraded, parsed, lost, early>>

\* The connection is reset: what was not read is gone.
Reset ==
  /\ ~ lost
  /\ fin' = TRUE
  /\ wire' = <<>>
  /\ lost' = TRUE
  /\ UNCHANGED <<state, in_buf, pc, replies, dispatched,
                 sent, upgraded, parsed, early>>

-----------------------------------------------------------------------------
(* Connection::Read. *)

\* read() returned the first n tokens.
Received(n) == in_buf \o SubSeq(wire, 1, n)

Rest(buf, n) == SubSeq(buf, n + 1, Len(buf))

\* The places in buf where a request ends ("\r\n\r\n").
RequestEnds(buf) ==
  {i \in DOMAIN buf : buf[i].part = "tail" /\ Kind(buf[i]) \in Requests}

\* The first of them: ProcessHandshake takes everything up to it for the
\* request, whatever came before.
First(places) == CHOOSE i \in places : \A j \in places : i <= j

\* A read in Handshake state with no complete request yet.
ReadPartOfRequest(n) ==
  /\ pc = "idle" /\ state = "Handshake"
  /\ RequestEnds(Received(n)) = {}
  /\ in_buf' = Received(n)
  /\ wire' = Rest(wire, n)
  /\ UNCHANGED <<fin, state, pc, replies, dispatched,
                 sent, upgraded, parsed, lost, early>>

\* A variant: the buffer is cleared with the request.
KeepNothing(buf, end) == <<>>

\* What ProcessHandshake leaves in the buffer.
KeepPipelined(buf, end) == Rest(buf, end)

\* A read that completes the request.  With a key the answer is 101 and the
\* connection is open; frames that came along stay in the buffer.  Without,
\* it is 426 and the end.
ReadRequest(n) ==
  LET buf   == Received(n)
      end   == First(RequestEnds(buf))
  IN
  /\ pc = "idle" /\ state = "Handshake"
  /\ RequestEnds(buf) # {}
  /\ wire' = Rest(wire, n)
  /\ in_buf' = KeepPipelined(buf, end)
  /\ parsed' = buf[end].item
  /\ IF Kind(buf[end]) = "upgrade"
     THEN /\ state' = "Open"
          /\ replies' = Append(replies, Reply("101", buf[end].item))
          /\ upgraded' = buf[end].item
          /\ UNCHANGED pc
     ELSE /\ pc' = "closed"
          /\ replies' = Append(replies, Reply("426", buf[end].item))
          /\ UNCHANGED <<state, upgraded>>
  /\ UNCHANGED <<fin, dispatched, sent, lost, early>>

\* A read in Open state, up to the loop of HandleFrames.
ReadFrames(n) ==
  /\ pc = "idle" /\ state = "Open"
  /\ in_buf' = Received(n)
  /\ wire' = Rest(wire, n)
  /\ pc' = "frames"
  /\ UNCHANGED <<fin, state, replies, dispatched,
                 sent, upgraded, parsed, lost, early>>

\* read() returned 0 or an error.
ReadEnd ==
  /\ pc = "idle"
  /\ fin /\ wire = <<>>
  /\ pc' = "closed"
  /\ UNCHANGED <<wire, fin, state, in_buf, replies, dispatched,
                 sent, upgraded, parsed, lost, early>>

-----------------------------------------------------------------------------
(* One iteration of HandleFrames. *)

\* ParseFrame's three results.  In Open state the head of a request is Bad: its
\* first letter has an RSV bit set.
IsBad   == in_buf # <<>> /\ Kind(Head(in_buf)) \in Requests \union {"bad"}
GotOne  == ~ IsBad /\ Len(in_buf) >= 2
NeedMore == ~ IsBad /\ ~ GotOne

\* ParseFrame erases the frame it returns.
EraseFrame(buf) == Rest(buf, 2)

\* The front of the buffer holds a whole frame of one of these kinds.
Got(kinds) ==
  /\ pc = "frames"
  /\ GotOne
  /\ Kind(Head(in_buf)) \in kinds
  /\ in_buf' = EraseFrame(in_buf)
  /\ parsed' = parsed + 1
  /\ UNCHANGED <<wire, fin, state, sent, upgraded, lost, early>>

WaitForMore ==
  /\ pc = "frames"
  /\ NeedMore
  /\ pc' = "idle"
  /\ UNCHANGED <<wire, fin, state, in_buf, replies, dispatched,
                 sent, upgraded, parsed, lost, early>>

MalformedFrame ==
  /\ pc = "frames"
  /\ IsBad
  /\ pc' = "closed"
  /\ UNCHANGED <<wire, fin, state, in_buf, replies, dispatched,
                 sent, upgraded, parsed, lost, early>>

\* A variant: a fragment is dispatched as if it were a message.
FragmentDispatched ==
  /\ Got({"fragment"})
  /\ dispatched' = Append(dispatched, Head(in_buf).item)
  /\ UNCHANGED <<pc, replies>>

FragmentedFrame ==
  /\ Got({"fragment"})
  /\ pc' = "closed"
  /\ UNCHANGED <<replies, dispatched>>

\* A variant: one frame per Read.
MessageThenIdle ==
  /\ Got({"text"})
  /\ dispatched' = Append(dispatched, Head(in_buf).item)
  /\ pc' = "idle"
  /\ UNCHANGED replies

Message ==
  /\ Got({"text"})
  /\ dispatched' = Append(dispatched, Head(in_buf).item)
  /\ UNCHANGED <<pc, replies>>

Ping ==
  /\ Got({"ping"})
  /\ replies' = Append(replies, Reply("Pong", Head(in_buf).item))
  /\ UNCHANGED <<pc, dispatched>>

\* A variant: a Pong is answered too.
PongEchoed ==
  /\ Got({"pong"})
  /\ replies' = Append(replies, Reply("Pong", Head(in_buf).item))
  /\ UNCHANGED <<pc, dispatched>>

Pong ==
  /\ Got({"pong"})
  /\ UNCHANGED <<pc, replies, dispatched>>

\* A variant: Close is acknowledged and the loop goes on.
CloseAndGoOn ==
  /\ Got({"close"})
  /\ replies' = Append(replies, Reply("Close", Head(in_buf).item))
  /\ UNCHANGED <<pc, dispatched>>

Close ==
  /\ Got({"close"})
  /\ replies' = Append(replies, Reply("Close", Head(in_buf).item))
  /\ pc' = "closed"
  /\ UNCHANGED dispatched

HandleFrames ==
  \/ WaitForMore \/ MalformedFrame \/ FragmentedFrame
  \/ Message \/ Ping \/ Pong \/ Close

Read ==
  \/ \E n \in 1 .. Len(wire) :
       ReadPartOfRequest(n) \/ ReadRequest(n) \/ ReadFrames(n)
  \/ ReadEnd

Next ==
  \/ \E kind \in Kinds : Send(kind)
  \/ Shutdown
  \/ Reset
  \/ Read
  \/ HandleFrames

Spec == Init /\ [][Next]_vars

\* poll reports a readable fd again and again, and Read runs to its end.
FairSpec == Spec /\ WF_vars(Read) /\ WF_vars(HandleFrames)

-----------------------------------------------------------------------------
(* Properties. *)

Items == 1 .. Len(sent)

\* The items the server has parsed since the upgrade, of one of these kinds.
Parsed(kinds) == {i \in upgraded + 1 .. parsed : sent[i] \in kinds}

\* items, an increasing sequence, are the members of set.
Lists(items, set) ==
  /\ \A j, k \in DOMAIN items : j < k => items[j] < items[k]
  /\ {items[j] : j \in DOMAIN items} = set

\* However the stream is cut up, the parser stays in step with the client:
\* the buffer starts where the item after the last one parsed starts, and
\* continues, with what the kernel holds, to the last item sent.
InStep ==
  pc # "closed" /\ ~ lost =>
    in_buf \o wire =
      [j \in 1 .. 2 * (Len(sent) - parsed) |->
         Token(parsed + (j + 1) \div 2, IF j % 2 = 1 THEN "head" ELSE "tail")]

\* Every message parsed since the upgrade was dispatched once, in order, and
\* nothing else was.
DispatchedOnce ==
  Lists(dispatched, IF state = "Open" THEN Parsed({"text"}) ELSE {})

\* What an item is answered with.
AnswerTo ==
  [upgrade |-> "101", ping |-> "Pong", close |-> "Close"]

\* The client is written, in order: the answer to its request, a Pong per Ping,
\* and an acknowledgement if it said Close.
AnsweredInTurn ==
  state = "Open" =>
    /\ Lists([k \in DOMAIN replies |-> replies[k].item],
             {upgraded} \union Parsed({"ping", "close"}))
    /\ \A k \in DOMAIN replies :
         replies[k].answer = AnswerTo[sent[replies[k].item]]

\* Nothing is parsed past a frame that ends the connection.
NothingAfterTheEnd ==
  \A i \in upgraded + 1 .. parsed :
    state = "Open" /\ sent[i] \in {"close", "fragment"} =>
      i = parsed /\ pc = "closed"

\* Every message a client sends after it had the 101 is dispatched, with
\* whatever it sent before, unless the connection ends first.
EveryMessageDispatched ==
  \A i \in 1 .. MaxItems :
    (i \in Items /\ i > early /\ sent[i] = "text")
      ~> (pc = "closed" \/ \E j \in DOMAIN dispatched : dispatched[j] = i)

\* Between two reads no complete frame waits in the buffer: "While in Open
\* state, drain complete frames and dispatch them" (connection.h).
Drained == pc = "idle" /\ state = "Open" => ~ GotOne

=============================================================================
