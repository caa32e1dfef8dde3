-------------------------- MODULE ConnectionProofs ---------------------------
(***************************************************************************)
(* Theorems about one connection, for any number of items, of any kinds,   *)
(* cut into reads of any sizes.                                            *)
(***************************************************************************)
EXTENDS Connection, SequenceTheorems, WellFoundedInduction, TLAPS

-----------------------------------------------------------------------------
(* The invariant. *)

TokenSet == [item : Nat, part : {"head", "tail"}]
ReplySet == [answer : {"101", "426", "Pong", "Close"}, item : Nat]

Typed ==
  /\ wire \in Seq(TokenSet) /\ in_buf \in Seq(TokenSet)
  /\ sent \in Seq(Kinds) /\ dispatched \in Seq(Nat)
  /\ replies \in Seq(ReplySet)
  /\ upgraded \in Nat /\ parsed \in Nat
  /\ fin \in BOOLEAN /\ lost \in BOOLEAN
  /\ state \in {"Handshake", "Open"}
  /\ pc \in {"idle", "frames", "closed"}

\* The j-th token of the stream that starts behind item n.
At(n, j) == Token(n + (j + 1) \div 2, IF j % 2 = 1 THEN "head" ELSE "tail")

\* The buffer starts behind the last item parsed, and the wire behind the
\* buffer; together they end with the last item sent, or before it after a
\* reset.
Stream ==
  pc # "closed" =>
    /\ \A j \in 1 .. Len(in_buf) : in_buf[j] = At(parsed, j)
    /\ \A j \in 1 .. Len(wire) : wire[j] = At(parsed, Len(in_buf) + j)
    /\ Len(in_buf) + Len(wire) <= 2 * (Len(sent) - parsed)
    /\ ~ lost => Len(in_buf) + Len(wire) = 2 * (Len(sent) - parsed)

ResetLosesAll == lost => fin /\ wire = <<>>

\* Nothing is parsed that was not sent.
ParsedWasSent == upgraded <= parsed /\ parsed <= Len(sent)

\* Before the upgrade nothing is parsed but a request that ends the connection.
BeforeUpgrade ==
  state = "Handshake" =>
    /\ upgraded = 0 /\ dispatched = <<>>
    /\ pc # "frames"
    /\ pc # "closed" => parsed = 0 /\ replies = <<>>

AfterUpgrade == state = "Open" => upgraded >= 1 /\ sent[upgraded] = "upgrade"

\* DispatchedOnce says what was parsed was what the client sent only because
\* the buffer is in step; InStep in turn, which says nothing once the kernel
\* lost what it held, must be kept for the part of the stream that was read.
IInv ==
  /\ Typed
  /\ Stream
  /\ ResetLosesAll
  /\ ParsedWasSent
  /\ BeforeUpgrade
  /\ AfterUpgrade
  /\ DispatchedOnce
  /\ AnsweredInTurn
  /\ NothingAfterTheEnd

-----------------------------------------------------------------------------
(* Operators. *)

\* A set of places has a first one.
LEMMA FirstExists ==
  ASSUME NEW S \in SUBSET Nat, S # {}
  PROVE  First(S) \in S
<1>1. PICK R : /\ IsWellFoundedOn(R, Nat)
               /\ \A x, y \in Nat : <<x, y>> \in R <=> x < y
  <2>1. IsWellFoundedOn({ss \in Nat \X Nat : ss[1] < ss[2]}, Nat)
    BY NatLessThanWellFounded DEF OpToRel
  <2> QED
    BY <2>1
<1>2. \A T : T \subseteq Nat /\ T # {} =>
        \E x \in T : \A y \in T : ~ (<<y, x>> \in R)
  <2>1. IsWellFoundedOn(R, Nat)
    BY <1>1
  <2> QED
    BY <2>1, WFMin, Zenon
<1>3. PICK x \in S : \A y \in S : ~ (<<y, x>> \in R)
  BY <1>2
<1>4. \A y \in S : ~ (y < x)
  BY <1>1, <1>3
<1>5. \A y \in S : x <= y
  BY <1>4
<1> QED
  BY <1>5 DEF First

\* Appending what is larger than all listed.
LEMMA ListsMore ==
  ASSUME NEW items \in Seq(Nat), NEW set, Lists(items, set),
         NEW i \in Nat, \A k \in set : k < i
  PROVE  Lists(Append(items, i), set \union {i})
<1> DEFINE more == Append(items, i)
<1>1. /\ Len(more) = Len(items) + 1
      /\ DOMAIN more = 1 .. Len(items) + 1
      /\ \A j \in 1 .. Len(items) : more[j] = items[j]
      /\ more[Len(items) + 1] = i
  BY AppendProperties
<1>2. DOMAIN items = 1 .. Len(items) /\ Len(items) \in Nat
  OBVIOUS
<1>3. \A j \in 1 .. Len(items) : items[j] \in set
  BY <1>2 DEF Lists
<1> HIDE DEF more
<1>4. \A j, k \in DOMAIN more : j < k => more[j] < more[k]
  BY <1>1, <1>2, <1>3 DEF Lists
<1>5. {more[j] : j \in DOMAIN more} = set \union {i}
  <2>1. \A x : (\E j \in DOMAIN more : x = more[j]) =>
                 x = i \/ \E j \in DOMAIN items : x = items[j]
    BY <1>1, <1>2
  <2>2. \A x : x = i \/ (\E j \in DOMAIN items : x = items[j]) =>
                 \E j \in DOMAIN more : x = more[j]
    BY <1>1, <1>2
  <2> QED
    BY <2>1, <2>2 DEF Lists
<1> QED
  BY <1>4, <1>5 DEF Lists, more

\* A read moves tokens from the wire to the buffer and keeps the stream.
LEMMA ReceivedInStep ==
  ASSUME Typed, Stream, pc # "closed", ParsedWasSent, NEW n \in 1 .. Len(wire)
  PROVE  LET buf == Received(n)  rest == Rest(wire, n) IN
         /\ buf \in Seq(TokenSet) /\ rest \in Seq(TokenSet)
         /\ Len(buf) = Len(in_buf) + n /\ Len(rest) = Len(wire) - n
         /\ \A j \in 1 .. Len(buf) : buf[j] = At(parsed, j)
         /\ \A j \in 1 .. Len(rest) : rest[j] = At(parsed, Len(buf) + j)
<1> DEFINE taken == SubSeq(wire, 1, n)
<1> DEFINE rest == SubSeq(wire, n + 1, Len(wire))
<1>1. Len(wire) \in Nat /\ Len(in_buf) \in Nat /\ n \in Int /\ n + 1 \in Int
  BY DEF Typed
<1>2. /\ taken \in Seq(TokenSet) /\ Len(taken) = n
      /\ \A j \in 1 .. n : taken[j] = wire[j]
  <2>1. \A j \in 1 .. n : wire[j] \in TokenSet
    BY <1>1 DEF Typed
  <2> QED
    BY <1>1, <2>1, SubSeqProperties
<1>3. /\ rest \in Seq(TokenSet) /\ Len(rest) = Len(wire) - n
      /\ \A j \in 1 .. Len(wire) - n : rest[j] = wire[n + j]
  <2>1. \A j \in n + 1 .. Len(wire) : wire[j] \in TokenSet
    BY <1>1 DEF Typed
  <2>2. /\ rest \in Seq(TokenSet)
        /\ Len(rest) = IF n + 1 <= Len(wire) THEN Len(wire) - (n + 1) + 1 ELSE 0
        /\ \A j \in 1 .. Len(wire) - (n + 1) + 1 : rest[j] = wire[(n + 1) + j - 1]
    BY <1>1, <2>1, SubSeqProperties
  <2> QED
    BY <1>1, <2>2
<1> HIDE DEF taken, rest
<1>4. /\ in_buf \o taken \in Seq(TokenSet)
      /\ Len(in_buf \o taken) = Len(in_buf) + n
      /\ \A j \in 1 .. Len(in_buf) + n : (in_buf \o taken)[j] =
           IF j <= Len(in_buf) THEN in_buf[j] ELSE taken[j - Len(in_buf)]
  BY <1>2, ConcatProperties DEF Typed
<1>5. \A j \in 1 .. Len(in_buf) + n : (in_buf \o taken)[j] = At(parsed, j)
  <2> SUFFICES ASSUME NEW j \in 1 .. Len(in_buf) + n
               PROVE  (in_buf \o taken)[j] = At(parsed, j)
    OBVIOUS
  <2>1. CASE j <= Len(in_buf)
    BY <2>1, <1>1, <1>4 DEF Stream
  <2>2. CASE ~ (j <= Len(in_buf))
    <3>1. j - Len(in_buf) \in 1 .. n /\ Len(in_buf) + (j - Len(in_buf)) = j
      BY <2>2, <1>1
    <3>2. wire[j - Len(in_buf)] = At(parsed, Len(in_buf) + (j - Len(in_buf)))
      BY <3>1, <1>1 DEF Stream
    <3> QED
      BY <3>1, <3>2, <2>2, <1>2, <1>4
  <2> QED
    BY <2>1, <2>2
<1>6. \A j \in 1 .. Len(rest) : rest[j] = At(parsed, Len(in_buf) + n + j)
  <2> SUFFICES ASSUME NEW j \in 1 .. Len(rest)
               PROVE  rest[j] = At(parsed, Len(in_buf) + n + j)
    OBVIOUS
  <2>1. n + j \in 1 .. Len(wire) /\ Len(in_buf) + (n + j) = Len(in_buf) + n + j
    BY <1>1, <1>3
  <2>2. rest[j] = wire[n + j]
    BY <1>1, <1>3
  <2>3. wire[n + j] = At(parsed, Len(in_buf) + (n + j))
    BY <2>1 DEF Stream
  <2> QED
    BY <2>1, <2>2, <2>3
<1> QED
  BY <1>3, <1>4, <1>5, <1>6 DEF Received, Rest, taken, rest

-----------------------------------------------------------------------------
(* The client's steps. *)

LEMMA InitInv == Init => IInv
<1> SUFFICES ASSUME Init PROVE IInv
  OBVIOUS
<1>1. Typed
  <2>1. \A S : <<>> \in Seq(S)
    OBVIOUS
  <2> QED
    BY <2>1, Zenon DEF Init, Typed
<1>2. ResetLosesAll /\ ParsedWasSent /\ BeforeUpgrade /\ AfterUpgrade
  BY DEF Init, ResetLosesAll, ParsedWasSent, BeforeUpgrade, AfterUpgrade
<1>3. Stream
  BY DEF Init, Stream
<1>4. DispatchedOnce
  BY DEF Init, DispatchedOnce, Lists
<1>5. AnsweredInTurn /\ NothingAfterTheEnd
  BY DEF Init, AnsweredInTurn, NothingAfterTheEnd
<1> QED
  BY <1>1, <1>2, <1>3, <1>4, <1>5 DEF IInv

\* What the history says of the items parsed stays true when more are sent.
LEMMA SendInv ==
  ASSUME IInv, NEW kind \in Kinds, Send(kind)
  PROVE  IInv'
<1> DEFINE N == Len(sent)
<1> DEFINE tokens == Tokens(N + 1)
<1> USE DEF IInv
<1>1. /\ Len(wire) \in Nat /\ Len(in_buf) \in Nat /\ N \in Nat
      /\ parsed \in Nat /\ upgraded \in Nat
  BY DEF Typed
<1>2. ~ lost /\ ~ fin
  BY DEF Send, ResetLosesAll
<1>3. /\ sent' \in Seq(Kinds) /\ Len(sent') = N + 1
      /\ \A i \in 1 .. N : sent'[i] = sent[i]
  BY AppendProperties DEF Send, Typed
<1>4. /\ tokens \in Seq(TokenSet) /\ Len(tokens) = 2
      /\ tokens[1] = Token(N + 1, "head") /\ tokens[2] = Token(N + 1, "tail")
  BY <1>1 DEF Tokens, Token, TokenSet
<1>5. /\ wire' \in Seq(TokenSet) /\ Len(wire') = Len(wire) + 2
      /\ \A j \in 1 .. Len(wire) : wire'[j] = wire[j]
      /\ wire'[Len(wire) + 1] = Token(N + 1, "head")
      /\ wire'[Len(wire) + 2] = Token(N + 1, "tail")
  <2> HIDE DEF tokens
  <2>1. /\ wire \o tokens \in Seq(TokenSet)
        /\ Len(wire \o tokens) = Len(wire) + 2
        /\ \A j \in 1 .. Len(wire) + 2 : (wire \o tokens)[j] =
             IF j <= Len(wire) THEN wire[j] ELSE tokens[j - Len(wire)]
    <3>1. wire \in Seq(TokenSet) /\ tokens \in Seq(TokenSet) /\ Len(tokens) = 2
      BY <1>4 DEF Typed
    <3>2. /\ wire \o tokens \in Seq(TokenSet)
          /\ Len(wire \o tokens) = Len(wire) + Len(tokens)
          /\ \A j \in 1 .. Len(wire) + Len(tokens) : (wire \o tokens)[j] =
               IF j <= Len(wire) THEN wire[j] ELSE tokens[j - Len(wire)]
      BY <3>1, ConcatProperties
    <3> QED
      BY <3>1, <3>2
  <2>2. wire' = wire \o tokens
    BY DEF Send, tokens
  <2>3. /\ ~ (Len(wire) + 1 <= Len(wire)) /\ (Len(wire) + 1) - Len(wire) = 1
        /\ ~ (Len(wire) + 2 <= Len(wire)) /\ (Len(wire) + 2) - Len(wire) = 2
        /\ Len(wire) + 1 \in 1 .. Len(wire) + 2
        /\ Len(wire) + 2 \in 1 .. Len(wire) + 2
        /\ \A j \in 1 .. Len(wire) : j \in 1 .. Len(wire) + 2 /\ j <= Len(wire)
    BY <1>1
  <2> QED
    BY <2>1, <2>2, <2>3, <1>4
<1>6. Typed'
  BY <1>3, <1>5 DEF Typed, Send
<1>7. Stream'
  <2> SUFFICES ASSUME pc # "closed"
               PROVE  Stream'
    BY DEF Stream, Send
  <2>1. Len(in_buf) + Len(wire) = 2 * (N - parsed)
    BY <1>2 DEF Stream
  <2>2. Len(in_buf') + Len(wire') = 2 * (Len(sent') - parsed')
    BY <2>1, <1>1, <1>3, <1>5 DEF Send
  <2>3. \A j \in 1 .. Len(in_buf') : in_buf'[j] = At(parsed', j)
    BY DEF Stream, Send
  <2>4. ASSUME NEW j \in 1 .. Len(wire')
        PROVE  wire'[j] = At(parsed', Len(in_buf') + j)
    <3>1. CASE j \in 1 .. Len(wire)
      BY <3>1, <1>5 DEF Stream, Send
    <3>2. CASE j = Len(wire) + 1
      <4>1. Len(in_buf) + j = 2 * (N - parsed) + 1
        BY <3>2, <2>1, <1>1
      <4>2. /\ parsed + ((Len(in_buf) + j) + 1) \div 2 = N + 1
            /\ (Len(in_buf) + j) % 2 = 1
        BY <4>1, <1>1
      <4> QED
        BY <4>2, <3>2, <1>5 DEF At, Send
    <3>3. CASE j = Len(wire) + 2
      <4>1. Len(in_buf) + j = 2 * (N - parsed) + 2
        BY <3>3, <2>1, <1>1
      <4>2. /\ parsed + ((Len(in_buf) + j) + 1) \div 2 = N + 1
            /\ (Len(in_buf) + j) % 2 # 1
        BY <4>1, <1>1
      <4> QED
        BY <4>2, <3>3, <1>5 DEF At, Send
    <3> QED
      BY <3>1, <3>2, <3>3, <1>1, <1>5
  <2>5. Len(in_buf') + Len(wire') <= 2 * (Len(sent') - parsed')
    BY <2>2, <1>1, <1>3, <1>5 DEF Send
  <2> QED
    BY <2>2, <2>3, <2>4, <2>5 DEF Stream
<1>8. ResetLosesAll' /\ BeforeUpgrade'
  BY <1>2 DEF ResetLosesAll, BeforeUpgrade, Send
<1>9. ParsedWasSent'
  BY <1>1, <1>3 DEF ParsedWasSent, Send
<1>10. \A i \in upgraded .. parsed : i >= 1 => sent'[i] = sent[i]
  BY <1>1, <1>3 DEF ParsedWasSent
<1>11. AfterUpgrade'
  BY <1>1, <1>10 DEF AfterUpgrade, ParsedWasSent, Send
<1>12. \A kinds : Parsed(kinds)' = Parsed(kinds)
  <2> SUFFICES ASSUME NEW kinds
               PROVE  {i \in upgraded' + 1 .. parsed' : sent'[i] \in kinds}
                        = {i \in upgraded + 1 .. parsed : sent[i] \in kinds}
    BY DEF Parsed
  <2>1. \A i \in upgraded + 1 .. parsed : sent'[i] = sent[i]
    BY <1>1, <1>10
  <2> QED
    BY <2>1 DEF Send
<1>13. DispatchedOnce'
  BY <1>12 DEF DispatchedOnce, Send
<1>14. AnsweredInTurn'
  <2> SUFFICES ASSUME state = "Open"
               PROVE  AnsweredInTurn'
    BY DEF AnsweredInTurn, Send
  <2> DEFINE items == [k \in DOMAIN replies |-> replies[k].item]
  <2>1. Lists(items, {upgraded} \union Parsed({"ping", "close"}))
    BY DEF AnsweredInTurn
  <2>2. \A k \in DOMAIN replies :
          replies[k].item \in upgraded .. parsed /\ replies[k].item >= 1
    <3>1. \A k \in DOMAIN replies : items[k] = replies[k].item
      OBVIOUS
    <3>2. \A k \in DOMAIN replies :
            items[k] \in {upgraded} \union Parsed({"ping", "close"})
      BY <2>1 DEF Lists
    <3>3. {upgraded} \union Parsed({"ping", "close"}) \subseteq upgraded .. parsed
      BY <1>1 DEF Parsed, ParsedWasSent
    <3>4. upgraded >= 1
      BY DEF AfterUpgrade
    <3> HIDE DEF items
    <3> QED
      BY <3>1, <3>2, <3>3, <3>4, <1>1
  <2>3. \A k \in DOMAIN replies : sent'[replies[k].item] = sent[replies[k].item]
    BY <2>2, <1>10
  <2> QED
    BY <2>3, <1>12 DEF AnsweredInTurn, Send
<1>15. NothingAfterTheEnd'
  <2>1. \A i \in upgraded + 1 .. parsed : sent'[i] = sent[i]
    BY <1>1, <1>10
  <2> QED
    BY <2>1 DEF NothingAfterTheEnd, Send
<1> QED
  BY <1>6, <1>7, <1>8, <1>9, <1>11, <1>13, <1>14, <1>15

\* Steps that parse nothing and take nothing from the wire but to lose it.
LEMMA QuietInv ==
  ASSUME IInv,
         \/ Shutdown \/ Reset \/ ReadEnd \/ WaitForMore \/ MalformedFrame
         \/ UNCHANGED vars
  PROVE  IInv'
<1> USE DEF IInv
<1>1. /\ UNCHANGED <<in_buf, sent, upgraded, parsed, replies, dispatched, state>>
      /\ pc' = pc \/ pc' = "closed" \/ (pc = "frames" /\ pc' = "idle")
  BY DEF Shutdown, Reset, ReadEnd, WaitForMore, MalformedFrame, vars
<1>2. Typed'
  <2>1. wire' \in Seq(TokenSet)
    <3>1. wire' = wire \/ wire' = <<>>
      BY DEF Shutdown, Reset, ReadEnd, WaitForMore, MalformedFrame, vars
    <3>2. wire \in Seq(TokenSet) /\ <<>> \in Seq(TokenSet)
      BY DEF Typed
    <3> QED
      BY <3>1, <3>2, Zenon
  <2>2. fin' \in BOOLEAN /\ lost' \in BOOLEAN
    BY DEF Typed, Shutdown, Reset, ReadEnd, WaitForMore, MalformedFrame, vars
  <2> QED
    BY <1>1, <2>1, <2>2, Zenon DEF Typed
<1>3. ResetLosesAll'
  BY DEF ResetLosesAll, Shutdown, Reset, ReadEnd, WaitForMore, MalformedFrame, vars
<1>4. Stream'
  <2> SUFFICES ASSUME pc # "closed"
               PROVE  Stream'
    BY <1>1 DEF Stream
  <2>1. CASE wire' = wire /\ lost' = lost
    BY <1>1, <2>1 DEF Stream
  <2>2. CASE wire' = <<>> /\ lost'
    <3>1. Len(in_buf) \in Nat /\ Len(wire) \in Nat /\ Len(sent) \in Nat /\ parsed \in Nat
      BY DEF Typed
    <3>2. Len(in_buf) <= 2 * (Len(sent) - parsed)
      BY <3>1 DEF Stream
    <3> QED
      BY <1>1, <2>2, <3>1, <3>2 DEF Stream
  <2> QED
    BY <2>1, <2>2 DEF Shutdown, Reset, ReadEnd, WaitForMore, MalformedFrame, vars
<1>5. ParsedWasSent' /\ BeforeUpgrade' /\ AfterUpgrade'
  BY <1>1 DEF ParsedWasSent, BeforeUpgrade, AfterUpgrade
<1>6. \A kinds : Parsed(kinds)' = Parsed(kinds)
  BY <1>1 DEF Parsed
<1>7. DispatchedOnce' /\ AnsweredInTurn'
  BY <1>1, <1>6 DEF DispatchedOnce, AnsweredInTurn
<1>8. NothingAfterTheEnd'
  <2>1. pc = "closed" => pc' = "closed"
    BY DEF Shutdown, Reset, ReadEnd, WaitForMore, MalformedFrame, vars
  <2> QED
    BY <1>1, <2>1 DEF NothingAfterTheEnd
<1> QED
  BY <1>2, <1>3, <1>4, <1>5, <1>7, <1>8

-----------------------------------------------------------------------------
(* Connection::Read. *)

\* The stream behind item n + k is the stream behind item n, 2k tokens on.
LEMMA AtShift ==
  ASSUME NEW n \in Nat, NEW k \in Nat, NEW j \in Nat
  PROVE  At(n, 2 * k + j) = At(n + k, j)
<1>1. n + ((2 * k + j) + 1) \div 2 = (n + k) + (j + 1) \div 2
  OBVIOUS
<1>2. (2 * k + j) % 2 = j % 2
  OBVIOUS
<1> QED
  BY <1>1, <1>2 DEF At

\* What is kept of a sequence behind its first n.
LEMMA RestOf ==
  ASSUME NEW S, NEW s \in Seq(S), NEW n \in 0 .. Len(s)
  PROVE  /\ Rest(s, n) \in Seq(S) /\ Len(Rest(s, n)) = Len(s) - n
         /\ \A j \in 1 .. Len(s) - n : Rest(s, n)[j] = s[n + j]
<1>1. \A j \in n + 1 .. Len(s) : s[j] \in S
  OBVIOUS
<1>2. n + 1 \in Int /\ Len(s) \in Int
  OBVIOUS
<1>3. /\ SubSeq(s, n + 1, Len(s)) \in Seq(S)
      /\ Len(SubSeq(s, n + 1, Len(s))) =
           IF n + 1 <= Len(s) THEN Len(s) - (n + 1) + 1 ELSE 0
      /\ \A j \in 1 .. Len(s) - (n + 1) + 1 :
           SubSeq(s, n + 1, Len(s))[j] = s[(n + 1) + j - 1]
  BY <1>1, <1>2, SubSeqProperties
<1>4. /\ Len(s) - (n + 1) + 1 = Len(s) - n
      /\ \A j \in 1 .. Len(s) - n : (n + 1) + j - 1 = n + j
      /\ ~ (n + 1 <= Len(s)) => Len(s) - n = 0
  OBVIOUS
<1> QED
  BY <1>3, <1>4 DEF Rest

\* A read that only adds to the buffer.
LEMMA MoreReadInv ==
  ASSUME IInv, NEW n \in 1 .. Len(wire), ReadPartOfRequest(n) \/ ReadFrames(n)
  PROVE  IInv'
<1> USE DEF IInv
<1>1. /\ in_buf' = Received(n) /\ wire' = Rest(wire, n)
      /\ UNCHANGED <<fin, state, replies, dispatched, sent, upgraded, parsed, lost>>
      /\ pc = "idle" /\ pc' \in {"idle", "frames"}
      /\ pc' = "frames" => state = "Open"
  BY DEF ReadPartOfRequest, ReadFrames
<1>2. /\ in_buf' \in Seq(TokenSet) /\ wire' \in Seq(TokenSet)
      /\ Len(in_buf') = Len(in_buf) + n /\ Len(wire') = Len(wire) - n
      /\ \A j \in 1 .. Len(in_buf') : in_buf'[j] = At(parsed, j)
      /\ \A j \in 1 .. Len(wire') : wire'[j] = At(parsed, Len(in_buf') + j)
  BY <1>1, ReceivedInStep
<1>3. Typed'
  BY <1>1, <1>2 DEF Typed
<1>4. Stream'
  <2>1. /\ Len(in_buf) \in Nat /\ Len(wire) \in Nat
        /\ Len(in_buf') + Len(wire') = Len(in_buf) + Len(wire)
    BY <1>2 DEF Typed
  <2> QED
    BY <1>1, <1>2, <2>1 DEF Stream
<1>5. ResetLosesAll'
  <2>1. ~ lost
    BY DEF ResetLosesAll, Typed
  <2> QED
    BY <1>1, <2>1 DEF ResetLosesAll
<1>6. ParsedWasSent' /\ BeforeUpgrade' /\ AfterUpgrade'
  BY <1>1 DEF ParsedWasSent, BeforeUpgrade, AfterUpgrade
<1>7. \A kinds : Parsed(kinds)' = Parsed(kinds)
  BY <1>1 DEF Parsed
<1>8. DispatchedOnce' /\ AnsweredInTurn' /\ NothingAfterTheEnd'
  BY <1>1, <1>7 DEF DispatchedOnce, AnsweredInTurn, NothingAfterTheEnd
<1> QED
  BY <1>3, <1>4, <1>5, <1>6, <1>8

\* A read that completes the request: it is the first item whose tail the
\* buffer holds that is a request; what is behind it stays.
LEMMA RequestInv ==
  ASSUME IInv, NEW n \in 1 .. Len(wire), ReadRequest(n)
  PROVE  IInv'
<1> USE DEF IInv
<1> DEFINE buf == Received(n)
<1> DEFINE end == First(RequestEnds(buf))
<1> DEFINE item == buf[end].item
<1>1. /\ pc = "idle" /\ state = "Handshake" /\ parsed = 0 /\ upgraded = 0
      /\ replies = <<>> /\ dispatched = <<>>
      /\ RequestEnds(buf) # {}
      /\ wire' = Rest(wire, n) /\ in_buf' = Rest(buf, end) /\ parsed' = item
      /\ UNCHANGED <<fin, dispatched, sent, lost>>
  BY DEF ReadRequest, BeforeUpgrade, KeepPipelined
<1>2. /\ Kind(buf[end]) = "upgrade"
      /\ state' = "Open" /\ upgraded' = item /\ pc' = "idle"
      /\ replies' = Append(replies, Reply("101", item))
   \/ /\ state' = "Handshake" /\ upgraded' = 0 /\ pc' = "closed"
      /\ replies' = Append(replies, Reply("426", item))
  BY <1>1 DEF ReadRequest
<1>3. /\ buf \in Seq(TokenSet) /\ wire' \in Seq(TokenSet)
      /\ Len(buf) = Len(in_buf) + n /\ Len(wire') = Len(wire) - n
      /\ \A j \in 1 .. Len(buf) : buf[j] = At(0, j)
      /\ \A j \in 1 .. Len(wire') : wire'[j] = At(0, Len(buf) + j)
  BY <1>1, ReceivedInStep
<1> HIDE DEF buf
<1>4. /\ Len(wire) \in Nat /\ Len(in_buf) \in Nat /\ Len(sent) \in Nat
      /\ Len(buf) \in Nat /\ Len(wire') \in Nat
      /\ Len(buf) + Len(wire') <= 2 * Len(sent)
      /\ ~ lost => Len(buf) + Len(wire') = 2 * Len(sent)
  <2>1. /\ Len(wire) \in Nat /\ Len(in_buf) \in Nat /\ Len(sent) \in Nat
        /\ Len(buf) \in Nat /\ Len(wire') \in Nat
    BY <1>3 DEF Typed
  <2>2. /\ Len(in_buf) + Len(wire) <= 2 * (Len(sent) - 0)
        /\ ~ lost => Len(in_buf) + Len(wire) = 2 * (Len(sent) - 0)
    BY <1>1 DEF Stream
  <2>3. Len(buf) + Len(wire') = Len(in_buf) + Len(wire)
    BY <1>3, <2>1
  <2>4. 2 * (Len(sent) - 0) = 2 * Len(sent)
    BY <2>1
  <2> QED
    BY <2>1, <2>2, <2>3, <2>4
<1>5. end \in 1 .. Len(buf) /\ buf[end].part = "tail" /\ buf[end] = At(0, end)
  <2>1. RequestEnds(buf) \in SUBSET Nat
    BY <1>3 DEF RequestEnds
  <2>2. end \in RequestEnds(buf)
    BY <1>1, <2>1, FirstExists
  <2> QED
    BY <2>2, <1>3 DEF RequestEnds
<1> HIDE DEF end
<1>6. item \in Nat /\ 2 * item = end /\ item >= 1 /\ item <= Len(sent)
  <2>1. end % 2 # 1
    BY <1>5 DEF At, Token
  <2>2. item = (end + 1) \div 2
    BY <1>5 DEF At, Token
  <2> QED
    BY <2>1, <2>2, <1>4, <1>5
<1> HIDE DEF item
<1>7. /\ in_buf' \in Seq(TokenSet) /\ Len(in_buf') \in Nat
      /\ Len(in_buf') = Len(buf) - 2 * item
      /\ \A j \in 1 .. Len(in_buf') : in_buf'[j] = buf[2 * item + j]
  <2>1. end \in 0 .. Len(buf)
    BY <1>5
  <2>2. /\ in_buf' \in Seq(TokenSet) /\ Len(in_buf') = Len(buf) - end
        /\ \A j \in 1 .. Len(buf) - end : in_buf'[j] = buf[end + j]
    BY <1>1, <1>3, <2>1, RestOf
  <2>3. Len(buf) - end \in Nat
    BY <2>1, <1>4
  <2> QED
    BY <2>2, <2>3, <1>6
<1>8. ASSUME NEW j \in 1 .. Len(in_buf')
      PROVE  in_buf'[j] = At(item, j)
  <2>1. j \in Nat /\ 2 * item + j \in 1 .. Len(buf)
    BY <1>4, <1>6, <1>7
  <2>2. in_buf'[j] = At(0, 2 * item + j)
    BY <2>1, <1>3, <1>7
  <2>3. At(0, 2 * item + j) = At(0 + item, j)
    BY <2>1, <1>6, AtShift
  <2>4. 0 + item = item
    BY <1>6
  <2> QED
    BY <2>2, <2>3, <2>4
<1>9. ASSUME NEW j \in 1 .. Len(wire')
      PROVE  wire'[j] = At(item, Len(in_buf') + j)
  <2>1. /\ Len(in_buf') + j \in Nat
        /\ Len(buf) + j = 2 * item + (Len(in_buf') + j)
    BY <1>4, <1>6, <1>7
  <2>2. wire'[j] = At(0, 2 * item + (Len(in_buf') + j))
    BY <2>1, <1>3
  <2>3. At(0, 2 * item + (Len(in_buf') + j)) = At(0 + item, Len(in_buf') + j)
    BY <2>1, <1>6, AtShift
  <2>4. 0 + item = item
    BY <1>6
  <2> QED
    BY <2>2, <2>3, <2>4
<1>10. Stream'
  <2>1. /\ Len(in_buf') + Len(wire') <= 2 * (Len(sent) - item)
        /\ ~ lost => Len(in_buf') + Len(wire') = 2 * (Len(sent) - item)
    BY <1>4, <1>6, <1>7
  <2> QED
    BY <1>1, <1>8, <1>9, <2>1 DEF Stream
<1>11. ResetLosesAll'
  <2>1. ~ lost
    BY DEF ResetLosesAll, Typed
  <2> QED
    BY <1>1, <2>1 DEF ResetLosesAll
<1>12. /\ replies' \in Seq(ReplySet)
       /\ Len(replies') = 1 /\ DOMAIN replies' = {1}
       /\ state' = "Open" => replies'[1] = Reply("101", item)
  <2>1. ASSUME NEW answer \in {"101", "426"}
        PROVE  LET r == Append(<<>>, Reply(answer, item)) IN
               /\ r \in Seq(ReplySet)
               /\ Len(r) = 1 /\ DOMAIN r = {1} /\ r[1] = Reply(answer, item)
    <3>1. Reply(answer, item) \in ReplySet
      BY <1>6 DEF Reply, ReplySet
    <3>2. <<>> \in Seq(ReplySet) /\ Len(<<>>) = 0
      OBVIOUS
    <3> DEFINE r == Append(<<>>, Reply(answer, item))
    <3>3. r \in Seq(ReplySet) /\ Len(r) = 1
      BY <3>1, <3>2, AppendProperties
    <3>4. r[1] = Reply(answer, item)
      OBVIOUS
    <3> HIDE DEF r
    <3>5. DOMAIN r = {1}
      BY <3>3
    <3> QED
      BY <3>3, <3>4, <3>5 DEF r
  <2> QED
    BY <1>1, <1>2, <2>1
<1>13. Typed'
  BY <1>1, <1>2, <1>3, <1>6, <1>7, <1>12 DEF Typed
<1>14. ParsedWasSent' /\ BeforeUpgrade'
  BY <1>1, <1>2, <1>4, <1>6 DEF ParsedWasSent, BeforeUpgrade
<1>15. AfterUpgrade'
  <2>1. Kind(buf[end]) = sent[item]
    BY DEF Kind, item
  <2> QED
    BY <1>1, <1>2, <1>6, <2>1 DEF AfterUpgrade
<1>16. state' = "Open" => \A kinds : Parsed(kinds)' = {}
  BY <1>1, <1>2, <1>6 DEF Parsed
<1>17. DispatchedOnce'
  BY <1>1, <1>2, <1>16 DEF DispatchedOnce, Lists
<1>18. AnsweredInTurn'
  <2> SUFFICES ASSUME state' = "Open"
               PROVE  AnsweredInTurn'
    BY DEF AnsweredInTurn
  <2> DEFINE items == [k \in DOMAIN replies' |-> replies'[k].item]
  <2>1. DOMAIN items = {1} /\ items[1] = item
    BY <1>12 DEF Reply
  <2> HIDE DEF items
  <2>2. Lists(items, {item})
    BY <2>1, <1>6 DEF Lists
  <2>3. {upgraded'} \union Parsed({"ping", "close"})' = {item}
    BY <1>2, <1>16
  <2>4. \A k \in DOMAIN replies' :
          replies'[k].answer = AnswerTo[sent'[replies'[k].item]]
    <3>1. sent'[item] = "upgrade"
      BY <1>15, <1>2 DEF AfterUpgrade
    <3> QED
      BY <3>1, <1>12 DEF Reply, AnswerTo
  <2> QED
    BY <2>2, <2>3, <2>4 DEF AnsweredInTurn, items
<1>19. NothingAfterTheEnd'
  BY <1>1, <1>2, <1>6 DEF NothingAfterTheEnd
<1> QED
  BY <1>10, <1>11, <1>13, <1>14, <1>15, <1>17, <1>18, <1>19

-----------------------------------------------------------------------------
(* HandleFrames. *)

\* Two tokens are one item.
LEMMA OneItemLess ==
  ASSUME NEW b \in Nat, NEW w \in Nat, NEW n \in Nat, NEW d \in Nat
  PROVE  /\ b + w <= 2 * (n - d) => (b - 2) + w <= 2 * (n - (d + 1))
         /\ b + w = 2 * (n - d) => (b - 2) + w = 2 * (n - (d + 1))
OBVIOUS

\* The frame that an iteration takes is the next item the client sent.
LEMMA GotTheNext ==
  ASSUME IInv, NEW kinds, Got(kinds)
  PROVE  /\ state = "Open" /\ pc = "frames"
         /\ Head(in_buf).item = parsed + 1 /\ parsed + 1 \in 1 .. Len(sent)
         /\ sent[parsed + 1] \in kinds
         /\ in_buf' \in Seq(TokenSet) /\ parsed' = parsed + 1
         /\ UNCHANGED <<wire, fin, state, sent, upgraded, lost>>
         /\ Stream'
<1> USE DEF IInv
<1>1. /\ pc = "frames" /\ state = "Open" /\ parsed' = parsed + 1
      /\ UNCHANGED <<wire, fin, state, sent, upgraded, lost>>
      /\ in_buf' = Rest(in_buf, 2) /\ Len(in_buf) >= 2
      /\ Kind(Head(in_buf)) \in kinds
  BY DEF Got, GotOne, EraseFrame, BeforeUpgrade, Typed
<1>2. /\ Len(in_buf) \in Nat /\ Len(wire) \in Nat /\ Len(sent) \in Nat
      /\ parsed \in Nat /\ in_buf \in Seq(TokenSet)
  BY DEF Typed
<1>3. Head(in_buf).item = parsed + 1
  <2>1. Head(in_buf) = in_buf[1]
    BY <1>1, <1>2
  <2>2. in_buf[1] = At(parsed, 1)
    BY <1>1, <1>2 DEF Stream
  <2>3. (1 + 1) \div 2 = 1
    OBVIOUS
  <2> QED
    BY <2>1, <2>2, <2>3 DEF At, Token
<1>4. /\ Len(in_buf) + Len(wire) <= 2 * (Len(sent) - parsed)
      /\ ~ lost => Len(in_buf) + Len(wire) = 2 * (Len(sent) - parsed)
  BY <1>1 DEF Stream
<1>5. parsed + 1 \in 1 .. Len(sent)
  BY <1>1, <1>2, <1>4
<1>6. sent[parsed + 1] \in kinds
  BY <1>1, <1>3 DEF Kind
<1>7. /\ in_buf' \in Seq(TokenSet) /\ Len(in_buf') = Len(in_buf) - 2
      /\ Len(in_buf') \in Nat
      /\ \A j \in 1 .. Len(in_buf) - 2 : in_buf'[j] = in_buf[2 + j]
  <2>1. 2 \in 0 .. Len(in_buf) /\ Len(in_buf) - 2 \in Nat
    BY <1>1, <1>2
  <2>2. /\ in_buf' \in Seq(TokenSet) /\ Len(in_buf') = Len(in_buf) - 2
        /\ \A j \in 1 .. Len(in_buf) - 2 : in_buf'[j] = in_buf[2 + j]
    BY <1>1, <1>2, <2>1, RestOf
  <2> QED
    BY <2>1, <2>2
<1>8. ASSUME NEW j \in Nat
      PROVE  At(parsed, 2 + j) = At(parsed', j)
  <2>1. At(parsed, 2 * 1 + j) = At(parsed + 1, j)
    BY <1>2, AtShift
  <2> QED
    BY <2>1, <1>1
<1>9. Stream'
  <2>1. ASSUME NEW j \in 1 .. Len(in_buf')
        PROVE  in_buf'[j] = At(parsed', j)
    <3>1. j \in Nat /\ j \in 1 .. Len(in_buf) - 2 /\ 2 + j \in 1 .. Len(in_buf)
      BY <1>1, <1>2, <1>7
    <3>2. in_buf[2 + j] = At(parsed, 2 + j)
      BY <3>1, <1>1 DEF Stream
    <3> QED
      BY <3>1, <3>2, <1>7, <1>8
  <2>2. ASSUME NEW j \in 1 .. Len(wire')
        PROVE  wire'[j] = At(parsed', Len(in_buf') + j)
    <3>1. j \in 1 .. Len(wire) /\ j \in Nat
      BY <1>1, <1>2
    <3>2. /\ Len(in_buf') + j \in Nat
          /\ Len(in_buf) + j = 2 + (Len(in_buf') + j)
      BY <3>1, <1>2, <1>7
    <3>3. wire[j] = At(parsed, 2 + (Len(in_buf') + j))
      BY <3>1, <3>2, <1>1 DEF Stream
    <3> QED
      BY <3>2, <3>3, <1>1, <1>8
  <2>3. /\ Len(in_buf') + Len(wire') <= 2 * (Len(sent') - parsed')
        /\ ~ lost' => Len(in_buf') + Len(wire') = 2 * (Len(sent') - parsed')
    <3>1. /\ Len(in_buf) + Len(wire) <= 2 * (Len(sent) - parsed)
               => (Len(in_buf) - 2) + Len(wire) <= 2 * (Len(sent) - (parsed + 1))
          /\ Len(in_buf) + Len(wire) = 2 * (Len(sent) - parsed)
               => (Len(in_buf) - 2) + Len(wire) = 2 * (Len(sent) - (parsed + 1))
      BY <1>2, OneItemLess
    <3>2. /\ Len(in_buf') = Len(in_buf) - 2 /\ parsed' = parsed + 1
          /\ wire' = wire /\ sent' = sent /\ lost' = lost
      BY <1>1, <1>7
    <3>3. /\ Len(in_buf') + Len(wire') = (Len(in_buf) - 2) + Len(wire)
          /\ 2 * (Len(sent') - parsed') = 2 * (Len(sent) - (parsed + 1))
      BY <3>2
    <3> HIDE DEF IInv
    <3> QED
      BY <1>4, <3>1, <3>2, <3>3
  <2> QED
    BY <2>1, <2>2, <2>3 DEF Stream
<1> QED
  BY <1>1, <1>3, <1>5, <1>6, <1>7, <1>9

\* The parts of the invariant that an iteration keeps whatever the frame is.
LEMMA GotInv ==
  ASSUME IInv, NEW kinds \in SUBSET Kinds, Got(kinds)
  PROVE  /\ ResetLosesAll' /\ ParsedWasSent' /\ BeforeUpgrade' /\ AfterUpgrade'
         /\ \A i \in upgraded + 1 .. parsed : sent[i] \notin {"close", "fragment"}
         /\ \A ks : Parsed(ks)' = Parsed(ks) \union
                (IF sent[parsed + 1] \in ks THEN {parsed + 1} ELSE {})
<1> USE DEF IInv
<1>1. /\ state = "Open" /\ pc = "frames" /\ parsed + 1 \in 1 .. Len(sent)
      /\ parsed' = parsed + 1
      /\ UNCHANGED <<wire, fin, state, sent, upgraded, lost>>
  BY GotTheNext
<1>2. parsed \in Nat /\ upgraded \in Nat /\ upgraded <= parsed
  BY DEF Typed, ParsedWasSent
<1>3. ResetLosesAll'
  BY <1>1 DEF ResetLosesAll
<1>4. ParsedWasSent'
  BY <1>1, <1>2 DEF ParsedWasSent
<1>5. BeforeUpgrade' /\ AfterUpgrade'
  BY <1>1 DEF BeforeUpgrade, AfterUpgrade
<1>6. \A i \in upgraded + 1 .. parsed : sent[i] \notin {"close", "fragment"}
  BY <1>1 DEF NothingAfterTheEnd
<1>7. ASSUME NEW ks
      PROVE  Parsed(ks)' = Parsed(ks) \union
               (IF sent[parsed + 1] \in ks THEN {parsed + 1} ELSE {})
  <2>1. upgraded + 1 .. parsed + 1 = (upgraded + 1 .. parsed) \union {parsed + 1}
    BY <1>2
  <2>2. Parsed(ks)' = {i \in upgraded + 1 .. parsed + 1 : sent[i] \in ks}
    BY <1>1 DEF Parsed
  <2> QED
    BY <2>1, <2>2 DEF Parsed
<1> QED
  BY <1>2, <1>3, <1>4, <1>5, <1>6, <1>7

\* A reply to the item just parsed.
LEMMA ReplyListed ==
  ASSUME IInv, NEW kind \in {"ping", "close"}, Got({kind}),
         replies' = Append(replies, Reply(AnswerTo[kind], Head(in_buf).item))
  PROVE  replies' \in Seq(ReplySet) /\ AnsweredInTurn'
<1> USE DEF IInv
<1> DEFINE n == parsed + 1
<1> DEFINE r == Reply(AnswerTo[kind], n)
<1>1. /\ state = "Open" /\ Head(in_buf).item = n /\ n \in 1 .. Len(sent)
      /\ sent[n] = kind
      /\ UNCHANGED <<state, sent, upgraded>>
  BY GotTheNext
<1>2. /\ replies \in Seq(ReplySet) /\ n \in Nat /\ parsed \in Nat
      /\ upgraded \in Nat /\ upgraded <= parsed
  BY DEF Typed, ParsedWasSent
<1>3. r \in ReplySet /\ r.item = n /\ r.answer = AnswerTo[kind]
  BY <1>2 DEF Reply, ReplySet, AnswerTo
<1> HIDE DEF r
<1>4. replies' = Append(replies, r)
  BY <1>1 DEF r
<1>5. /\ replies' \in Seq(ReplySet) /\ Len(replies') = Len(replies) + 1
      /\ \A k \in 1 .. Len(replies) : replies'[k] = replies[k]
      /\ replies'[Len(replies) + 1] = r
  BY <1>2, <1>3, <1>4, AppendProperties
<1>6. /\ DOMAIN replies = 1 .. Len(replies) /\ Len(replies) \in Nat
      /\ DOMAIN replies' = 1 .. Len(replies) + 1
  BY <1>2, <1>5
<1> DEFINE before == [k \in DOMAIN replies |-> replies[k].item]
<1> DEFINE after == [k \in DOMAIN replies' |-> replies'[k].item]
<1> DEFINE listed == {upgraded} \union Parsed({"ping", "close"})
<1>7. before \in Seq(Nat) /\ Len(before) = Len(replies)
  <2>1. \A k \in 1 .. Len(replies) : replies[k] \in ReplySet
    BY <1>2, <1>6
  <2>2. \A k \in 1 .. Len(replies) : replies[k].item \in Nat
    BY <2>1 DEF ReplySet
  <2> QED
    BY <2>2, <1>6
<1>8. after = Append(before, n)
  <2>1. Append(before, n) = [k \in 1 .. Len(before) + 1 |->
                               IF k = Len(before) + 1 THEN n ELSE before[k]]
    BY <1>7
  <2>2. \A k \in 1 .. Len(replies) + 1 :
          replies'[k].item = IF k = Len(replies) + 1 THEN n ELSE before[k]
    BY <1>3, <1>5, <1>6
  <2> HIDE DEF before
  <2> QED
    BY <2>1, <2>2, <1>6, <1>7
<1>9. Lists(before, listed)
  BY <1>1 DEF AnsweredInTurn
<1>10. \A k \in listed : k < n
  BY <1>2 DEF Parsed
<1> HIDE DEF before, after, listed
<1>11. Lists(after, listed \union {n})
  BY <1>2, <1>7, <1>8, <1>9, <1>10, ListsMore
<1>12. {upgraded'} \union Parsed({"ping", "close"})' = listed \union {n}
  <2>1. Parsed({"ping", "close"})' = Parsed({"ping", "close"}) \union {n}
    BY <1>1, GotInv DEF Kinds, Frames
  <2> QED
    BY <2>1, <1>1 DEF listed
<1>13. \A k \in DOMAIN replies' :
         replies'[k].answer = AnswerTo[sent'[replies'[k].item]]
  <2>1. \A k \in 1 .. Len(replies) :
          replies[k].answer = AnswerTo[sent[replies[k].item]]
    BY <1>1, <1>6 DEF AnsweredInTurn
  <2>2. \A k \in DOMAIN replies' : k \in 1 .. Len(replies) \/ k = Len(replies) + 1
    BY <1>6
  <2> QED
    BY <2>1, <2>2, <1>1, <1>3, <1>5
<1> QED
  BY <1>5, <1>11, <1>12, <1>13 DEF AnsweredInTurn, after

\* An iteration that answers nothing.
LEMMA NothingListed ==
  ASSUME IInv, NEW kind \in Frames \ {"ping", "close"}, Got({kind}),
         UNCHANGED replies
  PROVE  AnsweredInTurn'
<1>1. /\ state = "Open" /\ sent[parsed + 1] = kind
      /\ UNCHANGED <<state, sent, upgraded>>
  BY GotTheNext
<1>2. Parsed({"ping", "close"})' = Parsed({"ping", "close"})
  <2>1. {kind} \in SUBSET Kinds
    BY DEF Kinds
  <2>2. Parsed({"ping", "close"})' = Parsed({"ping", "close"}) \union
          (IF kind \in {"ping", "close"} THEN {parsed + 1} ELSE {})
    BY <1>1, <2>1, GotInv
  <2> QED
    BY <2>2
<1> QED
  BY <1>1, <1>2 DEF AnsweredInTurn, IInv

\* An iteration that dispatches nothing.
LEMMA NothingDispatched ==
  ASSUME IInv, NEW kind \in Frames \ {"text"}, Got({kind}),
         UNCHANGED dispatched
  PROVE  DispatchedOnce'
<1>1. /\ state = "Open" /\ sent[parsed + 1] = kind
      /\ UNCHANGED <<state, sent, upgraded>>
  BY GotTheNext
<1>2. Parsed({"text"})' = Parsed({"text"})
  <2>1. {kind} \in SUBSET Kinds
    BY DEF Kinds
  <2>2. Parsed({"text"})' = Parsed({"text"}) \union
          (IF kind \in {"text"} THEN {parsed + 1} ELSE {})
    BY <1>1, <2>1, GotInv
  <2> QED
    BY <2>2
<1> QED
  BY <1>1, <1>2 DEF DispatchedOnce, IInv

\* An iteration hands out messages only, once each, and answers what asks for
\* it; a frame that ends the connection is the last.
LEMMA FrameInv ==
  ASSUME IInv, FragmentedFrame \/ Message \/ Ping \/ Pong \/ Close
  PROVE  IInv'
<1>1. PICK kind \in Frames : Got({kind}) /\
        \/ kind = "fragment" /\ FragmentedFrame
        \/ kind = "text" /\ Message
        \/ kind = "ping" /\ Ping
        \/ kind = "pong" /\ Pong
        \/ kind = "close" /\ Close
  BY DEF FragmentedFrame, Message, Ping, Pong, Close, Frames
<1>2. /\ state = "Open" /\ pc = "frames" /\ state' = "Open"
      /\ Head(in_buf).item = parsed + 1
      /\ parsed + 1 \in 1 .. Len(sent) /\ parsed' = parsed + 1
      /\ sent[parsed + 1] = kind /\ in_buf' \in Seq(TokenSet) /\ Stream'
      /\ UNCHANGED <<wire, fin, state, sent, upgraded, lost>>
  BY <1>1, GotTheNext
<1>3. /\ ResetLosesAll' /\ ParsedWasSent' /\ BeforeUpgrade' /\ AfterUpgrade'
      /\ \A i \in upgraded + 1 .. parsed : sent[i] \notin {"close", "fragment"}
      /\ Parsed({"text"})' = Parsed({"text"}) \union
           (IF kind = "text" THEN {parsed + 1} ELSE {})
  <2>1. {kind} \in SUBSET Kinds
    BY DEF Kinds
  <2> QED
    BY <1>1, <1>2, <2>1, GotInv
<1>4. pc' = IF kind \in {"close", "fragment"} THEN "closed" ELSE "frames"
  BY <1>1, <1>2 DEF FragmentedFrame, Message, Ping, Pong, Close
<1>5. dispatched' \in Seq(Nat) /\ DispatchedOnce'
  <2>1. CASE kind = "text"
    <3>1. dispatched' = Append(dispatched, parsed + 1)
      BY <1>1, <1>2, <2>1 DEF Message
    <3>2. /\ dispatched \in Seq(Nat) /\ parsed \in Nat /\ parsed + 1 \in Nat
          /\ Lists(dispatched, Parsed({"text"}))
      BY <1>2 DEF IInv, Typed, DispatchedOnce
    <3>3. \A k \in Parsed({"text"}) : k < parsed + 1
      BY <3>2 DEF Parsed, IInv, Typed
    <3>4. Lists(dispatched', Parsed({"text"}) \union {parsed + 1})
      BY <3>1, <3>2, <3>3, ListsMore
    <3>5. Parsed({"text"})' = Parsed({"text"}) \union {parsed + 1}
      BY <1>3, <2>1
    <3>6. DispatchedOnce'
      BY <3>4, <3>5, <1>2 DEF DispatchedOnce
    <3>7. dispatched' \in Seq(Nat)
      BY <3>1, <3>2
    <3> QED
      BY <3>6, <3>7
  <2>2. CASE kind # "text"
    <3>1. UNCHANGED dispatched
      BY <1>1, <2>2 DEF FragmentedFrame, Ping, Pong, Close
    <3>2. DispatchedOnce'
      BY <1>1, <2>2, <3>1, NothingDispatched
    <3> QED
      BY <3>1, <3>2 DEF IInv, Typed
  <2> QED
    BY <2>1, <2>2
<1>6. replies' \in Seq(ReplySet) /\ AnsweredInTurn'
  <2>1. CASE kind \in {"ping", "close"}
    <3>1. replies' = Append(replies, Reply(AnswerTo[kind], Head(in_buf).item))
      BY <1>1, <2>1 DEF Ping, Close, AnswerTo
    <3> QED
      BY <1>1, <2>1, <3>1, ReplyListed
  <2>2. CASE kind \notin {"ping", "close"}
    <3>1. UNCHANGED replies
      BY <1>1, <2>2 DEF FragmentedFrame, Message, Pong
    <3>2. AnsweredInTurn'
      BY <1>1, <2>2, <3>1, NothingListed
    <3> QED
      BY <3>1, <3>2 DEF IInv, Typed
  <2> QED
    BY <2>1, <2>2
<1>7. Typed'
  <2>1. pc' \in {"idle", "frames", "closed"} /\ parsed' \in Nat
    BY <1>2, <1>4
  <2> QED
    BY <1>2, <1>5, <1>6, <2>1 DEF IInv, Typed
<1>8. NothingAfterTheEnd'
  <2>1. \A i \in upgraded' + 1 .. parsed' :
          i \in upgraded + 1 .. parsed \/ i = parsed'
    BY <1>2 DEF IInv, Typed
  <2> QED
    BY <1>2, <1>3, <1>4, <2>1 DEF NothingAfterTheEnd
<1> QED
  BY <1>2, <1>3, <1>5, <1>6, <1>7, <1>8 DEF IInv

-----------------------------------------------------------------------------
(* Theorems. *)

THEOREM Invariance == Spec => []IInv
<1>1. Init => IInv
  BY InitInv
<1>2. IInv /\ [Next]_vars => IInv'
  <2> SUFFICES ASSUME IInv, [Next]_vars
               PROVE  IInv'
    OBVIOUS
  <2>1. ASSUME NEW kind \in Kinds, Send(kind)
        PROVE  IInv'
    BY <2>1, SendInv
  <2>2. CASE Shutdown \/ Reset \/ ReadEnd \/ WaitForMore \/ MalformedFrame
               \/ UNCHANGED vars
    BY <2>2, QuietInv
  <2>3. ASSUME NEW n \in 1 .. Len(wire), ReadPartOfRequest(n) \/ ReadFrames(n)
        PROVE  IInv'
    BY <2>3, MoreReadInv
  <2>4. ASSUME NEW n \in 1 .. Len(wire), ReadRequest(n)
        PROVE  IInv'
    BY <2>4, RequestInv
  <2>5. CASE FragmentedFrame \/ Message \/ Ping \/ Pong \/ Close
    BY <2>5, FrameInv
  <2> QED
    BY <2>1, <2>2, <2>3, <2>4, <2>5 DEF Next, Read, HandleFrames
<1> QED
  BY <1>1, <1>2, PTL DEF Spec

\* However a client's stream is cut into reads, the parser stays in step with
\* it (Connection::Read, HandleHandshake, HandleFrames and ParseFrame's erase).
THEOREM StaysInStep == Spec => []InStep
<1>1. IInv => InStep
  <2> SUFFICES ASSUME IInv, pc # "closed", ~ lost
               PROVE  in_buf \o wire = [j \in 1 .. 2 * (Len(sent) - parsed) |->
                                          At(parsed, j)]
    BY DEF InStep, At
  <2> DEFINE L == Len(in_buf)
  <2>1. /\ in_buf \in Seq(TokenSet) /\ wire \in Seq(TokenSet)
        /\ L \in Nat /\ Len(wire) \in Nat
    BY DEF IInv, Typed
  <2>2. /\ L + Len(wire) = 2 * (Len(sent) - parsed)
        /\ \A j \in 1 .. L : in_buf[j] = At(parsed, j)
        /\ \A j \in 1 .. Len(wire) : wire[j] = At(parsed, L + j)
    BY DEF IInv, Stream
  <2>3. in_buf \o wire = [j \in 1 .. L + Len(wire) |->
                            IF j <= L THEN in_buf[j] ELSE wire[j - L]]
    <3>1. /\ in_buf \o wire \in Seq(TokenSet)
          /\ Len(in_buf \o wire) = L + Len(wire)
          /\ \A j \in 1 .. L + Len(wire) : (in_buf \o wire)[j] =
               IF j <= L THEN in_buf[j] ELSE wire[j - L]
      BY <2>1, ConcatProperties
    <3> DEFINE both == in_buf \o wire
    <3>2. both = [j \in 1 .. Len(both) |-> both[j]]
      <4>1. both \in Seq(TokenSet)
        BY <3>1
      <4> HIDE DEF both
      <4> QED
        BY <4>1
    <3> HIDE DEF both
    <3> QED
      BY <3>1, <3>2 DEF both
  <2>4. \A j \in 1 .. L + Len(wire) :
          (IF j <= L THEN in_buf[j] ELSE wire[j - L]) = At(parsed, j)
    <3> SUFFICES ASSUME NEW j \in 1 .. L + Len(wire)
                 PROVE  (IF j <= L THEN in_buf[j] ELSE wire[j - L]) = At(parsed, j)
      OBVIOUS
    <3>1. CASE j <= L
      BY <3>1, <2>1, <2>2
    <3>2. CASE ~ (j <= L)
      <4>1. j - L \in 1 .. Len(wire) /\ L + (j - L) = j
        BY <3>2, <2>1
      <4>2. wire[j - L] = At(parsed, L + (j - L))
        BY <4>1, <2>2
      <4> QED
        BY <4>1, <4>2, <3>2
    <3> QED
      BY <3>1, <3>2
  <2> QED
    BY <2>2, <2>3, <2>4
<1> QED
  BY <1>1, Invariance, PTL

\* Every message is dispatched once, in the order the client sent it, and
\* nothing else is dispatched (HandleFrames' loop and on_message_).
THEOREM DispatchesOnce == Spec => []DispatchedOnce
<1>1. IInv => DispatchedOnce
  BY DEF IInv
<1> QED
  BY <1>1, Invariance, PTL

\* The client is answered in the order of its frames, each that asks for an
\* answer once (HandleHandshake's and HandleFrames' writes).
THEOREM AnswersInTurn == Spec => []AnsweredInTurn
<1>1. IInv => AnsweredInTurn
  BY DEF IInv
<1> QED
  BY <1>1, Invariance, PTL

\* A Close or a fragment is the last frame parsed (HandleFrames' returns).
THEOREM TheEndIsTheEnd == Spec => []NothingAfterTheEnd
<1>1. IInv => NothingAfterTheEnd
  BY DEF IInv
<1> QED
  BY <1>1, Invariance, PTL

=============================================================================
