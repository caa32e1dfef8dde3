------------------------------- MODULE RtcProofs -------------------------------
(***************************************************************************)
(* Theorems about the peer connections of two pages, for any bounds on the *)
(* number of matches and of candidates: nothing of one match gets into the *)
(* next, and no candidate is lost while a match lasts.                     *)
(***************************************************************************)
EXTENDS Rtc, FiniteSetTheorems, TLAPS

-----------------------------------------------------------------------------
(* The inductive invariant. *)

Relays == {"offer", "answer", "ice"}

Request == [t : {"ask", "end"}] \union [t : Relays, of : Matches]

Message == [t : {"READY"}, of : Matches, role : {"host", "guest"}]
             \union [t : {"PEER_LEFT"}]
             \union [t : Relays, of : Matches]

Operation ==
  [op : {"createOffer", "setLocalOffer", "setRemoteOffer", "createAnswer",
         "setLocalAnswer", "setRemoteAnswer", "addIce"},
   of : Matches]

\* What the messages and the lobby are made of.
LobbyTyped ==
  /\ game \in [Pages -> Matches \union {None}]
  /\ asked \in [Pages -> BOOLEAN]
  /\ leaving \in [Pages -> BOOLEAN]
  /\ toServer \in [Pages -> Seq(Request)]
  /\ inbox \in [Pages -> Seq(Message)]
  /\ waiting \in Pages \union {Nobody}
  /\ match \in Matches \union {None}
  /\ made \in 0 .. MaxMatch

\* What the connections are made of.
ObjectsTyped ==
  /\ pc \in [Pages -> Matches \union {None}]
  /\ dc \in [Pages -> Matches \union {None}]
  /\ game \in [Pages -> Matches \union {None}]
  /\ role \in [Pages -> {"none", "host", "guest"}]
  /\ live \in [Pages -> SUBSET Matches]
  /\ local \in [Pages -> [Matches -> BOOLEAN]]
  /\ remote \in [Pages -> [Matches -> Matches \union {None}]]
  /\ undiscovered \in [Pages -> [Matches -> Nat]]
  /\ added \in [Pages -> [Matches -> Nat]]

\* The server hears last that a page is gone, and nothing but that after the
\* page has asked for a match.
EndComesLast ==
  \A s \in Pages :
    /\ \A i \in DOMAIN toServer[s] :
         toServer[s][i].t = "end" => leaving[s] /\ i = Len(toServer[s])
    /\ \A i, j \in DOMAIN toServer[s] :
         toServer[s][i].t = "ask" /\ i < j => toServer[s][j].t = "end"

\* What a page relays is of the match the server has it in, if it has.
RelaysAreOfTheMatch ==
  \A s \in Pages : \A i \in DOMAIN toServer[s] :
    toServer[s][i].t \in Relays => match \in {None, toServer[s][i].of}

\* Page s, if it is there, waits for its READY and for nothing else.
Expects(s) == ~ leaving[s] => inbox[s] = <<>> /\ game[s] = None /\ asked[s]

\* A page whose request is on its way is in no match.
AskingPages ==
  \A s \in Pages : \A i \in DOMAIN toServer[s] :
    toServer[s][i].t = "ask" => match = None /\ waiting # s /\ Expects(s)

\* The page that waits at the server has nothing to say but that it goes.
WaitingPage ==
  \A s \in Pages : waiting = s =>
    /\ match = None /\ Expects(s)
    /\ \A i \in DOMAIN toServer[s] : toServer[s][i].t = "end"

\* For a page on the menu the server has nothing, and has nothing to come.
MenuPages ==
  \A s \in Pages : ~ leaving[s] /\ game[s] = None /\ ~ asked[s] =>
    /\ match = None /\ waiting # s /\ inbox[s] = <<>>
    /\ \A i \in DOMAIN toServer[s] : toServer[s][i].t # "ask"

\* The match the lines on their way to page s are of.
Current(s) ==
  IF inbox[s] # <<>> /\ Head(inbox[s]).t = "READY" THEN Head(inbox[s]).of ELSE game[s]

\* The lines on their way to a page that is there: READY first and only to a
\* page without an engine, relays of that match, PEER_LEFT last and only when
\* the server has ended the match.
InboxInOrder(s) ==
  /\ match # None => Current(s) = match
  /\ \A i \in DOMAIN inbox[s] :
       /\ inbox[s][i].t = "READY" => i = 1 /\ game[s] = None
       /\ inbox[s][i].t = "PEER_LEFT" => i = Len(inbox[s]) /\ match = None
       /\ inbox[s][i].t \in Relays => inbox[s][i].of = Current(s)

PagesInOrder == \A s \in Pages : ~ leaving[s] => InboxInOrder(s)

\* A page that is gone plays nothing.
GonePages == \A s \in Pages : leaving[s] => game[s] = None

LobbyInv ==
  /\ LobbyTyped
  /\ EndComesLast
  /\ RelaysAreOfTheMatch
  /\ AskingPages
  /\ WaitingPage
  /\ MenuPages
  /\ PagesInOrder
  /\ GonePages

\* The operations of a connection are of its own match.
OfTheirMatch(chains) ==
  /\ chains \in [Pages -> [Matches -> Seq(Operation)]]
  /\ \A s \in Pages, m \in Matches :
       \A i \in DOMAIN chains[s][m] : chains[s][m][i].of = m

ObjectsInv ==
  /\ ObjectsTyped
  /\ OfTheirMatch(chain)
  /\ OneMatchAtATime

\* OneMatchAtATime alone is not inductive: a description of an earlier match
\* is kept out of the connection by the order of the lines that bring it.
IInv ==
  /\ LobbyInv
  /\ ObjectsInv

-----------------------------------------------------------------------------
(* Queues, and the two pages. *)

LEMMA Appended ==
  ASSUME NEW S, NEW q \in Seq(S), NEW x \in S
  PROVE  /\ Append(q, x) \in Seq(S) /\ Append(q, x) # <<>>
         /\ Len(Append(q, x)) = Len(q) + 1
         /\ \A i \in DOMAIN Append(q, x) :
              Append(q, x)[i] = IF i = Len(q) + 1 THEN x ELSE q[i]
         /\ \A i \in DOMAIN Append(q, x) : i # Len(q) + 1 => i \in DOMAIN q
         /\ Head(Append(q, x)) = IF q = <<>> THEN x ELSE Head(q)
  OBVIOUS

LEMMA Tailed ==
  ASSUME NEW S, NEW q \in Seq(S), q # <<>>
  PROVE  /\ Tail(q) \in Seq(S) /\ Len(Tail(q)) = Len(q) - 1 /\ Len(q) \in Nat
         /\ 1 \in DOMAIN q /\ Head(q) = q[1] /\ Head(q) \in S
         /\ \A i \in DOMAIN Tail(q) :
              i \in Nat /\ i + 1 \in DOMAIN q /\ Tail(q)[i] = q[i + 1]
         /\ Tail(q) # <<>> => 1 \in DOMAIN Tail(q) /\ Head(Tail(q)) = q[2]
                                /\ 2 \in DOMAIN q
  OBVIOUS

LEMMA TwoPages ==
  ASSUME NEW s \in Pages
  PROVE  /\ Other(s) \in Pages /\ Other(s) # s
         /\ Pages = {s, Other(s)}
<1>1. \E t \in Pages : t # s
  BY RtcAssumption
<1>2. Other(s) \in Pages /\ Other(s) # s
  BY <1>1 DEF Other
<1> QED
  BY <1>2, RtcAssumption

LEMMA NoneIsNoMatch == None \notin Matches
BY DEF None, Matches

-----------------------------------------------------------------------------
(* The steps of the lobby and of the lines. *)

LEMMA QuietLobby ==
  ASSUME LobbyInv, UNCHANGED <<game, asked, leaving, toServer, inbox, lobby>>
  PROVE  LobbyInv'
BY DEF lobby, LobbyInv, LobbyTyped, EndComesLast, RelaysAreOfTheMatch, AskingPages, Expects,
       WaitingPage, MenuPages, PagesInOrder, InboxInOrder, Current, GonePages

LEMMA AskLobby ==
  ASSUME LobbyInv, NEW s \in Pages, Ask(s)
  PROVE  LobbyInv'
<1> DEFINE ask == [t |-> "ask"]
           q   == toServer[s]
<1>1. /\ game[s] = None /\ ~ asked[s] /\ ~ leaving[s]
      /\ asked' = [asked EXCEPT ![s] = TRUE]
      /\ toServer' = [toServer EXCEPT ![s] = Append(q, ask)]
      /\ UNCHANGED <<game, leaving, inbox, waiting, match, made>>
  BY DEF Ask, Send, fields, lobby
<1>2. ask \in Request /\ q \in Seq(Request) /\ ask.t = "ask"
  BY DEF Request, LobbyInv, LobbyTyped
<1>3. /\ match = None /\ waiting # s /\ inbox[s] = <<>>
      /\ \A i \in DOMAIN q : q[i].t \notin {"ask", "end"}
  BY <1>1 DEF LobbyInv, MenuPages, EndComesLast
<1> DEFINE q1 == Append(q, ask)
<1>4. /\ q1 \in Seq(Request) /\ Len(q1) = Len(q) + 1 /\ Len(q) \in Nat
      /\ \A i \in DOMAIN q1 : i \in Nat /\ i <= Len(q1)
      /\ \A i \in DOMAIN q1 : i # Len(q1) => q1[i].t \notin {"ask", "end"}
      /\ \A i \in DOMAIN q1 : q1[i].t = "ask" => i = Len(q1)
      /\ \A i \in DOMAIN q1 : q1[i].t # "end"
  BY <1>2, <1>3, Appended
<1> HIDE DEF q1, q, ask
<1>5. LobbyTyped'
  BY <1>1, <1>4 DEF LobbyInv, LobbyTyped, q1
<1>6. /\ \A x \in Pages : x # s => toServer'[x] = toServer[x]
      /\ toServer'[s] = q1
  BY <1>1 DEF LobbyInv, LobbyTyped, q1
<1>7. EndComesLast'
  BY <1>1, <1>4, <1>6 DEF LobbyInv, EndComesLast
<1>8. RelaysAreOfTheMatch'
  BY <1>1, <1>3 DEF RelaysAreOfTheMatch
<1>9. AskingPages'
  BY <1>1, <1>3, <1>6 DEF LobbyInv, LobbyTyped, AskingPages, Expects
<1>10. WaitingPage'
  BY <1>1, <1>3, <1>6 DEF LobbyInv, LobbyTyped, WaitingPage, Expects
<1>11. MenuPages'
  BY <1>1, <1>6 DEF LobbyInv, LobbyTyped, MenuPages
<1>12. PagesInOrder' /\ GonePages'
  BY <1>1 DEF LobbyInv, PagesInOrder, InboxInOrder, Current, GonePages
<1> QED
  BY <1>5, <1>7, <1>8, <1>9, <1>10, <1>11, <1>12 DEF LobbyInv

LEMMA LeaveLobby ==
  ASSUME LobbyInv, NEW s \in Pages, Leave(s)
  PROVE  LobbyInv'
<1> DEFINE end == [t |-> "end"]
           q   == toServer[s]
           q1  == Append(q, end)
<1>1. /\ ~ leaving[s]
      /\ leaving' = [leaving EXCEPT ![s] = TRUE]
      /\ asked' = [asked EXCEPT ![s] = FALSE]
      /\ game' = [game EXCEPT ![s] = None]
      /\ toServer' = [toServer EXCEPT ![s] = q1]
      /\ inbox' = [inbox EXCEPT ![s] = <<>>]
      /\ UNCHANGED <<waiting, match, made>>
  BY DEF Leave, Stop, Send, lobby
<1>2. end \in Request /\ q \in Seq(Request) /\ end.t = "end"
  BY DEF Request, LobbyInv, LobbyTyped
<1>3. \A i \in DOMAIN q : q[i].t # "end"
  BY <1>1 DEF LobbyInv, EndComesLast
<1>4. /\ q1 \in Seq(Request) /\ Len(q1) = Len(q) + 1 /\ Len(q) \in Nat
      /\ \A i \in DOMAIN q1 : i \in Nat /\ i <= Len(q1)
      /\ \A i \in DOMAIN q1 : i # Len(q1) => i \in DOMAIN q /\ q1[i] = q[i]
      /\ \A i \in DOMAIN q1 : i = Len(q1) => q1[i].t = "end"
  BY <1>2, Appended
<1> HIDE DEF q1, q, end
<1>5. LobbyTyped'
  BY <1>1, <1>4, NoneIsNoMatch DEF LobbyInv, LobbyTyped
<1>6. /\ \A x \in Pages : x # s =>
           /\ toServer'[x] = toServer[x] /\ leaving'[x] = leaving[x]
           /\ game'[x] = game[x] /\ asked'[x] = asked[x] /\ inbox'[x] = inbox[x]
      /\ toServer'[s] = q1 /\ leaving'[s] /\ game'[s] = None
  BY <1>1 DEF LobbyInv, LobbyTyped
<1>7. EndComesLast'
  <2> SUFFICES ASSUME NEW x \in Pages
               PROVE  /\ \A i \in DOMAIN toServer'[x] :
                           toServer'[x][i].t = "end" => leaving'[x] /\ i = Len(toServer'[x])
                      /\ \A i, j \in DOMAIN toServer'[x] :
                           toServer'[x][i].t = "ask" /\ i < j => toServer'[x][j].t = "end"
    BY DEF EndComesLast
  <2>1. CASE x = s
    <3>1. \A i \in DOMAIN q1 : q1[i].t = "end" => i = Len(q1)
      BY <1>3, <1>4
    <3>2. \A i, j \in DOMAIN q1 : q1[i].t = "ask" /\ i < j => q1[j].t = "end"
      <4> SUFFICES ASSUME NEW i \in DOMAIN q1, NEW j \in DOMAIN q1, q1[i].t = "ask", i < j
                   PROVE  q1[j].t = "end"
        OBVIOUS
      <4>1. i # Len(q1)
        BY <1>4
      <4>2. CASE j # Len(q1)
        BY <1>4, <4>1, <4>2 DEF LobbyInv, EndComesLast, q
      <4> QED
        BY <1>4, <4>2
    <3> QED
      BY <1>6, <2>1, <3>1, <3>2
  <2>2. CASE x # s
    BY <1>6, <2>2 DEF LobbyInv, EndComesLast
  <2> QED
    BY <2>1, <2>2
<1>8. RelaysAreOfTheMatch'
  BY <1>1, <1>4, <1>6 DEF LobbyInv, RelaysAreOfTheMatch, Relays, q
<1>9. AskingPages'
  BY <1>1, <1>4, <1>6 DEF LobbyInv, AskingPages, Expects, q
<1>10. WaitingPage'
  BY <1>1, <1>4, <1>6 DEF LobbyInv, WaitingPage, Expects, q
<1>11. MenuPages'
  BY <1>1, <1>6 DEF LobbyInv, MenuPages
<1>12. PagesInOrder'
  BY <1>1, <1>6 DEF LobbyInv, PagesInOrder, InboxInOrder, Current
<1>13. GonePages'
  BY <1>6 DEF LobbyInv, GonePages
<1> QED
  BY <1>5, <1>7, <1>8, <1>9, <1>10, <1>11, <1>12, <1>13 DEF LobbyInv

\* The server takes the first line of page s.
LEMMA ReadFacts ==
  ASSUME LobbyInv, NEW s \in Pages, NEW t, ReadsFrom(s, t)
  PROVE  /\ toServer' \in [Pages -> Seq(Request)]
         /\ toServer[s] \in Seq(Request) /\ toServer[s] # <<>>
         /\ toServer'[s] = Tail(toServer[s])
         /\ \A x \in Pages : x # s => toServer'[x] = toServer[x]
         /\ 1 \in DOMAIN toServer[s] /\ Head(toServer[s]) = toServer[s][1]
         /\ Head(toServer[s]) \in Request /\ Head(toServer[s]).t = t
         /\ \A x \in Pages : \A i \in DOMAIN toServer'[x] :
              \E j \in DOMAIN toServer[x] : toServer'[x][i] = toServer[x][j]
         /\ UNCHANGED leaving => EndComesLast'
<1> DEFINE q == toServer[s]
<1>1. /\ q # <<>> /\ Head(q).t = t
      /\ toServer' = [toServer EXCEPT ![s] = Tail(q)]
  BY DEF ReadsFrom
<1>2. toServer \in [Pages -> Seq(Request)] /\ q \in Seq(Request)
  BY DEF LobbyInv, LobbyTyped
<1>3. /\ Tail(q) \in Seq(Request) /\ Len(Tail(q)) = Len(q) - 1 /\ Len(q) \in Nat
      /\ 1 \in DOMAIN q /\ Head(q) = q[1] /\ Head(q) \in Request
      /\ \A i \in DOMAIN Tail(q) : i \in Nat /\ i + 1 \in DOMAIN q /\ Tail(q)[i] = q[i + 1]
  BY <1>1, <1>2, Tailed
<1>4. toServer'[s] = Tail(q) /\ \A x \in Pages : x # s => toServer'[x] = toServer[x]
  BY <1>1, <1>2
<1> DEFINE rest == Tail(q)
<1>5. \A x \in Pages : \A i \in DOMAIN toServer'[x] :
        \E j \in DOMAIN toServer[x] : toServer'[x][i] = toServer[x][j]
  <2> TAKE x \in Pages
  <2>1. CASE x = s
    <3>1. \A i \in DOMAIN rest : \E j \in DOMAIN q : rest[i] = q[j]
      BY <1>3
    <3>2. toServer'[x] = rest /\ toServer[x] = q
      BY <1>4, <2>1
    <3> HIDE DEF rest, q
    <3> QED
      BY <3>1, <3>2
  <2>2. CASE x # s
    BY <1>4, <2>2
  <2> QED
    BY <2>1, <2>2
<1>6. ASSUME UNCHANGED leaving PROVE EndComesLast'
  <2> SUFFICES ASSUME NEW x \in Pages
               PROVE  /\ \A i \in DOMAIN toServer'[x] :
                           toServer'[x][i].t = "end" => leaving[x] /\ i = Len(toServer'[x])
                      /\ \A i, j \in DOMAIN toServer'[x] :
                           toServer'[x][i].t = "ask" /\ i < j => toServer'[x][j].t = "end"
    BY <1>6 DEF EndComesLast
  <2>1. CASE x = s
    <3>1. /\ \A i \in DOMAIN q : q[i].t = "end" => leaving[s] /\ i = Len(q)
          /\ \A i, j \in DOMAIN q : q[i].t = "ask" /\ i < j => q[j].t = "end"
      BY DEF LobbyInv, EndComesLast
    <3>2. Len(rest) = Len(q) - 1 /\ Len(q) \in Nat /\ toServer'[x] = rest
      BY <1>3, <1>4, <2>1
    <3>3. \A i \in DOMAIN rest : i \in Nat /\ i + 1 \in DOMAIN q /\ rest[i] = q[i + 1]
      BY <1>3
    <3> HIDE DEF q, rest
    <3>4. \A i \in DOMAIN rest : rest[i].t = "end" => leaving[s] /\ i = Len(rest)
      BY <3>1, <3>2, <3>3
    <3>5. \A i, j \in DOMAIN rest : i < j => i + 1 < j + 1
      BY <3>3
    <3>6. \A i, j \in DOMAIN rest : rest[i].t = "ask" /\ i < j => rest[j].t = "end"
      BY <3>1, <3>3, <3>5
    <3> QED
      BY <2>1, <3>2, <3>4, <3>6
  <2>2. CASE x # s
    BY <1>4, <2>2 DEF LobbyInv, EndComesLast
  <2> QED
    BY <2>1, <2>2
<1> QED
  BY <1>1, <1>2, <1>3, <1>4, <1>5, <1>6

LEMMA ServeAskLobby ==
  ASSUME LobbyInv, NEW s \in Pages, ServeAsk(s)
  PROVE  LobbyInv'
<1>1. ReadsFrom(s, "ask") /\ UNCHANGED <<game, asked, leaving>>
  BY DEF ServeAsk, fields
<1>2. /\ toServer' \in [Pages -> Seq(Request)]
      /\ \A x \in Pages : x # s => toServer'[x] = toServer[x]
      /\ \A x \in Pages : \A i \in DOMAIN toServer'[x] :
           \E j \in DOMAIN toServer[x] : toServer'[x][i] = toServer[x][j]
      /\ EndComesLast'
  BY <1>1, ReadFacts
<1>3. match = None /\ waiting # s /\ Expects(s)
  BY <1>1, ReadFacts DEF LobbyInv, AskingPages
<1>4. \A i \in DOMAIN toServer'[s] : toServer'[s][i].t = "end"
  <2> DEFINE q == toServer[s]
  <2>1. /\ q \in Seq(Request) /\ q # <<>> /\ toServer'[s] = Tail(q)
        /\ 1 \in DOMAIN q /\ q[1].t = "ask"
    BY <1>1, ReadFacts
  <2>2. \A j \in DOMAIN q : 1 < j => q[j].t = "end"
    BY <2>1 DEF LobbyInv, EndComesLast
  <2> HIDE DEF q
  <2>3. \A i \in DOMAIN Tail(q) :
          i + 1 \in DOMAIN q /\ 1 < i + 1 /\ Tail(q)[i] = q[i + 1]
    BY <2>1
  <2> QED
    BY <2>1, <2>2, <2>3
<1>5. CASE waiting = Nobody
  <2>1. waiting' = s /\ UNCHANGED <<match, made, inbox>>
    BY <1>5 DEF ServeAsk
  <2>2. LobbyTyped'
    BY <1>1, <1>2, <2>1 DEF LobbyInv, LobbyTyped
  <2>3. RelaysAreOfTheMatch'
    BY <1>3, <2>1 DEF RelaysAreOfTheMatch
  <2>4. AskingPages'
    BY <1>1, <1>2, <1>3, <1>4, <2>1 DEF LobbyInv, AskingPages, Expects
  <2>5. WaitingPage'
    BY <1>1, <1>3, <1>4, <2>1 DEF WaitingPage, Expects
  <2>6. MenuPages'
    BY <1>1, <1>2, <1>3, <2>1 DEF LobbyInv, MenuPages, Expects
  <2>7. PagesInOrder' /\ GonePages'
    BY <1>1, <2>1 DEF LobbyInv, PagesInOrder, InboxInOrder, Current, GonePages
  <2> QED
    BY <1>2, <2>2, <2>3, <2>4, <2>5, <2>6, <2>7 DEF LobbyInv
<1>6. CASE waiting # Nobody
  <2> DEFINE m == made + 1
             ready(h) == [t |-> "READY", of |-> m,
                          role |-> IF h = s THEN "guest" ELSE "host"]
  <2>1. /\ made < MaxMatch
        /\ waiting' = Nobody /\ made' = m /\ match' = m
        /\ inbox' = [h \in Pages |-> Append(inbox[h], ready(h))]
    BY <1>6 DEF ServeAsk
  <2>2. waiting \in Pages /\ Pages = {s, waiting}
    BY <1>3, <1>6, TwoPages DEF LobbyInv, LobbyTyped
  <2>3. \A x \in Pages : /\ Expects(x)
                         /\ \A i \in DOMAIN toServer'[x] : toServer'[x][i].t = "end"
    BY <1>2, <1>3, <1>4, <2>2 DEF LobbyInv, WaitingPage
  <2>4. m \in Matches /\ m \in 0 .. MaxMatch /\ m # None
    BY <2>1, RtcAssumption DEF LobbyInv, LobbyTyped, Matches, None
  <2>5. \A h \in Pages : ready(h) \in Message /\ ready(h).t = "READY" /\ ready(h).of = m
    BY <2>4 DEF Message
  <2> HIDE DEF m, ready
  <2>6. LobbyTyped'
    <3>1. \A h \in Pages : inbox[h] \in Seq(Message)
      BY DEF LobbyInv, LobbyTyped
    <3>2. ASSUME NEW h \in Pages
          PROVE  Append(inbox[h], ready(h)) \in Seq(Message)
      BY <2>5, <3>1, Appended
    <3> QED
      BY <1>1, <1>2, <2>1, <2>4, <3>2 DEF LobbyInv, LobbyTyped
  <2>7. RelaysAreOfTheMatch'
    BY <2>3 DEF RelaysAreOfTheMatch, Relays
  <2>8. AskingPages'
    BY <2>3 DEF AskingPages
  <2>9. WaitingPage'
    BY <2>1, RtcAssumption DEF WaitingPage
  <2>10. MenuPages'
    BY <1>1, <2>3 DEF MenuPages, Expects
  <2>11. ASSUME NEW x \in Pages, ~ leaving[x]
         PROVE  InboxInOrder(x)'
    <3>1. game[x] = None /\ inbox[x] = <<>>
      BY <2>3, <2>11 DEF Expects
    <3>2. inbox'[x] = Append(<<>>, ready(x))
      BY <2>1, <3>1
    <3>3. inbox'[x] = <<ready(x)>>
      BY <2>5, <3>2
    <3> QED
      BY <1>1, <2>1, <2>5, <3>1, <3>3 DEF InboxInOrder, Current, Relays
  <2>12. PagesInOrder' /\ GonePages'
    BY <1>1, <2>11 DEF LobbyInv, PagesInOrder, GonePages
  <2> QED
    BY <1>2, <2>6, <2>7, <2>8, <2>9, <2>10, <2>12 DEF LobbyInv
<1> QED
  BY <1>5, <1>6

LEMMA ServeRelayLobby ==
  ASSUME LobbyInv, NEW s \in Pages, ServeRelay(s)
  PROVE  LobbyInv'
<1> DEFINE o    == Other(s)
           line == Head(toServer[s])
<1>1. PICK t \in Relays : ReadsFrom(s, t)
  BY DEF ServeRelay, Relays
<1>2. UNCHANGED <<game, asked, leaving, waiting, match, made>>
  BY DEF ServeRelay, fields, lobby
<1>3. /\ toServer' \in [Pages -> Seq(Request)]
      /\ \A x \in Pages : \A i \in DOMAIN toServer'[x] :
           \E j \in DOMAIN toServer[x] : toServer'[x][i] = toServer[x][j]
      /\ EndComesLast'
      /\ line \in Request /\ line.t = t
      /\ 1 \in DOMAIN toServer[s] /\ line = toServer[s][1]
  BY <1>1, <1>2, ReadFacts
<1>4. line \in Message /\ line.t \in Relays
  BY <1>3 DEF Request, Message, Relays
<1>5. match # None => line.of = match
  BY <1>3, <1>4 DEF LobbyInv, RelaysAreOfTheMatch
<1>6. o \in Pages /\ o # s
  BY TwoPages
<1>7. /\ match = None => inbox' = inbox
      /\ match # None => inbox' = [inbox EXCEPT ![o] = Append(inbox[o], line)]
  BY DEF ServeRelay, Post
<1> HIDE DEF o, line
<1>8. LobbyTyped'
  <2>1. inbox \in [Pages -> Seq(Message)] /\ inbox[o] \in Seq(Message)
    BY <1>6 DEF LobbyInv, LobbyTyped
  <2>2. Append(inbox[o], line) \in Seq(Message)
    BY <1>4, <2>1, Appended
  <2>3. inbox' \in [Pages -> Seq(Message)]
    BY <1>6, <1>7, <2>1, <2>2
  <2> QED
    BY <1>2, <1>3, <2>3 DEF LobbyInv, LobbyTyped
<1>9. RelaysAreOfTheMatch'
  BY <1>2, <1>3 DEF LobbyInv, RelaysAreOfTheMatch
<1>10. AskingPages'
  BY <1>2, <1>3, <1>7 DEF LobbyInv, AskingPages, Expects
<1>11. WaitingPage'
  BY <1>2, <1>3, <1>7 DEF LobbyInv, WaitingPage, Expects
<1>12. MenuPages'
  BY <1>2, <1>3, <1>7 DEF LobbyInv, MenuPages
<1>13. PagesInOrder'
  <2> SUFFICES ASSUME NEW x \in Pages, ~ leaving[x]
               PROVE  InboxInOrder(x)'
    BY <1>2 DEF PagesInOrder
  <2>1. InboxInOrder(x)
    BY DEF LobbyInv, PagesInOrder
  <2>2. CASE match = None \/ x # o
    <3>1. inbox'[x] = inbox[x]
      BY <1>6, <1>7, <2>2 DEF LobbyInv, LobbyTyped
    <3> QED
      BY <1>2, <2>1, <3>1 DEF InboxInOrder, Current
  <2>3. CASE match # None /\ x = o
    <3> DEFINE q  == inbox[x]
               q1 == Append(q, line)
    <3>1. q \in Seq(Message) /\ inbox'[x] = q1
      BY <1>6, <1>7, <2>3 DEF LobbyInv, LobbyTyped
    <3>2. /\ Len(q1) = Len(q) + 1 /\ q1 # <<>>
          /\ \A i \in DOMAIN q1 : q1[i] = IF i = Len(q) + 1 THEN line ELSE q[i]
          /\ \A i \in DOMAIN q1 : i # Len(q) + 1 => i \in DOMAIN q
          /\ Head(q1) = IF q = <<>> THEN line ELSE Head(q)
      BY <1>4, <3>1, Appended
    <3>3. Current(x) = match
      BY <2>1, <2>3 DEF InboxInOrder
    <3> HIDE DEF q1
    <3>4. Current(x)' = Current(x)
      BY <1>2, <1>4, <3>1, <3>2 DEF Current, Relays
    <3> QED
      BY <1>2, <1>4, <1>5, <2>1, <2>3, <3>1, <3>2, <3>3, <3>4 DEF InboxInOrder, Relays
  <2> QED
    BY <2>2, <2>3
<1>14. GonePages'
  BY <1>2 DEF LobbyInv, GonePages
<1> QED
  BY <1>3, <1>8, <1>9, <1>10, <1>11, <1>12, <1>13, <1>14 DEF LobbyInv

LEMMA ServeEndLobby ==
  ASSUME LobbyInv, NEW s \in Pages, ServeEnd(s)
  PROVE  LobbyInv'
<1> DEFINE o    == Other(s)
           left == [t |-> "PEER_LEFT"]
<1>1. /\ ReadsFrom(s, "end")
      /\ match' = None
      /\ waiting' = IF waiting = s THEN Nobody ELSE waiting
      /\ leaving' = [leaving EXCEPT ![s] = FALSE]
      /\ UNCHANGED <<game, asked, made>>
  BY DEF ServeEnd, fields
<1>2. /\ toServer' \in [Pages -> Seq(Request)]
      /\ \A x \in Pages : x # s => toServer'[x] = toServer[x]
      /\ leaving[s]
      /\ toServer'[s] = <<>>
  <2>1. /\ toServer' \in [Pages -> Seq(Request)]
        /\ \A x \in Pages : x # s => toServer'[x] = toServer[x]
        /\ toServer[s] \in Seq(Request) /\ toServer[s] # <<>>
        /\ toServer'[s] = Tail(toServer[s])
        /\ 1 \in DOMAIN toServer[s] /\ toServer[s][1].t = "end"
    BY <1>1, ReadFacts
  <2>2. leaving[s] /\ Len(toServer[s]) = 1
    BY <2>1 DEF LobbyInv, EndComesLast
  <2> QED
    BY <2>1, <2>2
<1>3. o \in Pages /\ o # s /\ Pages = {s, o}
  BY TwoPages
<1>4. /\ inbox'[s] = <<>>
      /\ inbox'[o] = IF match = None THEN inbox[o] ELSE Append(inbox[o], left)
      /\ inbox' \in [Pages -> Seq(Message)]
  <2>1. left \in Message
    BY DEF Message
  <2>2. inbox \in [Pages -> Seq(Message)] /\ inbox[o] \in Seq(Message)
    BY <1>3 DEF LobbyInv, LobbyTyped
  <2>3. inbox' = [inbox EXCEPT ![s] = <<>>,
                               ![o] = IF match = None THEN @ ELSE Append(@, left)]
    BY DEF ServeEnd
  <2> HIDE DEF o, left
  <2> DEFINE q1 == IF match = None THEN inbox[o] ELSE Append(inbox[o], left)
  <2>4. q1 \in Seq(Message) /\ <<>> \in Seq(Message)
    BY <2>1, <2>2, Appended
  <2>5. inbox' = [inbox EXCEPT ![s] = <<>>, ![o] = q1]
    BY <1>3, <2>2, <2>3
  <2>6. q1 = IF match = None THEN inbox[o] ELSE Append(inbox[o], left)
    OBVIOUS
  <2> HIDE DEF q1
  <2>7. inbox'[s] = <<>> /\ inbox'[o] = q1 /\ inbox' \in [Pages -> Seq(Message)]
    BY <1>3, <2>2, <2>4, <2>5
  <2> QED
    BY <2>6, <2>7
<1> HIDE DEF o
<1>5. LobbyTyped'
  BY <1>1, <1>2, <1>4 DEF LobbyInv, LobbyTyped
<1>6. leaving'[o] = leaving[o] /\ leaving'[s] = FALSE
  BY <1>1, <1>3 DEF LobbyInv, LobbyTyped
<1>7. EndComesLast'
  BY <1>2, <1>3, <1>6 DEF LobbyInv, EndComesLast
<1>8. RelaysAreOfTheMatch'
  BY <1>1 DEF RelaysAreOfTheMatch
<1>9. AskingPages'
  BY <1>1, <1>2, <1>3, <1>4, <1>6, RtcAssumption DEF LobbyInv, AskingPages, Expects
<1>10. WaitingPage'
  BY <1>1, <1>2, <1>3, <1>4, <1>6, RtcAssumption DEF LobbyInv, WaitingPage, Expects
<1>11. MenuPages'
  BY <1>1, <1>2, <1>3, <1>4, <1>6, RtcAssumption DEF LobbyInv, MenuPages
<1>12. ASSUME ~ leaving[o]
       PROVE  InboxInOrder(o)'
  <2>1. InboxInOrder(o)
    BY <1>3, <1>12 DEF LobbyInv, PagesInOrder
  <2>2. CASE match = None
    BY <1>1, <1>4, <2>1, <2>2 DEF InboxInOrder, Current
  <2>3. CASE match # None
    <3> DEFINE q  == inbox[o]
               q1 == Append(q, left)
    <3>1. q \in Seq(Message) /\ inbox'[o] = q1 /\ left \in Message /\ left.t = "PEER_LEFT"
      BY <1>3, <1>4, <2>3 DEF LobbyInv, LobbyTyped, Message
    <3> HIDE DEF left
    <3>2. /\ Len(q1) = Len(q) + 1 /\ q1 # <<>>
          /\ \A i \in DOMAIN q1 : q1[i] = IF i = Len(q) + 1 THEN left ELSE q[i]
          /\ \A i \in DOMAIN q1 : i # Len(q) + 1 => i \in DOMAIN q
          /\ Head(q1) = IF q = <<>> THEN left ELSE Head(q)
      BY <3>1, Appended
    <3> HIDE DEF q1
    <3>3. Current(o)' = Current(o)
      BY <1>1, <3>1, <3>2 DEF Current
    <3> QED
      BY <1>1, <2>1, <2>3, <3>1, <3>2, <3>3 DEF InboxInOrder, Relays
  <2> QED
    BY <2>2, <2>3
<1>13. InboxInOrder(s)'
  BY <1>1, <1>4 DEF InboxInOrder
<1>14. PagesInOrder'
  BY <1>3, <1>6, <1>12, <1>13 DEF PagesInOrder
<1>15. GonePages'
  BY <1>1, <1>3, <1>6 DEF LobbyInv, GonePages
<1> QED
  BY <1>5, <1>7, <1>8, <1>9, <1>10, <1>11, <1>14, <1>15 DEF LobbyInv

\* Page s takes its first line, and what the server knows stays as it is.
LEMMA HearFacts ==
  ASSUME LobbyInv, NEW s \in Pages, NEW t, Hears(s, t)
  PROVE  /\ ~ leaving[s] /\ InboxInOrder(s)
         /\ inbox[s] \in Seq(Message) /\ inbox[s] # <<>>
         /\ inbox' \in [Pages -> Seq(Message)]
         /\ inbox'[s] = Tail(inbox[s])
         /\ \A x \in Pages : x # s => inbox'[x] = inbox[x]
         /\ 1 \in DOMAIN inbox[s] /\ inbox[s][1] = Head(inbox[s])
         /\ Head(inbox[s]) \in Message /\ Head(inbox[s]).t = t
         /\ \A i \in DOMAIN inbox'[s] : /\ i \in Nat /\ i # 0 /\ i + 1 \in DOMAIN inbox[s]
                                        /\ inbox'[s][i] = inbox[s][i + 1]
         /\ Len(inbox'[s]) = Len(inbox[s]) - 1 /\ Len(inbox[s]) \in Nat
         /\ inbox'[s] # <<>> => Head(inbox'[s]) = inbox[s][2] /\ 2 \in DOMAIN inbox[s]
         \* It expects nothing, as something came.
         /\ ~ Expects(s) /\ waiting # s
         /\ \A i \in DOMAIN toServer[s] : toServer[s][i].t # "ask"
<1> DEFINE q == inbox[s]
<1>1. /\ ~ leaving[s] /\ q # <<>> /\ Head(q).t = t
      /\ inbox' = [inbox EXCEPT ![s] = Tail(q)]
  BY DEF Hears
<1>2. inbox \in [Pages -> Seq(Message)] /\ q \in Seq(Message)
  BY DEF LobbyInv, LobbyTyped
<1>3. InboxInOrder(s)
  BY <1>1 DEF LobbyInv, PagesInOrder
<1>4. /\ Tail(q) \in Seq(Message) /\ Len(Tail(q)) = Len(q) - 1 /\ Len(q) \in Nat
      /\ 1 \in DOMAIN q /\ Head(q) = q[1] /\ Head(q) \in Message
      /\ \A i \in DOMAIN Tail(q) : i \in Nat /\ i + 1 \in DOMAIN q /\ Tail(q)[i] = q[i + 1]
      /\ Tail(q) # <<>> => 1 \in DOMAIN Tail(q) /\ Head(Tail(q)) = q[2] /\ 2 \in DOMAIN q
  BY <1>1, <1>2, Tailed
<1>5. \A i \in DOMAIN Tail(q) : i # 0
  BY <1>1, <1>2
<1>6. inbox'[s] = Tail(q) /\ \A x \in Pages : x # s => inbox'[x] = inbox[x]
  BY <1>1, <1>2
<1>7. inbox' \in [Pages -> Seq(Message)]
  BY <1>1, <1>2, <1>4
<1>8. ~ Expects(s)
  BY <1>1 DEF Expects
<1>9. waiting # s /\ \A i \in DOMAIN toServer[s] : toServer[s][i].t # "ask"
  BY <1>8 DEF LobbyInv, WaitingPage, AskingPages
<1> DEFINE rest == Tail(q)
<1>10. inbox'[s] = rest
  BY <1>6
<1>11. /\ Len(rest) = Len(q) - 1
       /\ \A i \in DOMAIN rest : i \in Nat /\ i # 0 /\ i + 1 \in DOMAIN q /\ rest[i] = q[i + 1]
       /\ rest # <<>> => Head(rest) = q[2] /\ 2 \in DOMAIN q
  BY <1>4, <1>5
<1> HIDE DEF rest
<1>12. /\ \A i \in DOMAIN inbox'[s] : /\ i \in Nat /\ i # 0 /\ i + 1 \in DOMAIN q
                                      /\ inbox'[s][i] = q[i + 1]
       /\ Len(inbox'[s]) = Len(q) - 1
       /\ inbox'[s] # <<>> => Head(inbox'[s]) = q[2] /\ 2 \in DOMAIN q
  BY <1>10, <1>11
<1> QED
  BY <1>1, <1>2, <1>3, <1>4, <1>6, <1>7, <1>8, <1>9, <1>12

\* What remains to be shown of a step in which page s takes a line.
LEMMA HeardLobby ==
  ASSUME LobbyInv, NEW s \in Pages, NEW t, Hears(s, t),
         game' \in [Pages -> Matches \union {None}],
         asked' \in [Pages -> BOOLEAN],
         \A x \in Pages : x # s => game'[x] = game[x] /\ asked'[x] = asked[x],
         UNCHANGED <<leaving, toServer, lobby>>,
         InboxInOrder(s)',
         game'[s] = None /\ ~ asked'[s] => match = None /\ inbox'[s] = <<>>
  PROVE  LobbyInv'
<1>1. UNCHANGED <<leaving, toServer, waiting, match, made>>
  BY DEF lobby
<1>2. /\ ~ leaving[s]
      /\ inbox' \in [Pages -> Seq(Message)]
      /\ \A x \in Pages : x # s => inbox'[x] = inbox[x]
      /\ waiting # s
      /\ \A i \in DOMAIN toServer[s] : toServer[s][i].t # "ask"
  BY HearFacts
<1>3. LobbyTyped'
  BY <1>1, <1>2 DEF LobbyInv, LobbyTyped
<1>4. EndComesLast' /\ RelaysAreOfTheMatch'
  BY <1>1 DEF LobbyInv, EndComesLast, RelaysAreOfTheMatch
<1>5. AskingPages' /\ WaitingPage'
  <2>1. ASSUME NEW x \in Pages, x # s, Expects(x)
        PROVE  Expects(x)'
    BY <1>1, <1>2, <2>1 DEF Expects
  <2> QED
    BY <1>1, <1>2, <2>1 DEF LobbyInv, AskingPages, WaitingPage
<1>6. MenuPages'
  <2> SUFFICES ASSUME NEW x \in Pages, ~ leaving[x], game'[x] = None, ~ asked'[x]
               PROVE  /\ match = None /\ waiting # x /\ inbox'[x] = <<>>
                      /\ \A i \in DOMAIN toServer[x] : toServer[x][i].t # "ask"
    BY <1>1 DEF MenuPages
  <2>1. CASE x = s
    BY <1>2, <2>1
  <2>2. CASE x # s
    BY <1>2, <2>2 DEF LobbyInv, MenuPages
  <2> QED
    BY <2>1, <2>2
<1>7. PagesInOrder'
  BY <1>1, <1>2, SMTT(30) DEF LobbyInv, PagesInOrder, InboxInOrder, Current
<1>8. GonePages'
  BY <1>1, <1>2 DEF LobbyInv, GonePages
<1> QED
  BY <1>3, <1>4, <1>5, <1>6, <1>7, <1>8 DEF LobbyInv

LEMMA OnReadyLobby ==
  ASSUME LobbyInv, NEW s \in Pages, OnReady(s)
  PROVE  LobbyInv' /\ game[s] = None /\ Head(inbox[s]).of \in Matches
<1> DEFINE m == Head(inbox[s]).of
<1>1. /\ Hears(s, "READY")
      /\ game' = [game EXCEPT ![s] = m]
      /\ asked' = [asked EXCEPT ![s] = FALSE]
      /\ UNCHANGED <<leaving, toServer, lobby>>
  BY DEF OnReady
<1>2. /\ InboxInOrder(s)
      /\ inbox[s] # <<>> /\ Head(inbox[s]).t = "READY" /\ Head(inbox[s]) \in Message
      /\ 1 \in DOMAIN inbox[s] /\ inbox[s][1] = Head(inbox[s])
      /\ \A i \in DOMAIN inbox'[s] : /\ i \in Nat /\ i # 0 /\ i + 1 \in DOMAIN inbox[s]
                                     /\ inbox'[s][i] = inbox[s][i + 1]
      /\ Len(inbox'[s]) = Len(inbox[s]) - 1 /\ Len(inbox[s]) \in Nat
      /\ inbox'[s] # <<>> => Head(inbox'[s]) = inbox[s][2] /\ 2 \in DOMAIN inbox[s]
  BY <1>1, HearFacts
<1>3. m \in Matches /\ m # None
  BY <1>2, NoneIsNoMatch DEF Message, Relays
<1>4. game[s] = None /\ Current(s) = m
  BY <1>2 DEF InboxInOrder, Current
<1> HIDE DEF m
<1>5. /\ game' \in [Pages -> Matches \union {None}] /\ game'[s] = m
      /\ \A x \in Pages : x # s => game'[x] = game[x] /\ asked'[x] = asked[x]
      /\ asked' \in [Pages -> BOOLEAN]
  BY <1>1, <1>3 DEF LobbyInv, LobbyTyped
<1>6. \A i \in DOMAIN inbox'[s] : i + 1 # 1 /\ inbox'[s][i].t # "READY"
  BY <1>2 DEF InboxInOrder
<1>7. Current(s)' = m
  BY <1>2, <1>5 DEF Current, InboxInOrder
<1>8. InboxInOrder(s)'
  <2>1. match' = match
    BY <1>1 DEF lobby
  <2> QED
    BY <1>2, <1>4, <1>5, <1>6, <1>7, <2>1 DEF InboxInOrder
<1> QED
  BY <1>1, <1>3, <1>4, <1>5, <1>8, HeardLobby DEF m

LEMMA OnPeerLeftLobby ==
  ASSUME LobbyInv, NEW s \in Pages, OnPeerLeft(s)
  PROVE  LobbyInv'
<1>1. /\ Hears(s, "PEER_LEFT")
      /\ game' = [game EXCEPT ![s] = None]
      /\ UNCHANGED <<asked, leaving, toServer, lobby>>
  BY DEF OnPeerLeft, Stop
<1>2. match = None /\ inbox'[s] = <<>>
  <2>1. /\ InboxInOrder(s)
        /\ inbox' \in [Pages -> Seq(Message)] /\ Len(inbox'[s]) = Len(inbox[s]) - 1
        /\ 1 \in DOMAIN inbox[s] /\ inbox[s][1].t = "PEER_LEFT"
    BY <1>1, HearFacts
  <2>2. match = None /\ Len(inbox[s]) = 1
    BY <2>1 DEF InboxInOrder
  <2>3. inbox'[s] \in Seq(Message) /\ Len(inbox'[s]) = 0
    BY <2>1, <2>2
  <2> QED
    BY <2>2, <2>3
<1>3. /\ game' \in [Pages -> Matches \union {None}]
      /\ \A x \in Pages : x # s => game'[x] = game[x] /\ asked'[x] = asked[x]
      /\ asked' \in [Pages -> BOOLEAN]
  BY <1>1 DEF LobbyInv, LobbyTyped
<1>4. InboxInOrder(s)'
  BY <1>1, <1>2 DEF InboxInOrder, lobby
<1> QED
  BY <1>1, <1>2, <1>3, <1>4, HeardLobby

LEMMA HandleSignalLobby ==
  ASSUME LobbyInv, NEW s \in Pages, HandleSignal(s)
  PROVE  LobbyInv' /\ Head(inbox[s]) \in Message /\ Head(inbox[s]).t \in Relays
                   /\ Head(inbox[s]).of = game[s]
<1>1. PICK t \in Relays : Hears(s, t)
  BY DEF HandleSignal, Relays
<1>2. UNCHANGED <<game, asked, leaving, toServer, lobby>>
  BY DEF HandleSignal, fields
<1>3. /\ InboxInOrder(s)
      /\ inbox[s] # <<>> /\ Head(inbox[s]).t = t /\ Head(inbox[s]) \in Message
      /\ 1 \in DOMAIN inbox[s] /\ inbox[s][1] = Head(inbox[s])
      /\ \A i \in DOMAIN inbox'[s] : /\ i \in Nat /\ i # 0 /\ i + 1 \in DOMAIN inbox[s]
                                     /\ inbox'[s][i] = inbox[s][i + 1]
      /\ Len(inbox'[s]) = Len(inbox[s]) - 1 /\ Len(inbox[s]) \in Nat
      /\ inbox'[s] # <<>> => Head(inbox'[s]) = inbox[s][2] /\ 2 \in DOMAIN inbox[s]
      /\ ~ leaving[s]
  BY <1>1, HearFacts
<1>4. Current(s) = game[s] /\ Head(inbox[s]).of = game[s]
  BY <1>1, <1>3 DEF InboxInOrder, Current, Relays
<1>5. \A i \in DOMAIN inbox'[s] : i + 1 # 1 /\ inbox'[s][i].t # "READY"
  BY <1>3 DEF InboxInOrder
<1>6. Current(s)' = game[s]
  BY <1>2, <1>3 DEF Current, InboxInOrder
<1>7. match' = match
  BY <1>2 DEF lobby
<1>8. InboxInOrder(s)'
  BY <1>2, <1>3, <1>4, <1>5, <1>6, <1>7 DEF InboxInOrder
<1>9. game[s] # None
  BY <1>1, <1>3, <1>4, NoneIsNoMatch DEF Message, Relays
<1> QED
  BY <1>1, <1>2, <1>3, <1>4, <1>8, <1>9, HeardLobby DEF LobbyInv, LobbyTyped

\* A connection has something to relay: its page is in that match.
LEMMA SendLobby ==
  ASSUME LobbyInv, NEW s \in Pages, NEW m \in Matches, game[s] = m,
         NEW t \in Relays, Send(s, [t |-> t, of |-> m]),
         UNCHANGED <<game, asked, leaving, inbox, lobby>>
  PROVE  LobbyInv'
<1> DEFINE line == [t |-> t, of |-> m]
           q    == toServer[s]
           q1   == Append(q, line)
<1>1. /\ toServer' = [toServer EXCEPT ![s] = q1]
      /\ UNCHANGED <<game, asked, leaving, inbox, waiting, match, made>>
  BY DEF Send, lobby
<1>2. q \in Seq(Request) /\ line \in Request /\ line.t = t /\ line.of = m
  BY DEF Request, LobbyInv, LobbyTyped
<1>3. game[s] # None /\ ~ leaving[s] /\ ~ Expects(s)
  BY NoneIsNoMatch DEF LobbyInv, GonePages, Expects
<1>4. waiting # s /\ \A i \in DOMAIN q : q[i].t \notin {"ask", "end"}
  BY <1>3 DEF LobbyInv, WaitingPage, AskingPages, EndComesLast
<1>5. match \in {None, m}
  <2>1. InboxInOrder(s)
    BY <1>3 DEF LobbyInv, PagesInOrder
  <2>2. inbox[s] \in Seq(Message)
    BY DEF LobbyInv, LobbyTyped
  <2>3. inbox[s] # <<>> => 1 \in DOMAIN inbox[s] /\ Head(inbox[s]) = inbox[s][1]
    BY <2>2
  <2>4. Current(s) = m
    BY <1>3, <2>1, <2>3 DEF InboxInOrder, Current
  <2> QED
    BY <2>1, <2>4 DEF InboxInOrder
<1>6. /\ q1 \in Seq(Request)
      /\ \A i \in DOMAIN q1 : q1[i] = line \/ (i \in DOMAIN q /\ q1[i] = q[i])
  BY <1>2, Appended
<1>7. \A i \in DOMAIN q1 : q1[i].t \notin {"ask", "end"}
  BY <1>2, <1>4, <1>6 DEF Relays
<1>8. \A i \in DOMAIN q1 : q1[i].t \in Relays => match \in {None, q1[i].of}
  BY <1>2, <1>5, <1>6 DEF LobbyInv, RelaysAreOfTheMatch
<1> HIDE DEF q1, q, line
<1>9. toServer'[s] = q1 /\ \A x \in Pages : x # s => toServer'[x] = toServer[x]
  BY <1>1 DEF LobbyInv, LobbyTyped
<1>10. LobbyTyped'
  BY <1>1, <1>6 DEF LobbyInv, LobbyTyped
<1>11. EndComesLast'
  BY <1>1, <1>7, <1>9 DEF LobbyInv, EndComesLast
<1>12. RelaysAreOfTheMatch'
  BY <1>1, <1>8, <1>9 DEF LobbyInv, RelaysAreOfTheMatch
<1>13. AskingPages' /\ WaitingPage'
  BY <1>1, <1>4, <1>7, <1>9 DEF LobbyInv, AskingPages, WaitingPage, Expects
<1>14. MenuPages'
  BY <1>1, <1>3, <1>9 DEF LobbyInv, MenuPages
<1>15. PagesInOrder' /\ GonePages'
  BY <1>1 DEF LobbyInv, PagesInOrder, InboxInOrder, Current, GonePages
<1> QED
  BY <1>10, <1>11, <1>12, <1>13, <1>14, <1>15 DEF LobbyInv

-----------------------------------------------------------------------------
(* The connections. *)

LEMMA DoneOfTheirMatch ==
  ASSUME OfTheirMatch(chain), NEW s \in Pages, NEW m \in Matches, chain[s][m] # <<>>
  PROVE  OfTheirMatch(Done(s, m)) /\ Head(chain[s][m]).of = m
<1> DEFINE q    == chain[s][m]
           rest == Tail(q)
<1>1. q \in Seq(Operation) /\ \A i \in DOMAIN q : q[i].of = m
  BY DEF OfTheirMatch
<1>2. /\ rest \in Seq(Operation) /\ \A i \in DOMAIN rest : rest[i].of = m
      /\ Head(q).of = m
  BY <1>1, Tailed
<1>3. Done(s, m) = [chain EXCEPT ![s][m] = rest]
  BY DEF Done
<1> HIDE DEF q, rest
<1>4. OfTheirMatch(Done(s, m))
  BY <1>2, <1>3 DEF OfTheirMatch
<1> QED
  BY <1>2, <1>4 DEF q

LEMMA CallOfTheirMatch ==
  ASSUME NEW chains, OfTheirMatch(chains), NEW s \in Pages, NEW m \in Matches \union {None},
         NEW op, NEW of, [op |-> op, of |-> of] \in Operation, m # None => of = m
  PROVE  OfTheirMatch(Call(chains, s, m, op, of))
<1>1. CASE m = None
  BY <1>1 DEF Call
<1>2. CASE m # None
  <2> DEFINE q  == chains[s][m]
             x  == [op |-> op, of |-> of]
             q1 == Append(q, x)
  <2>1. q \in Seq(Operation) /\ (\A i \in DOMAIN q : q[i].of = m) /\ x.of = m
    BY <1>2 DEF OfTheirMatch
  <2>2. q1 \in Seq(Operation) /\ \A i \in DOMAIN q1 : q1[i].of = m
    BY <2>1, Appended
  <2>3. Call(chains, s, m, op, of) = [chains EXCEPT ![s][m] = q1]
    BY <1>2 DEF Call
  <2> HIDE DEF q1
  <2> QED
    BY <1>2, <2>2, <2>3 DEF OfTheirMatch
<1> QED
  BY <1>1, <1>2

LEMMA QuietObjects ==
  ASSUME ObjectsInv, UNCHANGED <<fields, objects>>
  PROVE  ObjectsInv'
BY DEF fields, objects, ObjectsInv, ObjectsTyped, OfTheirMatch, OneMatchAtATime

LEMMA StopObjects ==
  ASSUME ObjectsInv, NEW s \in Pages, Stop(s)
  PROVE  ObjectsInv'
<1> USE NoneIsNoMatch DEF ObjectsInv, Stop
<1>1. ObjectsTyped'
  BY DEF ObjectsTyped, Close
<1>2. OfTheirMatch(chain)'
  BY DEF OfTheirMatch
<1>3. OneMatchAtATime'
  <2>1. live' = [live EXCEPT ![s] = live[s] \ {pc[s]}]
    BY DEF Close
  <2>2. live'[s] = {} /\ \A x \in Pages : x # s => live'[x] = live[x]
    BY <2>1 DEF OneMatchAtATime, ObjectsTyped
  <2>3. \A x \in Pages : x # s =>
          /\ pc'[x] = pc[x] /\ dc'[x] = dc[x] /\ game'[x] = game[x]
          /\ remote'[x] = remote[x]
    BY DEF ObjectsTyped
  <2>4. /\ pc'[s] = None /\ dc'[s] = None /\ game'[s] = None
        /\ \A m \in Matches : remote'[s][m] = None
    BY DEF ObjectsTyped
  <2> QED
    BY <2>2, <2>3, <2>4 DEF OneMatchAtATime
<1> QED
  BY <1>1, <1>2, <1>3

LEMMA OnReadyObjects ==
  ASSUME ObjectsInv, NEW s \in Pages, OnReady(s), game[s] = None,
         Head(inbox[s]).of \in Matches, Head(inbox[s]).role \in {"host", "guest"}
  PROVE  ObjectsInv'
<1> DEFINE m == Head(inbox[s]).of
           isHost == Head(inbox[s]).role = "host"
           ops == IF isHost THEN <<[op |-> "createOffer", of |-> m]>> ELSE <<>>
           channel == IF isHost THEN m ELSE None
<1>1. /\ live' = [live EXCEPT ![s] = (live[s] \ {pc[s]}) \union {m}]
      /\ chain' = [chain EXCEPT ![s][m] = ops]
      /\ undiscovered' = [undiscovered EXCEPT ![s][m] = MaxIce]
      /\ pc' = [pc EXCEPT ![s] = m]
      /\ dc' = [dc EXCEPT ![s] = channel]
      /\ game' = [game EXCEPT ![s] = m]
      /\ role' = [role EXCEPT ![s] = Head(inbox[s]).role]
      /\ UNCHANGED <<local, remote, added>>
  BY DEF OnReady, Close
<1>2. m \in Matches /\ m # None
  BY NoneIsNoMatch
<1>3. ops \in Seq(Operation) /\ \A i \in DOMAIN ops : ops[i].of = m
  <2>1. [op |-> "createOffer", of |-> m] \in Operation
    BY DEF Operation
  <2> QED
    BY <2>1
<1>4. channel \in {None, m}
  OBVIOUS
<1> HIDE DEF m, ops, channel
<1>5. live'[s] = {m} /\ \A x \in Pages : x # s => live'[x] = live[x]
  BY <1>1 DEF ObjectsInv, ObjectsTyped, OneMatchAtATime
<1>6. ObjectsTyped'
  BY <1>1, <1>2, <1>4, RtcAssumption DEF ObjectsInv, ObjectsTyped
<1>7. OfTheirMatch(chain)'
  BY <1>1, <1>2, <1>3 DEF ObjectsInv, OfTheirMatch
<1>8. OneMatchAtATime'
  <2>1. /\ pc'[s] = m /\ dc'[s] = channel /\ game'[s] = m
        /\ \A x \in Pages : x # s => pc'[x] = pc[x] /\ dc'[x] = dc[x] /\ game'[x] = game[x]
    BY <1>1 DEF ObjectsInv, ObjectsTyped
  <2> QED
    BY <1>1, <1>2, <1>4, <1>5, <2>1 DEF ObjectsInv, OneMatchAtATime
<1> QED
  BY <1>6, <1>7, <1>8 DEF ObjectsInv

\* A call on the connection of the page's own field.
LEMMA HandleSignalObjects ==
  ASSUME ObjectsInv, NEW s \in Pages, HandleSignal(s), Head(inbox[s]).of = game[s],
         Head(inbox[s]).of \in Matches
  PROVE  ObjectsInv'
<1> DEFINE of == Head(inbox[s]).of
<1>1. UNCHANGED <<pc, dc, game, role, live, local, remote, undiscovered, added>>
  BY DEF HandleSignal, fields
<1>2. pc[s] = of /\ of \in Matches
  BY DEF ObjectsInv, OneMatchAtATime
<1>3. PICK t \in {"offer", "answer", "ice"} :
        chain' = IF t \in DOMAIN Handling THEN Call(chain, s, pc[s], Handling[t], of) ELSE chain
  BY DEF HandleSignal
<1>4. DOMAIN Handling = {"offer", "answer", "ice"} /\ [op |-> Handling[t], of |-> of] \in Operation
  BY <1>2 DEF Handling, Operation
<1> HIDE DEF of
<1>5. chain' = Call(chain, s, pc[s], Handling[t], of)
  BY <1>3, <1>4
<1>6. OfTheirMatch(chain)'
  BY <1>2, <1>4, <1>5, CallOfTheirMatch DEF ObjectsInv
<1> QED
  BY <1>1, <1>6 DEF ObjectsInv, ObjectsTyped, OneMatchAtATime

\* A connection that is not closed is the one of its page's match.
LEMMA LiveIsCurrent ==
  ASSUME ObjectsInv, NEW s \in Pages, NEW m \in live[s]
  PROVE  pc[s] = m /\ game[s] = m /\ m \in Matches
BY DEF ObjectsInv, ObjectsTyped, OneMatchAtATime

LEMMA SettleObjects ==
  ASSUME ObjectsInv, NEW s \in Pages, NEW m \in Matches, Settle(s, m)
  PROVE  ObjectsInv' /\ game[s] = m
<1> USE DEF ObjectsInv
<1>1. m \in live[s] /\ chain[s][m] # <<>>
  BY DEF Settle, CreatedOffer, SetLocal, SetRemoteOffer, CreatedAnswer, SetRemoteAnswer,
         AddIce, Settles
<1>2. pc[s] = m /\ game[s] = m
  BY <1>1, LiveIsCurrent
<1>3. OfTheirMatch(Done(s, m)) /\ Head(chain[s][m]).of = m
  BY <1>1, DoneOfTheirMatch
<1>4. \A op \in {"setLocalOffer", "createAnswer", "setLocalAnswer"} :
        OfTheirMatch(Call(Done(s, m), s, m, op, m))
  <2> TAKE op \in {"setLocalOffer", "createAnswer", "setLocalAnswer"}
  <2>1. [op |-> op, of |-> m] \in Operation
    BY DEF Operation
  <2> QED
    BY <1>3, <2>1, CallOfTheirMatch
<1>5. OfTheirMatch(chain)'
  BY <1>2, <1>3, <1>4
  DEF Settle, CreatedOffer, SetLocal, SetRemoteOffer, CreatedAnswer, SetRemoteAnswer, AddIce
<1>6. UNCHANGED <<pc, dc, game, role, live, undiscovered>>
  BY DEF Settle, CreatedOffer, SetLocal, SetRemoteOffer, CreatedAnswer, SetRemoteAnswer,
         AddIce, fields
<1>7. local' = local \/ local' = [local EXCEPT ![s][m] = TRUE]
  BY DEF Settle, CreatedOffer, SetLocal, SetRemoteOffer, CreatedAnswer, SetRemoteAnswer, AddIce
<1>8. remote' = remote \/ remote' = [remote EXCEPT ![s][m] = m]
  BY <1>3
  DEF Settle, CreatedOffer, SetLocal, SetRemoteOffer, CreatedAnswer, SetRemoteAnswer, AddIce
<1>9. added' = added \/ added' = [added EXCEPT ![s][m] = added[s][m]]
      \/ added' = [added EXCEPT ![s][m] = added[s][m] + 1]
  BY DEF Settle, CreatedOffer, SetLocal, SetRemoteOffer, CreatedAnswer, SetRemoteAnswer, AddIce
<1>10. ObjectsTyped'
  <2>1. local' \in [Pages -> [Matches -> BOOLEAN]]
    <3>1. CASE local' = local
      BY <3>1 DEF ObjectsTyped
    <3>2. CASE local' = [local EXCEPT ![s][m] = TRUE]
      BY <3>2 DEF ObjectsTyped
    <3> QED
      BY <1>7, <3>1, <3>2
  <2>2. remote' \in [Pages -> [Matches -> Matches \union {None}]]
    <3>1. CASE remote' = remote
      BY <3>1 DEF ObjectsTyped
    <3>2. CASE remote' = [remote EXCEPT ![s][m] = m]
      BY <3>2 DEF ObjectsTyped
    <3> QED
      BY <1>8, <3>1, <3>2
  <2>3. added' \in [Pages -> [Matches -> Nat]]
    <3>1. CASE added' = added
      BY <3>1 DEF ObjectsTyped
    <3>2. CASE added' = [added EXCEPT ![s][m] = added[s][m]]
      BY <3>2 DEF ObjectsTyped
    <3>3. CASE added' = [added EXCEPT ![s][m] = added[s][m] + 1]
      BY <3>3 DEF ObjectsTyped
    <3> QED
      BY <1>9, <3>1, <3>2, <3>3
  <2> QED
    BY <1>6, <2>1, <2>2, <2>3 DEF ObjectsTyped
<1>11. OneMatchAtATime'
  <2>1. \A x \in Pages, n \in Matches : remote'[x][n] \in {None, n}
    <3>1. CASE remote' = remote
      BY <3>1 DEF OneMatchAtATime
    <3>2. CASE remote' = [remote EXCEPT ![s][m] = m]
      BY <3>2 DEF ObjectsTyped, OneMatchAtATime
    <3> QED
      BY <1>8, <3>1, <3>2
  <2> QED
    BY <1>6, <2>1 DEF OneMatchAtATime
<1> QED
  BY <1>2, <1>5, <1>10, <1>11

LEMMA OnIceCandidateObjects ==
  ASSUME ObjectsInv, NEW s \in Pages, NEW m \in Matches, OnIceCandidate(s, m)
  PROVE  ObjectsInv' /\ game[s] = m
<1>1. m \in live[s] /\ game[s] = m
  BY LiveIsCurrent DEF OnIceCandidate
<1>2. /\ UNCHANGED <<pc, dc, game, role, live, chain, local, remote, added>>
      /\ undiscovered[s][m] > 0
      /\ undiscovered' = [undiscovered EXCEPT ![s][m] = undiscovered[s][m] - 1]
  BY DEF OnIceCandidate, fields
<1>3. undiscovered' \in [Pages -> [Matches -> Nat]]
  BY <1>2 DEF ObjectsInv, ObjectsTyped
<1> QED
  BY <1>1, <1>2, <1>3 DEF ObjectsInv, ObjectsTyped, OneMatchAtATime

LEMMA OnDataChannelObjects ==
  ASSUME ObjectsInv, NEW s \in Pages, NEW m \in Matches, OnDataChannel(s, m)
  PROVE  ObjectsInv'
<1>1. game[s] = m
  BY LiveIsCurrent DEF OnDataChannel
<1>2. dc' = [dc EXCEPT ![s] = m] /\ UNCHANGED <<pc, game, role, objects>>
  BY DEF OnDataChannel
<1>3. UNCHANGED <<live, chain, local, remote, undiscovered, added>>
  BY <1>2 DEF objects
<1> QED
  BY <1>1, <1>2, <1>3 DEF ObjectsInv, ObjectsTyped, OneMatchAtATime

-----------------------------------------------------------------------------
(* One match at a time. *)

LEMMA InitIInv == Init => IInv
<1> SUFFICES ASSUME Init PROVE IInv
  OBVIOUS
<1> USE RtcAssumption, NoneIsNoMatch DEF Init
<1>1. LobbyTyped
  BY DEF LobbyTyped
<1>2. /\ EndComesLast /\ RelaysAreOfTheMatch /\ AskingPages /\ WaitingPage
      /\ MenuPages /\ PagesInOrder /\ GonePages
  BY DEF EndComesLast, RelaysAreOfTheMatch, AskingPages, WaitingPage, Expects,
         MenuPages, PagesInOrder, InboxInOrder, GonePages
<1>3. ObjectsTyped
  BY DEF ObjectsTyped, PerObject
<1>4. OfTheirMatch(chain)
  BY DEF OfTheirMatch, PerObject
<1>5. OneMatchAtATime
  BY DEF OneMatchAtATime, PerObject
<1> QED
  BY <1>1, <1>2, <1>3, <1>4, <1>5 DEF IInv, LobbyInv, ObjectsInv

LEMMA StepIInv ==
  ASSUME IInv, [Next]_vars
  PROVE  IInv'
<1> USE DEF IInv
<1>1. CASE UNCHANGED vars
  BY <1>1, QuietLobby, QuietObjects DEF vars, fields
<1>2. ASSUME NEW s \in Pages, Ask(s)
      PROVE  IInv'
  BY <1>2, AskLobby, QuietObjects DEF Ask
<1>3. ASSUME NEW s \in Pages, Leave(s)
      PROVE  IInv'
  BY <1>3, LeaveLobby, StopObjects DEF Leave
<1>4. ASSUME NEW s \in Pages, Serve(s)
      PROVE  IInv'
  <2>1. UNCHANGED <<fields, objects>>
    BY <1>4 DEF Serve, ServeAsk, ServeRelay, ServeEnd
  <2> QED
    BY <1>4, <2>1, ServeAskLobby, ServeRelayLobby, ServeEndLobby, QuietObjects DEF Serve
<1>5. ASSUME NEW s \in Pages, OnReady(s)
      PROVE  IInv'
  <2>1. LobbyInv' /\ game[s] = None /\ Head(inbox[s]).of \in Matches
    BY <1>5, OnReadyLobby
  <2>2. Hears(s, "READY")
    BY <1>5 DEF OnReady
  <2>3. Head(inbox[s]) \in Message /\ Head(inbox[s]).t = "READY"
    BY <2>2, HearFacts
  <2>4. Head(inbox[s]).role \in {"host", "guest"}
    BY <2>3 DEF Message, Relays
  <2> QED
    BY <1>5, <2>1, <2>4, OnReadyObjects
<1>6. ASSUME NEW s \in Pages, OnPeerLeft(s)
      PROVE  IInv'
  BY <1>6, OnPeerLeftLobby, StopObjects DEF OnPeerLeft
<1>7. ASSUME NEW s \in Pages, HandleSignal(s)
      PROVE  IInv'
  <2>1. /\ LobbyInv' /\ Head(inbox[s]).of = game[s]
        /\ Head(inbox[s]) \in Message /\ Head(inbox[s]).t \in Relays
    BY <1>7, HandleSignalLobby
  <2>2. Head(inbox[s]).of \in Matches
    BY <2>1 DEF Message, Relays
  <2> QED
    BY <1>7, <2>1, <2>2, HandleSignalObjects
<1>8. ASSUME NEW s \in Pages, NEW m \in Matches, Settle(s, m)
      PROVE  IInv'
  <2>1. ObjectsInv' /\ game[s] = m
    BY <1>8, SettleObjects
  <2>2. UNCHANGED <<game, asked, leaving, inbox, lobby>>
    BY <1>8 DEF Settle, CreatedOffer, SetLocal, SetRemoteOffer, CreatedAnswer,
                SetRemoteAnswer, AddIce, fields
  <2>3. CASE UNCHANGED toServer
    BY <2>1, <2>2, <2>3, QuietLobby
  <2>4. CASE Send(s, [t |-> "offer", of |-> m]) \/ Send(s, [t |-> "answer", of |-> m])
    BY <2>1, <2>2, <2>4, SendLobby DEF Relays
  <2> QED
    BY <1>8, <2>3, <2>4 DEF Settle, CreatedOffer, SetLocal, SetRemoteOffer, CreatedAnswer,
                            SetRemoteAnswer, AddIce
<1>9. ASSUME NEW s \in Pages, NEW m \in Matches, OnIceCandidate(s, m)
      PROVE  IInv'
  <2>1. ObjectsInv' /\ game[s] = m
    BY <1>9, OnIceCandidateObjects
  <2>2. Send(s, [t |-> "ice", of |-> m]) /\ UNCHANGED <<game, asked, leaving, inbox, lobby>>
    BY <1>9 DEF OnIceCandidate, fields
  <2> QED
    BY <2>1, <2>2, SendLobby DEF Relays
<1>10. ASSUME NEW s \in Pages, NEW m \in Matches, OnDataChannel(s, m)
       PROVE  IInv'
  BY <1>10, OnDataChannelObjects, QuietLobby DEF OnDataChannel
<1> QED
  BY <1>1, <1>2, <1>3, <1>4, <1>5, <1>6, <1>7, <1>8, <1>9, <1>10 DEF Next, Handle

\* However the awaits of one match are cut short, a page's connection, channel,
\* engine and remote description are of one match, and no connection of an
\* earlier match is left: for any number of matches and candidates.
THEOREM NothingOfAnEarlierMatch == Spec => []OneMatchAtATime
<1>1. IInv /\ [Next]_vars => IInv'
  BY StepIInv
<1>2. IInv => OneMatchAtATime
  BY DEF IInv, ObjectsInv
<1> QED
  BY <1>1, <1>2, InitIInv, PTL DEF Spec

-----------------------------------------------------------------------------
(* No candidate is lost: the invariant. *)

AddIceCall(m) == [op |-> "addIce", of |-> m]

\* The lines that bring a description of match m, and what they make a page call.
Descriptions(m) == {[t |-> "offer", of |-> m], [t |-> "answer", of |-> m]}
RemoteCalls(m) ==
  {[op |-> "setRemoteOffer", of |-> m], [op |-> "setRemoteAnswer", of |-> m]}

\* Some element of D is in q; one is before every x in q.
Has(q, D) == \E i \in DOMAIN q : q[i] \in D
Led(q, x, D) ==
  \A i \in DOMAIN q : q[i] = x => \E j \in DOMAIN q : j < i /\ q[j] \in D

\* A page that does not play match m has no connection of it.
Fresh ==
  \A s \in Pages, m \in Matches : game[s] # m =>
    /\ chain[s][m] = <<>> /\ ~ local[s][m] /\ remote[s][m] = None
    /\ undiscovered[s][m] = 0 /\ added[s][m] = 0

\* When both pages are in one match, or come to be, it is the server's.
Together ==
  \A s \in Pages :
    ~ leaving[s] /\ ~ leaving[Other(s)] /\ Current(s) = Current(Other(s)) =>
      Current(s) \in {None, match}

\* What one page sends the other of match m: in `out' on its way to the server,
\* in `in' on its way from it, in `ops' called on the other's connection.
InFlight(m, out, in, ops) ==
  Times(Candidate(m), out) + Times(Candidate(m), in) + Times(AddIceCall(m), ops)

\* The description precedes the candidates wherever they are, and has been sent
\* once it is the sender's local one (`sent'); `set' is the other's remote one.
DescriptionFirst(m, out, in, ops, set, sent) ==
  set # m =>
    /\ Led(ops, AddIceCall(m), RemoteCalls(m))
    /\ ~ Has(ops, RemoteCalls(m)) =>
         /\ Led(in, Candidate(m), Descriptions(m))
         /\ ~ Has(in, Descriptions(m)) =>
              /\ Led(out, Candidate(m), Descriptions(m))
              /\ ~ Has(out, Descriptions(m)) => ~ sent

\* From page s to page t in match m.  Page s has its candidates once it has a
\* connection.
Linked(s, t, m) ==
  /\ DescriptionFirst(m, toServer[s], inbox[t], chain[t][m], remote[t][m], local[s][m])
  /\ undiscovered[s][m] + InFlight(m, toServer[s], inbox[t], chain[t][m]) + added[t][m]
       = IF game[s] = m THEN MaxIce ELSE 0

PagesLinked ==
  \A s \in Pages : match # None /\ ~ leaving[s] /\ ~ leaving[Other(s)] =>
    Linked(s, Other(s), match)

\* NoCandidateLost is not inductive: a candidate is lost when it is added before
\* the description, which is a matter of the order they were sent in.
IceInv ==
  /\ Fresh
  /\ Together
  /\ PagesLinked

-----------------------------------------------------------------------------
(* No candidate is lost: counting in queues. *)

LEMMA PlacesAreFinite ==
  ASSUME NEW S, NEW q \in Seq(S), NEW x
  PROVE  /\ IsFiniteSet({i \in DOMAIN q : q[i] = x})
         /\ Times(x, q) \in Nat
         /\ Times(x, q) = 0 <=> \A i \in DOMAIN q : q[i] # x
<1> DEFINE places == {i \in DOMAIN q : q[i] = x}
<1>1. Len(q) \in Nat /\ places \in SUBSET (1 .. Len(q))
  OBVIOUS
<1>2. IsFiniteSet(1 .. Len(q))
  BY <1>1, FS_Interval
<1>3. Times(x, q) = Cardinality(places)
  BY DEF Times
<1>4. places = {} <=> \A i \in DOMAIN q : q[i] # x
  OBVIOUS
<1> HIDE DEF places
<1>5. IsFiniteSet(places)
  BY <1>1, <1>2, FS_Subset
<1>6. Cardinality(places) \in Nat /\ (Cardinality(places) = 0 <=> places = {})
  BY <1>5, FS_CardinalityType, FS_EmptySet
<1> QED
  BY <1>3, <1>4, <1>5, <1>6 DEF places

LEMMA TimesAppend ==
  ASSUME NEW S, NEW q \in Seq(S), NEW x, NEW y \in S
  PROVE  Times(x, Append(q, y)) = Times(x, q) + IF x = y THEN 1 ELSE 0
<1> DEFINE q1     == Append(q, y)
           n      == Len(q) + 1
           places == {i \in DOMAIN q : q[i] = x}
           more   == {i \in DOMAIN q1 : q1[i] = x}
<1>1. /\ Len(q) \in Nat /\ DOMAIN q = 1 .. Len(q) /\ DOMAIN q1 = 1 .. n
      /\ \A i \in DOMAIN q : q1[i] = q[i]
      /\ q1[n] = y
  OBVIOUS
<1>2. n \notin DOMAIN q /\ DOMAIN q1 = DOMAIN q \union {n}
  BY <1>1
<1>3. IsFiniteSet(places) /\ Times(x, q) = Cardinality(places) /\ Times(x, q) \in Nat
  BY PlacesAreFinite DEF Times
<1>4. Times(x, q1) = Cardinality(more)
  BY DEF Times
<1> HIDE DEF q1, n
<1>5. n \notin places
  BY <1>2
<1>6. CASE x = y
  <2>1. more = places \union {n}
    BY <1>1, <1>2, <1>6
  <2> HIDE DEF more, places
  <2>2. Cardinality(more) = Cardinality(places) + 1
    BY <1>3, <1>5, <2>1, FS_AddElement
  <2> QED
    BY <1>3, <1>4, <1>6, <2>2 DEF q1
<1>7. CASE x # y
  <2>1. more = places
    BY <1>1, <1>2, <1>7
  <2> HIDE DEF more, places
  <2> QED
    BY <1>3, <1>4, <1>7, <2>1 DEF q1
<1> QED
  BY <1>6, <1>7

LEMMA TimesTail ==
  ASSUME NEW S, NEW q \in Seq(S), q # <<>>, NEW x
  PROVE  Times(x, q) = Times(x, Tail(q)) + IF x = Head(q) THEN 1 ELSE 0
<1> DEFINE r      == Tail(q)
           places == {i \in DOMAIN q : q[i] = x}
           rest   == {i \in DOMAIN r : r[i] = x}
           after  == places \ {1}
<1>1. /\ Len(q) \in Nat /\ DOMAIN q = 1 .. Len(q) /\ Len(q) >= 1
      /\ r \in Seq(S) /\ DOMAIN r = 1 .. Len(q) - 1
      /\ \A i \in DOMAIN r : r[i] = q[i + 1]
      /\ Head(q) = q[1]
  OBVIOUS
<1>2. IsFiniteSet(places) /\ Times(x, q) = Cardinality(places) /\ Times(x, q) \in Nat
  BY PlacesAreFinite DEF Times
<1> HIDE DEF r
<1>3. IsFiniteSet(rest) /\ Times(x, r) = Cardinality(rest) /\ Times(x, r) \in Nat
  <2>1. r \in Seq(S)
    BY <1>1
  <2> QED
    BY <2>1, PlacesAreFinite DEF Times
<1>4. Cardinality(after) = Cardinality(rest)
  <2> DEFINE f == [i \in rest |-> i + 1]
  <2>1. \A i \in rest : i \in Nat /\ i + 1 \in after
    BY <1>1
  <2>2. \A j \in after : j - 1 \in rest /\ (j - 1) + 1 = j
    BY <1>1
  <2>3. /\ f \in [rest -> after]
        /\ \A i, j \in rest : f[i] = f[j] => i = j
        /\ \A j \in after : \E i \in rest : f[i] = j
    <3> HIDE DEF rest, after
    <3>1. f \in [rest -> after]
      BY <2>1
    <3>2. \A i, j \in rest : f[i] = f[j] => i = j
      BY <2>1
    <3>3. \A j \in after : j - 1 \in rest /\ f[j - 1] = j
      BY <2>2
    <3> QED
      BY <3>1, <3>2, <3>3
  <2> HIDE DEF f, rest, after
  <2>4. ExistsBijection(rest, after)
    <3>1. f \in Bijection(rest, after)
      BY <2>3 DEF Bijection, Injection, Surjection, IsInjective
    <3> QED
      BY <3>1 DEF ExistsBijection
  <2> QED
    BY <1>3, <2>4, FS_Bijection
<1>5. Cardinality(after) = IF 1 \in places THEN Cardinality(places) - 1
                           ELSE Cardinality(places)
  <2> HIDE DEF places
  <2> QED
    BY <1>2, FS_RemoveElement
<1>6. 1 \in places <=> x = Head(q)
  BY <1>1
<1> HIDE DEF places, rest, after
<1> QED
  BY <1>2, <1>3, <1>4, <1>5, <1>6 DEF r

\* Something more in a queue.
LEMMA LedAppend ==
  ASSUME NEW S, NEW q \in Seq(S), NEW x, NEW y \in S, NEW D
  PROVE  /\ Led(q, x, D) /\ (x = y => Has(q, D)) => Led(Append(q, y), x, D)
         /\ Has(Append(q, y), D) <=> Has(q, D) \/ y \in D
<1> DEFINE q1 == Append(q, y)
           n  == Len(q) + 1
<1>1. /\ Len(q) \in Nat /\ DOMAIN q = 1 .. Len(q) /\ DOMAIN q1 = 1 .. n
      /\ \A i \in DOMAIN q : q1[i] = q[i]
      /\ q1[n] = y
  OBVIOUS
<1>2. /\ n \notin DOMAIN q /\ DOMAIN q1 = DOMAIN q \union {n}
      /\ \A i \in DOMAIN q : i < n
  BY <1>1
<1> HIDE DEF q1, n
<1>3. Has(q1, D) <=> Has(q, D) \/ y \in D
  BY <1>1, <1>2 DEF Has
<1>4. ASSUME Led(q, x, D), x = y => Has(q, D)
      PROVE  Led(q1, x, D)
  <2> SUFFICES ASSUME NEW i \in DOMAIN q1, q1[i] = x
               PROVE  \E j \in DOMAIN q1 : j < i /\ q1[j] \in D
    BY DEF Led
  <2>1. CASE i = n
    BY <1>1, <1>2, <1>4, <2>1 DEF Has
  <2>2. CASE i # n
    BY <1>1, <1>2, <1>4, <2>2 DEF Led
  <2> QED
    BY <2>1, <2>2
<1> QED
  BY <1>3, <1>4 DEF q1

\* The first taken from a queue.
LEMMA LedTail ==
  ASSUME NEW S, NEW q \in Seq(S), q # <<>>, NEW x, NEW D
  PROVE  /\ Led(q, x, D) => Head(q) # x
         /\ Led(q, x, D) /\ Head(q) \notin D => Led(Tail(q), x, D)
         /\ Head(q) \notin D => (Has(Tail(q), D) <=> Has(q, D))
<1> DEFINE r == Tail(q)
<1>1. /\ Len(q) \in Nat /\ DOMAIN q = 1 .. Len(q) /\ Len(q) >= 1
      /\ DOMAIN r = 1 .. Len(q) - 1
      /\ \A i \in DOMAIN r : r[i] = q[i + 1]
      /\ Head(q) = q[1]
  OBVIOUS
<1> HIDE DEF r
<1>2. Led(q, x, D) => Head(q) # x
  BY <1>1 DEF Led
<1>3. /\ \A i \in DOMAIN r : i \in Nat /\ i + 1 \in DOMAIN q
      /\ \A j \in DOMAIN q : j # 1 => j - 1 \in DOMAIN r /\ r[j - 1] = q[j]
  <2>1. \A j \in DOMAIN q : j # 1 => j - 1 \in DOMAIN r /\ (j - 1) + 1 = j
    BY <1>1
  <2>2. \A j \in DOMAIN q : j # 1 => r[j - 1] = q[j]
    BY <1>1, <2>1
  <2> QED
    BY <1>1, <2>1, <2>2
<1>4. ASSUME Head(q) \notin D
      PROVE  Has(r, D) <=> Has(q, D)
  BY <1>1, <1>3, <1>4 DEF Has
<1>5. ASSUME Led(q, x, D), Head(q) \notin D
      PROVE  Led(r, x, D)
  <2> SUFFICES ASSUME NEW i \in DOMAIN r, r[i] = x
               PROVE  \E j \in DOMAIN r : j < i /\ r[j] \in D
    BY DEF Led
  <2>1. i + 1 \in DOMAIN q /\ q[i + 1] = x /\ i \in Nat
    BY <1>1, <1>3
  <2>2. PICK j \in DOMAIN q : j < i + 1 /\ q[j] \in D
    BY <1>5, <2>1 DEF Led
  <2>3. j # 1
    BY <1>1, <1>5, <2>2
  <2>4. j - 1 \in DOMAIN r /\ r[j - 1] \in D
    BY <1>3, <2>2, <2>3
  <2>5. j - 1 < i
    BY <1>1, <2>1, <2>2
  <2> QED
    BY <2>4, <2>5
<1> QED
  BY <1>2, <1>4, <1>5 DEF r


-----------------------------------------------------------------------------
(* No candidate is lost: what moves along, for any queues. *)

\* The first of q2 is moved, or becomes a call, at the end of q1.
LEMMA LedMove ==
  ASSUME NEW S1, NEW S2, NEW q1 \in Seq(S1), NEW q2 \in Seq(S2), q2 # <<>>,
         NEW y \in S1, NEW x1, NEW x2, NEW D1, NEW D2,
         y = x1 => Head(q2) = x2, y \in D1 <=> Head(q2) \in D2,
         Led(q1, x1, D1), ~ Has(q1, D1) => Led(q2, x2, D2)
  PROVE  /\ Led(Append(q1, y), x1, D1)
         /\ ~ Has(Append(q1, y), D1) =>
              /\ ~ Has(q1, D1)
              /\ Led(Tail(q2), x2, D2)
              /\ Has(Tail(q2), D2) <=> Has(q2, D2)
<1>1. y = x1 => Has(q1, D1)
  BY LedTail
<1>2. Led(Append(q1, y), x1, D1)
  BY <1>1, LedAppend
<1>3. Has(Append(q1, y), D1) <=> Has(q1, D1) \/ y \in D1
  BY LedAppend
<1>4. ASSUME ~ Has(q1, D1), y \notin D1
      PROVE  Led(Tail(q2), x2, D2) /\ (Has(Tail(q2), D2) <=> Has(q2, D2))
  BY <1>4, LedTail
<1> QED
  BY <1>2, <1>3, <1>4

LEMMA InFlightIsNat ==
  ASSUME NEW m, NEW out \in Seq(Request), NEW in \in Seq(Message), NEW ops \in Seq(Operation)
  PROVE  /\ InFlight(m, out, in, ops) \in Nat
         /\ Times(Candidate(m), out) \in Nat
         /\ Times(Candidate(m), in) \in Nat
         /\ Times(AddIceCall(m), ops) \in Nat
<1>1. Times(Candidate(m), out) \in Nat
  BY PlacesAreFinite
<1>2. Times(Candidate(m), in) \in Nat
  BY PlacesAreFinite
<1>3. Times(AddIceCall(m), ops) \in Nat
  BY PlacesAreFinite
<1> QED
  BY <1>1, <1>2, <1>3 DEF InFlight

\* The server relays.
LEMMA Relayed ==
  ASSUME NEW m, NEW out \in Seq(Request), NEW in \in Seq(Message),
         NEW ops \in Seq(Operation), NEW set, NEW sent,
         out # <<>>, Head(out) \in Message,
         DescriptionFirst(m, out, in, ops, set, sent)
  PROVE  /\ DescriptionFirst(m, Tail(out), Append(in, Head(out)), ops, set, sent)
         /\ InFlight(m, Tail(out), Append(in, Head(out)), ops) = InFlight(m, out, in, ops)
<1> DEFINE line == Head(out)
           C    == Candidate(m)
           D    == Descriptions(m)
<1>1. ASSUME set # m, ~ Has(ops, RemoteCalls(m))
      PROVE  /\ Led(Append(in, line), C, D)
             /\ ~ Has(Append(in, line), D) =>
                  /\ ~ Has(in, D)
                  /\ Led(Tail(out), C, D)
                  /\ Has(Tail(out), D) <=> Has(out, D)
  <2>1. Led(in, C, D) /\ (~ Has(in, D) => Led(out, C, D))
    BY <1>1 DEF DescriptionFirst
  <2> HIDE DEF C, D
  <2> QED
    BY <2>1, LedMove
<1>2. DescriptionFirst(m, Tail(out), Append(in, line), ops, set, sent)
  BY <1>1 DEF DescriptionFirst
<1>3. Times(C, out) = Times(C, Tail(out)) + IF C = line THEN 1 ELSE 0
  BY TimesTail
<1>4. Times(C, Append(in, line)) = Times(C, in) + IF C = line THEN 1 ELSE 0
  BY TimesAppend
<1>5. Times(C, Tail(out)) \in Nat
  <2>1. Tail(out) \in Seq(Request)
    BY Tailed
  <2> QED
    BY <2>1, PlacesAreFinite
<1>6. Times(C, in) \in Nat /\ Times(AddIceCall(m), ops) \in Nat
  BY InFlightIsNat
<1> HIDE DEF line, C
<1>7. InFlight(m, Tail(out), Append(in, line), ops) = InFlight(m, out, in, ops)
  BY <1>3, <1>4, <1>5, <1>6 DEF InFlight, C
<1> QED
  BY <1>2, <1>7 DEF line

\* The other page calls what the line makes it call.
LEMMA Called ==
  ASSUME NEW m, NEW out \in Seq(Request), NEW in \in Seq(Message),
         NEW ops \in Seq(Operation), NEW set, NEW sent,
         in # <<>>, NEW op \in Operation,
         op = AddIceCall(m) <=> Head(in) = Candidate(m),
         op \in RemoteCalls(m) <=> Head(in) \in Descriptions(m),
         DescriptionFirst(m, out, in, ops, set, sent)
  PROVE  /\ DescriptionFirst(m, out, Tail(in), Append(ops, op), set, sent)
         /\ InFlight(m, out, Tail(in), Append(ops, op)) = InFlight(m, out, in, ops)
<1> DEFINE line == Head(in)
           C    == Candidate(m)
           D    == Descriptions(m)
           A    == AddIceCall(m)
           R    == RemoteCalls(m)
<1>1. ASSUME set # m
      PROVE  /\ Led(Append(ops, op), A, R)
             /\ ~ Has(Append(ops, op), R) =>
                  /\ ~ Has(ops, R)
                  /\ Led(Tail(in), C, D)
                  /\ Has(Tail(in), D) <=> Has(in, D)
  <2>1. Led(ops, A, R) /\ (~ Has(ops, R) => Led(in, C, D))
    BY <1>1 DEF DescriptionFirst
  <2>2. (op = A <=> line = C) /\ (op \in R <=> line \in D)
    OBVIOUS
  <2> HIDE DEF C, D, A, R
  <2> QED
    BY <2>1, <2>2, LedMove
<1>2. DescriptionFirst(m, out, Tail(in), Append(ops, op), set, sent)
  BY <1>1 DEF DescriptionFirst
<1>3. Times(C, in) = Times(C, Tail(in)) + IF C = line THEN 1 ELSE 0
  BY TimesTail
<1>4. Times(A, Append(ops, op)) = Times(A, ops) + IF A = op THEN 1 ELSE 0
  BY TimesAppend
<1>5. Times(C, Tail(in)) \in Nat
  <2>1. Tail(in) \in Seq(Message)
    BY Tailed
  <2> QED
    BY <2>1, PlacesAreFinite
<1>6. Times(C, out) \in Nat /\ Times(A, ops) \in Nat
  BY InFlightIsNat
<1>7. C = line <=> A = op
  OBVIOUS
<1> HIDE DEF line, C, A
<1>8. InFlight(m, out, Tail(in), Append(ops, op)) = InFlight(m, out, in, ops)
  BY <1>3, <1>4, <1>5, <1>6, <1>7 DEF InFlight, C, A
<1> QED
  BY <1>2, <1>8

\* The first operation is done.  A description that is set leads no more; before
\* it is, no candidate is the first.
LEMMA Settled ==
  ASSUME NEW m, NEW out \in Seq(Request), NEW in \in Seq(Message),
         NEW ops \in Seq(Operation), NEW set, NEW sent,
         ops # <<>>,
         DescriptionFirst(m, out, in, ops, set, sent)
  PROVE  /\ Head(ops) \notin RemoteCalls(m) =>
              DescriptionFirst(m, out, in, Tail(ops), set, sent)
         /\ DescriptionFirst(m, out, in, Tail(ops), m, sent)
         /\ Head(ops) = AddIceCall(m) => set = m
         /\ InFlight(m, out, in, Tail(ops))
              = InFlight(m, out, in, ops) - IF Head(ops) = AddIceCall(m) THEN 1 ELSE 0
<1> DEFINE A == AddIceCall(m)
           R == RemoteCalls(m)
<1>1. DescriptionFirst(m, out, in, Tail(ops), m, sent)
  BY DEF DescriptionFirst
<1>2. ASSUME set # m
      PROVE  /\ Head(ops) # A
             /\ Head(ops) \notin R =>
                  Led(Tail(ops), A, R) /\ (Has(Tail(ops), R) <=> Has(ops, R))
  <2>1. Led(ops, A, R)
    BY <1>2 DEF DescriptionFirst
  <2> HIDE DEF A, R
  <2> QED
    BY <2>1, LedTail
<1>3. Head(ops) \notin R => DescriptionFirst(m, out, in, Tail(ops), set, sent)
  BY <1>2 DEF DescriptionFirst
<1>4. Times(A, ops) = Times(A, Tail(ops)) + IF A = Head(ops) THEN 1 ELSE 0
  BY TimesTail
<1>5. Times(A, Tail(ops)) \in Nat
  <2>1. Tail(ops) \in Seq(Operation)
    BY Tailed
  <2> QED
    BY <2>1, PlacesAreFinite
<1>6. Times(Candidate(m), out) \in Nat /\ Times(Candidate(m), in) \in Nat
  BY InFlightIsNat
<1> HIDE DEF A
<1>7. InFlight(m, out, in, Tail(ops))
        = InFlight(m, out, in, ops) - IF Head(ops) = A THEN 1 ELSE 0
  BY <1>4, <1>5, <1>6 DEF InFlight, A
<1> QED
  BY <1>1, <1>2, <1>3, <1>7 DEF A

\* A call that is neither of a description nor of a candidate.
LEMMA CalledOther ==
  ASSUME NEW m, NEW out \in Seq(Request), NEW in \in Seq(Message),
         NEW ops \in Seq(Operation), NEW set, NEW sent,
         NEW op \in Operation, op # AddIceCall(m), op \notin RemoteCalls(m),
         DescriptionFirst(m, out, in, ops, set, sent)
  PROVE  /\ DescriptionFirst(m, out, in, Append(ops, op), set, sent)
         /\ InFlight(m, out, in, Append(ops, op)) = InFlight(m, out, in, ops)
<1> DEFINE A == AddIceCall(m)
           R == RemoteCalls(m)
<1>1. /\ Led(ops, A, R) => Led(Append(ops, op), A, R)
      /\ Has(Append(ops, op), R) <=> Has(ops, R)
  <2>1. op # A /\ op \notin R
    OBVIOUS
  <2> HIDE DEF A, R
  <2> QED
    BY <2>1, LedAppend
<1>2. DescriptionFirst(m, out, in, Append(ops, op), set, sent)
  BY <1>1 DEF DescriptionFirst
<1>3. Times(A, Append(ops, op)) = Times(A, ops)
  <2>1. Times(A, Append(ops, op)) = Times(A, ops) + 0
    BY TimesAppend
  <2>2. Times(A, ops) \in Nat
    BY PlacesAreFinite
  <2> HIDE DEF A
  <2> QED
    BY <2>1, <2>2
<1> QED
  BY <1>2, <1>3 DEF InFlight

\* The description is sent, after it has become the local one.
LEMMA SentDescription ==
  ASSUME NEW m, NEW out \in Seq(Request), NEW in \in Seq(Message),
         NEW ops \in Seq(Operation), NEW set, NEW sent,
         NEW line \in Request, line \in Descriptions(m),
         DescriptionFirst(m, out, in, ops, set, sent)
  PROVE  /\ DescriptionFirst(m, Append(out, line), in, ops, set, TRUE)
         /\ InFlight(m, Append(out, line), in, ops) = InFlight(m, out, in, ops)
<1> DEFINE C == Candidate(m)
           D == Descriptions(m)
<1>1. line # C
  BY DEF Candidate, Descriptions
<1>2. /\ Led(out, C, D) => Led(Append(out, line), C, D)
      /\ Has(Append(out, line), D)
  <2>1. line \in D
    OBVIOUS
  <2> HIDE DEF C, D
  <2> QED
    BY <1>1, <2>1, LedAppend
<1>3. DescriptionFirst(m, Append(out, line), in, ops, set, TRUE)
  BY <1>2 DEF DescriptionFirst
<1>4. Times(C, Append(out, line)) = Times(C, out)
  <2>1. Times(C, Append(out, line)) = Times(C, out) + IF C = line THEN 1 ELSE 0
    BY TimesAppend
  <2>2. Times(C, out) \in Nat
    BY PlacesAreFinite
  <2> HIDE DEF C
  <2> QED
    BY <1>1, <2>1, <2>2
<1> QED
  BY <1>3, <1>4 DEF InFlight

\* A candidate is sent, after the description.
LEMMA SentCandidate ==
  ASSUME NEW m, NEW out \in Seq(Request), NEW in \in Seq(Message),
         NEW ops \in Seq(Operation), NEW set, NEW sent,
         Candidate(m) \in Request, sent,
         DescriptionFirst(m, out, in, ops, set, sent)
  PROVE  /\ DescriptionFirst(m, Append(out, Candidate(m)), in, ops, set, sent)
         /\ InFlight(m, Append(out, Candidate(m)), in, ops) = InFlight(m, out, in, ops) + 1
<1> DEFINE C == Candidate(m)
           D == Descriptions(m)
           out1 == Append(out, C)
<1>1. Has(out, D) => /\ Led(out, C, D) => Led(out1, C, D)
                     /\ Has(out1, D)
  <2>1. C \in Request
    OBVIOUS
  <2> HIDE DEF C, D
  <2> QED
    BY <2>1, LedAppend
<1>2. DescriptionFirst(m, out1, in, ops, set, sent)
  <2> HIDE DEF out1
  <2> QED
    BY <1>1 DEF DescriptionFirst
<1>3. Times(C, out1) = Times(C, out) + 1
  <2>1. C \in Request
    OBVIOUS
  <2> HIDE DEF C
  <2> QED
    BY <2>1, TimesAppend
<1>4. Times(C, out) \in Nat /\ Times(C, in) \in Nat /\ Times(AddIceCall(m), ops) \in Nat
  BY InFlightIsNat
<1> HIDE DEF out1, C
<1>5. InFlight(m, out1, in, ops) = InFlight(m, out, in, ops) + 1
  BY <1>3, <1>4 DEF InFlight, C
<1> QED
  BY <1>2, <1>5 DEF out1, C

-----------------------------------------------------------------------------
(* No candidate is lost: the steps. *)

\* Only the connection of the match page s plays has changed.
LEMMA FreshKept ==
  ASSUME Fresh, NEW s \in Pages, NEW m \in Matches,
         game[s] \in {None, m}, game'[s] = m,
         \A x \in Pages : x # s => game'[x] = game[x],
         \A x \in Pages, n \in Matches : x # s \/ n # m =>
           /\ chain'[x][n] = chain[x][n] /\ local'[x][n] = local[x][n]
           /\ remote'[x][n] = remote[x][n] /\ undiscovered'[x][n] = undiscovered[x][n]
           /\ added'[x][n] = added[x][n]
  PROVE  Fresh'
<1> SUFFICES ASSUME NEW x \in Pages, NEW n \in Matches, game'[x] # n
             PROVE  /\ chain'[x][n] = <<>> /\ ~ local'[x][n] /\ remote'[x][n] = None
                    /\ undiscovered'[x][n] = 0 /\ added'[x][n] = 0
  BY DEF Fresh
<1>1. x # s \/ n # m
  OBVIOUS
<1>2. game[x] # n
  BY NoneIsNoMatch
<1> QED
  BY <1>1, <1>2 DEF Fresh

LEMMA StopFresh ==
  ASSUME ObjectsInv, Fresh, NEW s \in Pages, Stop(s)
  PROVE  Fresh'
<1>1. /\ game' = [game EXCEPT ![s] = None]
      /\ chain' = [chain EXCEPT ![s] = [m \in Matches |-> <<>>]]
      /\ local' = [local EXCEPT ![s] = [m \in Matches |-> FALSE]]
      /\ remote' = [remote EXCEPT ![s] = [m \in Matches |-> None]]
      /\ undiscovered' = [undiscovered EXCEPT ![s] = [m \in Matches |-> 0]]
      /\ added' = [added EXCEPT ![s] = [m \in Matches |-> 0]]
  BY DEF Stop
<1>2. /\ game \in [Pages -> Matches \union {None}]
      /\ chain \in [Pages -> [Matches -> Seq(Operation)]]
      /\ local \in [Pages -> [Matches -> BOOLEAN]]
      /\ remote \in [Pages -> [Matches -> Matches \union {None}]]
      /\ undiscovered \in [Pages -> [Matches -> Nat]]
      /\ added \in [Pages -> [Matches -> Nat]]
  BY DEF ObjectsInv, ObjectsTyped, OfTheirMatch
<1>3. ASSUME NEW x \in Pages, NEW n \in Matches, game'[x] # n
      PROVE  /\ chain'[x][n] = <<>> /\ ~ local'[x][n] /\ remote'[x][n] = None
             /\ undiscovered'[x][n] = 0 /\ added'[x][n] = 0
  <2>1. CASE x = s
    BY <1>1, <1>2, <2>1
  <2>2. CASE x # s
    BY <1>1, <1>2, <1>3, <2>2 DEF Fresh
  <2> QED
    BY <2>1, <2>2
<1> QED
  BY <1>3 DEF Fresh

\* A page whose current match has changed is gone, or has none now.
LEMMA TogetherKept ==
  ASSUME Together,
         \A x \in Pages : \/ leaving'[x]
                          \/ Current(x)' = None
                          \/ ~ leaving[x] /\ Current(x)' = Current(x),
         \/ match' = match
         \/ \E x \in Pages : leaving'[x] \/ Current(x)' = None
  PROVE  Together'
<1> SUFFICES ASSUME NEW s \in Pages, ~ leaving'[s], ~ leaving'[Other(s)],
                    Current(s)' = Current(Other(s))', Current(s)' # None
             PROVE  Current(s)' = match'
  BY DEF Together
<1>1. Other(s) \in Pages /\ Pages = {s, Other(s)}
  BY TwoPages
<1>2. /\ ~ leaving[s] /\ ~ leaving[Other(s)]
      /\ Current(s)' = Current(s) /\ Current(Other(s))' = Current(Other(s))
  BY <1>1
<1>3. match' = match
  BY <1>1
<1> QED
  BY <1>2, <1>3 DEF Together

\* A link after a step.
LEMMA LinkedNext ==
  ASSUME NEW s, NEW t, NEW m
  PROVE  Linked(s, t, m)' <=>
           /\ DescriptionFirst(m, toServer'[s], inbox'[t], chain'[t][m], remote'[t][m],
                               local'[s][m])
           /\ undiscovered'[s][m] + InFlight(m, toServer'[s], inbox'[t], chain'[t][m])
                + added'[t][m]
                = IF game'[s] = m THEN MaxIce ELSE 0
BY DEF Linked, DescriptionFirst, InFlight, Has, Led, Times, Candidate, AddIceCall,
       Descriptions, RemoteCalls

\* Nothing that the link from s to t is about has changed.
LEMMA LinkedKept ==
  ASSUME NEW s \in Pages, NEW t \in Pages, NEW m \in Matches, Linked(s, t, m),
         toServer'[s] = toServer[s], inbox'[t] = inbox[t], chain'[t][m] = chain[t][m],
         remote'[t][m] = remote[t][m], local'[s][m] = local[s][m],
         undiscovered'[s][m] = undiscovered[s][m], added'[t][m] = added[t][m],
         game'[s] = game[s]
  PROVE  Linked(s, t, m)'
BY LinkedNext DEF Linked

\* With both pages there, both links are to be shown.
LEMMA PagesLinkedNext ==
  ASSUME NEW s \in Pages, LobbyInv, PagesLinked, match' = match, UNCHANGED leaving,
         match \in Matches /\ ~ leaving[s] /\ ~ leaving[Other(s)]
           /\ Linked(s, Other(s), match) /\ Linked(Other(s), s, match) =>
             Linked(s, Other(s), match)' /\ Linked(Other(s), s, match)'
  PROVE  PagesLinked'
<1>1. Other(s) \in Pages /\ Pages = {s, Other(s)} /\ Other(s) # s
  BY TwoPages
<1>2. Other(Other(s)) = s
  <2>1. Other(Other(s)) \in Pages /\ Other(Other(s)) # Other(s)
    BY <1>1, TwoPages
  <2> QED
    BY <1>1, <2>1
<1>3. CASE match = None \/ leaving[s] \/ leaving[Other(s)]
  BY <1>1, <1>2, <1>3 DEF PagesLinked
<1>4. CASE match # None /\ ~ leaving[s] /\ ~ leaving[Other(s)]
  <2>1. match \in Matches
    BY <1>4 DEF LobbyInv, LobbyTyped
  <2>2. Linked(s, Other(s), match) /\ Linked(Other(s), s, match)
    BY <1>1, <1>2, <1>4 DEF PagesLinked
  <2>3. Linked(s, Other(s), match)' /\ Linked(Other(s), s, match)'
    BY <1>4, <2>1, <2>2
  <2> QED
    BY <1>1, <1>2, <2>3 DEF PagesLinked
<1> QED
  BY <1>3, <1>4

\* The queues of a link.
LEMMA LinkTypes ==
  ASSUME LobbyInv, ObjectsInv, NEW s \in Pages, NEW t \in Pages, NEW m \in Matches
  PROVE  /\ toServer[s] \in Seq(Request)
         /\ inbox[t] \in Seq(Message)
         /\ chain[t][m] \in Seq(Operation)
         /\ undiscovered[s][m] \in Nat /\ added[t][m] \in Nat
         /\ InFlight(m, toServer[s], inbox[t], chain[t][m]) \in Nat
<1>1. /\ toServer[s] \in Seq(Request)
      /\ inbox[t] \in Seq(Message)
      /\ chain[t][m] \in Seq(Operation)
      /\ undiscovered[s][m] \in Nat /\ added[t][m] \in Nat
  BY DEF LobbyInv, LobbyTyped, ObjectsInv, ObjectsTyped, OfTheirMatch
<1> QED
  BY <1>1, InFlightIsNat

\* The server's match is that of a page which plays.
LEMMA PlayedMatch ==
  ASSUME LobbyInv, NEW s \in Pages, game[s] # None
  PROVE  ~ leaving[s] /\ Current(s) = game[s] /\ match \in {None, game[s]}
<1>1. ~ leaving[s] /\ InboxInOrder(s) /\ inbox[s] \in Seq(Message)
  BY DEF LobbyInv, LobbyTyped, GonePages, PagesInOrder
<1>2. inbox[s] # <<>> => 1 \in DOMAIN inbox[s] /\ Head(inbox[s]) = inbox[s][1]
  BY <1>1
<1> QED
  BY <1>1, <1>2 DEF InboxInOrder, Current

LEMMA AskIce ==
  ASSUME IInv, IceInv, NEW s \in Pages, Ask(s)
  PROVE  IceInv'
<1>1. /\ game[s] = None /\ ~ asked[s] /\ ~ leaving[s]
      /\ UNCHANGED <<game, leaving, objects, inbox, match>>
  BY DEF Ask, fields, lobby
<1>2. match = None
  BY <1>1 DEF IInv, LobbyInv, MenuPages
<1>3. Fresh'
  BY <1>1 DEF IceInv, Fresh, objects
<1>4. Together'
  BY <1>1 DEF IceInv, Together, Current
<1>5. PagesLinked'
  BY <1>1, <1>2 DEF PagesLinked
<1> QED
  BY <1>3, <1>4, <1>5 DEF IceInv

LEMMA LeaveIce ==
  ASSUME IInv, IceInv, NEW s \in Pages, Leave(s)
  PROVE  IceInv'
<1>1. /\ Stop(s)
      /\ leaving' = [leaving EXCEPT ![s] = TRUE]
      /\ game' = [game EXCEPT ![s] = None]
      /\ inbox' = [inbox EXCEPT ![s] = <<>>]
      /\ UNCHANGED match
  BY DEF Leave, Stop, lobby
<1>2. /\ leaving'[s]
      /\ \A x \in Pages : x # s =>
           /\ leaving'[x] = leaving[x] /\ game'[x] = game[x] /\ inbox'[x] = inbox[x]
  BY <1>1 DEF IInv, LobbyInv, LobbyTyped
<1>3. Pages = {s, Other(s)}
  BY TwoPages
<1>4. Fresh'
  BY <1>1, StopFresh DEF IInv, IceInv
<1>5. Together'
  <2>1. \A x \in Pages : leaving'[x] \/ (~ leaving[x] /\ Current(x)' = Current(x))
    BY <1>2 DEF Current
  <2> QED
    BY <1>2, <2>1, TogetherKept DEF IceInv
<1>6. PagesLinked'
  <2>1. \A x \in Pages : x = s \/ Other(x) = s
    BY <1>3, TwoPages
  <2> QED
    BY <1>2, <2>1 DEF PagesLinked
<1> QED
  BY <1>4, <1>5, <1>6 DEF IceInv

LEMMA ServeAskIce ==
  ASSUME IInv, IceInv, NEW s \in Pages, ServeAsk(s)
  PROVE  IceInv'
<1> USE DEF IInv
<1>1. /\ ReadsFrom(s, "ask")
      /\ UNCHANGED <<game, leaving, chain, local, remote, undiscovered, added>>
  BY DEF ServeAsk, fields, objects
<1>2. Fresh'
  BY <1>1 DEF IceInv, Fresh
<1>3. match = None /\ waiting # s /\ Expects(s)
  BY <1>1, ReadFacts DEF LobbyInv, AskingPages
<1>4. CASE waiting = Nobody
  <2>1. UNCHANGED <<match, inbox>>
    BY <1>4 DEF ServeAsk
  <2>2. Together'
    BY <1>1, <2>1 DEF IceInv, Together, Current
  <2>3. PagesLinked'
    BY <1>3, <2>1 DEF PagesLinked
  <2> QED
    BY <1>2, <2>2, <2>3 DEF IceInv
<1>5. CASE waiting # Nobody
  <2>0. PICK m \in Matches : m = made + 1 /\ made < MaxMatch
    <3>1. made < MaxMatch /\ made + 1 \in Matches
      BY <1>5, RtcAssumption DEF ServeAsk, LobbyInv, LobbyTyped, Matches
    <3> QED
      BY <3>1
  <2> DEFINE ready(h) == [t |-> "READY", of |-> m,
                          role |-> IF h = s THEN "guest" ELSE "host"]
  <2>1. /\ match' = m
        /\ inbox' = [h \in Pages |-> Append(inbox[h], ready(h))]
    BY <1>5, <2>0 DEF ServeAsk
  <2>2. m # None
    BY NoneIsNoMatch
  <2>3. \A h \in Pages : ready(h).t = "READY" /\ ready(h).of = m
    OBVIOUS
  <2> HIDE DEF ready
  <2>4. waiting \in Pages /\ Pages = {s, waiting}
    BY <1>3, <1>5, TwoPages DEF LobbyInv, LobbyTyped
  <2>5. ASSUME NEW x \in Pages, ~ leaving[x]
        PROVE  /\ game[x] = None /\ inbox'[x] = <<ready(x)>>
               /\ Current(x)' = m
               /\ \A i \in DOMAIN toServer'[x] : toServer'[x][i].t = "end"
    <3>1. game[x] = None /\ inbox[x] = <<>>
      BY <1>3, <2>4, <2>5 DEF LobbyInv, WaitingPage, Expects
    <3>2. inbox'[x] = Append(<<>>, ready(x))
      BY <2>1, <3>1
    <3>3. inbox'[x] = <<ready(x)>>
      BY <2>3, <3>2
    <3>4. \A i \in DOMAIN toServer'[x] : toServer'[x][i].t = "end"
      <4>1. CASE x = s
        <5> DEFINE q == toServer[s]
        <5>1. /\ q \in Seq(Request) /\ q # <<>> /\ toServer'[s] = Tail(q)
              /\ 1 \in DOMAIN q /\ q[1].t = "ask"
          BY <1>1, ReadFacts
        <5>2. \A j \in DOMAIN q : 1 < j => q[j].t = "end"
          BY <5>1 DEF LobbyInv, EndComesLast
        <5> HIDE DEF q
        <5>3. \A i \in DOMAIN Tail(q) :
                i + 1 \in DOMAIN q /\ 1 < i + 1 /\ Tail(q)[i] = q[i + 1]
          BY <5>1
        <5> QED
          BY <4>1, <5>1, <5>2, <5>3
      <4>2. CASE x # s
        <5>1. toServer'[x] = toServer[x]
          BY <1>1, <4>2, ReadFacts
        <5>2. waiting = x
          BY <2>4, <4>2
        <5> QED
          BY <5>1, <5>2 DEF LobbyInv, WaitingPage
      <4> QED
        BY <4>1, <4>2
    <3>5. Current(x)' = m
      BY <2>3, <3>3 DEF Current
    <3> QED
      BY <3>1, <3>3, <3>4, <3>5
  <2>6. Together'
    BY <1>1, <2>1, <2>5 DEF Together
  <2>7. PagesLinked'
    <3> SUFFICES ASSUME NEW x \in Pages, NEW y \in Pages, y # x, ~ leaving[x], ~ leaving[y]
                 PROVE  Linked(x, y, m)'
      BY <1>1, <2>1, TwoPages DEF PagesLinked
    <3> DEFINE out == toServer'[x]
               in  == inbox'[y]
    <3>1. /\ chain'[y][m] = <<>> /\ remote'[y][m] = None /\ ~ local'[x][m]
          /\ undiscovered'[x][m] = 0 /\ added'[y][m] = 0 /\ game'[x] # m
      <4>1. game'[x] = None /\ game'[y] = None
        BY <1>1, <2>5
      <4> QED
        BY <1>2, <2>2, <4>1 DEF Fresh
    <3>2. out \in Seq(Request) /\ \A i \in DOMAIN out : out[i].t = "end"
      BY <1>1, <2>5, ReadFacts
    <3>3. in = <<ready(y)>> /\ ready(y).t = "READY" /\ in \in Seq(Message)
      <4>1. inbox' \in [Pages -> Seq(Message)]
        BY ServeAskLobby DEF LobbyInv, LobbyTyped
      <4> QED
        BY <2>3, <2>5, <4>1
    <3> HIDE DEF out, in
    <3>4. \A i \in DOMAIN out : out[i] # Candidate(m) /\ out[i] \notin Descriptions(m)
      BY <3>2 DEF Candidate, Descriptions
    <3>5. \A i \in DOMAIN in : in[i] # Candidate(m) /\ in[i] \notin Descriptions(m)
      BY <3>3 DEF Candidate, Descriptions
    <3>6. Times(Candidate(m), out) = 0
      BY <3>2, <3>4, PlacesAreFinite
    <3>7. Times(Candidate(m), in) = 0
      BY <3>3, <3>5, PlacesAreFinite
    <3>8. Times(AddIceCall(m), <<>>) = 0
      <4>1. <<>> \in Seq(Operation) /\ DOMAIN <<>> = {}
        OBVIOUS
      <4> QED
        BY <4>1, PlacesAreFinite
    <3>9. DescriptionFirst(m, out, in, chain'[y][m], remote'[y][m], local'[x][m])
      BY <3>1, <3>4, <3>5 DEF DescriptionFirst, Led, Has
    <3>10. InFlight(m, out, in, chain'[y][m]) = 0
      BY <3>1, <3>6, <3>7, <3>8 DEF InFlight
    <3>11. undiscovered'[x][m] + InFlight(m, out, in, chain'[y][m]) + added'[y][m]
             = IF game'[x] = m THEN MaxIce ELSE 0
      BY <3>1, <3>10
    <3> QED
      BY <3>9, <3>11, LinkedNext, Zenon DEF out, in
  <2> QED
    BY <1>2, <2>6, <2>7 DEF IceInv
<1> QED
  BY <1>4, <1>5

LEMMA ServeRelayIce ==
  ASSUME IInv, IceInv, NEW s \in Pages, ServeRelay(s)
  PROVE  IceInv'
<1> USE DEF IInv
<1> DEFINE o    == Other(s)
           line == Head(toServer[s])
<1>1. PICK t \in Relays : ReadsFrom(s, t)
  BY DEF ServeRelay, Relays
<1>2. UNCHANGED <<game, leaving, match, chain, local, remote, undiscovered, added>>
  BY DEF ServeRelay, fields, objects, lobby
<1>3. /\ toServer[s] \in Seq(Request) /\ toServer[s] # <<>>
      /\ toServer'[s] = Tail(toServer[s])
      /\ \A x \in Pages : x # s => toServer'[x] = toServer[x]
      /\ line \in Request /\ line.t \in Relays
  BY <1>1, ReadFacts
<1>4. line \in Message
  BY <1>3 DEF Request, Message, Relays
<1>5. o \in Pages /\ o # s
  BY TwoPages
<1>6. /\ match = None => inbox' = inbox
      /\ match # None => inbox'[o] = Append(inbox[o], line)
      /\ \A x \in Pages : x # o => inbox'[x] = inbox[x]
  <2>1. inbox' = IF match # None THEN [inbox EXCEPT ![o] = Append(inbox[o], line)] ELSE inbox
    BY DEF ServeRelay, Post
  <2>2. inbox \in [Pages -> Seq(Message)]
    BY DEF LobbyInv, LobbyTyped
  <2> HIDE DEF o, line
  <2> QED
    BY <1>5, <2>1, <2>2
<1> HIDE DEF o, line
<1>7. Fresh'
  BY <1>2 DEF IceInv, Fresh
<1>8. Together'
  <2>1. ASSUME NEW x \in Pages
        PROVE  Current(x)' = Current(x)
    <3>1. CASE x # o \/ match = None
      BY <1>2, <1>6, <3>1 DEF Current
    <3>2. CASE x = o /\ match # None
      <4>0. inbox[x] \in Seq(Message)
        BY DEF LobbyInv, LobbyTyped
      <4>1. /\ inbox'[x] # <<>>
            /\ Head(inbox'[x]) = IF inbox[x] = <<>> THEN line ELSE Head(inbox[x])
        BY <1>4, <1>6, <3>2, <4>0, Appended
      <4> QED
        BY <1>2, <1>3, <4>1 DEF Current, Relays
    <3> QED
      BY <3>1, <3>2
  <2> QED
    BY <1>2, <2>1, TwoPages DEF IceInv, Together
<1>9. PagesLinked'
  <2> SUFFICES ASSUME match \in Matches, Linked(s, o, match), Linked(o, s, match)
               PROVE  Linked(s, o, match)' /\ Linked(o, s, match)'
    BY <1>2, PagesLinkedNext DEF o, IceInv
  <2>1. Linked(o, s, match)'
    BY <1>2, <1>3, <1>5, <1>6, LinkedKept
  <2>2. Linked(s, o, match)'
    <3>0. PICK m \in Matches : m = match
      OBVIOUS
    <3> DEFINE out  == toServer[s]
               in   == inbox[o]
               ops  == chain[o][m]
               set  == remote[o][m]
               sent == local[s][m]
    <3>1. /\ toServer'[s] = Tail(out) /\ inbox'[o] = Append(in, line)
          /\ chain'[o][m] = ops /\ remote'[o][m] = set /\ local'[s][m] = sent
          /\ undiscovered'[s][m] = undiscovered[s][m] /\ added'[o][m] = added[o][m]
          /\ game'[s] = game[s]
      BY <1>2, <1>3, <1>6, <3>0, NoneIsNoMatch
    <3>2. out \in Seq(Request) /\ in \in Seq(Message) /\ ops \in Seq(Operation)
      BY <1>5, LinkTypes
    <3>3. /\ DescriptionFirst(m, out, in, ops, set, sent)
          /\ undiscovered[s][m] + InFlight(m, out, in, ops) + added[o][m]
               = IF game[s] = m THEN MaxIce ELSE 0
      BY <3>0 DEF Linked
    <3>4. Head(out) = line /\ out # <<>>
      BY <1>3 DEF line
    <3> HIDE DEF out, in, ops, set, sent
    <3>5. /\ DescriptionFirst(m, Tail(out), Append(in, line), ops, set, sent)
          /\ InFlight(m, Tail(out), Append(in, line), ops) = InFlight(m, out, in, ops)
      BY <1>4, <3>2, <3>3, <3>4, Relayed
    <3>6. Linked(s, o, m)'
      BY <3>1, <3>3, <3>5, LinkedNext
    <3> QED
      BY <1>2, <3>0, <3>6
  <2> QED
    BY <2>1, <2>2
<1> QED
  BY <1>7, <1>8, <1>9 DEF IceInv

LEMMA ServeEndIce ==
  ASSUME IInv, IceInv, NEW s \in Pages, ServeEnd(s)
  PROVE  IceInv'
<1>1. /\ match' = None
      /\ leaving' = [leaving EXCEPT ![s] = FALSE]
      /\ UNCHANGED <<game, chain, local, remote, undiscovered, added>>
      /\ ReadsFrom(s, "end")
  BY DEF ServeEnd, fields, objects
<1>2. game[s] = None
  <2>1. 1 \in DOMAIN toServer[s] /\ toServer[s][1].t = "end"
    BY <1>1, ReadFacts DEF IInv
  <2> QED
    BY <2>1 DEF IInv, LobbyInv, EndComesLast, GonePages
<1>3. inbox'[s] = <<>> /\ Other(s) \in Pages /\ Pages = {s, Other(s)}
  <2>1. inbox' = [inbox EXCEPT ![s] = <<>>,
          ![Other(s)] = IF match = None THEN @ ELSE Append(@, [t |-> "PEER_LEFT"])]
    BY DEF ServeEnd
  <2>2. inbox \in [Pages -> Seq(Message)]
    BY DEF IInv, LobbyInv, LobbyTyped
  <2> QED
    BY <2>1, <2>2, TwoPages
<1>4. Fresh'
  BY <1>1 DEF IceInv, Fresh
<1>5. Together'
  <2>1. Current(s)' = None
    BY <1>1, <1>2, <1>3 DEF Current
  <2>2. \A x \in Pages : x = s \/ Other(x) = s
    BY <1>3, TwoPages
  <2> QED
    BY <2>1, <2>2 DEF Together
<1>6. PagesLinked'
  BY <1>1 DEF PagesLinked
<1> QED
  BY <1>4, <1>5, <1>6 DEF IceInv

LEMMA OnReadyIce ==
  ASSUME IInv, IceInv, NEW s \in Pages, OnReady(s)
  PROVE  IceInv'
<1> USE DEF IInv
<1>1. game[s] = None /\ Head(inbox[s]).of \in Matches
  BY OnReadyLobby
<1>2. PICK m \in Matches : m = Head(inbox[s]).of
  BY <1>1
<1> DEFINE ops == IF Head(inbox[s]).role = "host" THEN <<[op |-> "createOffer", of |-> m]>>
                  ELSE <<>>
           o   == Other(s)
<1>3. /\ Hears(s, "READY")
      /\ chain' = [chain EXCEPT ![s][m] = ops]
      /\ undiscovered' = [undiscovered EXCEPT ![s][m] = MaxIce]
      /\ game' = [game EXCEPT ![s] = m]
      /\ UNCHANGED <<leaving, local, remote, added, toServer, match>>
  BY <1>2 DEF OnReady, lobby
<1>4. /\ ~ leaving[s] /\ InboxInOrder(s)
      /\ inbox[s] \in Seq(Message) /\ inbox[s] # <<>> /\ Head(inbox[s]).t = "READY"
      /\ 1 \in DOMAIN inbox[s] /\ inbox[s][1] = Head(inbox[s])
      /\ inbox'[s] = Tail(inbox[s])
      /\ \A x \in Pages : x # s => inbox'[x] = inbox[x]
      /\ inbox'[s] # <<>> => Head(inbox'[s]) = inbox[s][2] /\ 2 \in DOMAIN inbox[s]
  BY <1>3, HearFacts
<1>5. Current(s) = m /\ match \in {None, m}
  BY <1>2, <1>4 DEF Current, InboxInOrder
<1>6. /\ game'[s] = m
      /\ \A x \in Pages : x # s => game'[x] = game[x]
      /\ chain'[s][m] = ops /\ undiscovered'[s][m] = MaxIce
      /\ \A x \in Pages, n \in Matches : x # s \/ n # m =>
           chain'[x][n] = chain[x][n] /\ undiscovered'[x][n] = undiscovered[x][n]
  <2>1. /\ game \in [Pages -> Matches \union {None}]
        /\ chain \in [Pages -> [Matches -> Seq(Operation)]]
        /\ undiscovered \in [Pages -> [Matches -> Nat]]
    BY DEF ObjectsInv, ObjectsTyped, OfTheirMatch
  <2> HIDE DEF ops
  <2> QED
    BY <1>3, <2>1
<1>7. Fresh'
  BY <1>1, <1>3, <1>6, FreshKept DEF IceInv
<1>8. Together'
  <2>1. Current(s)' = m
    BY <1>4, <1>6 DEF Current, InboxInOrder
  <2>2. \A x \in Pages : x # s => Current(x)' = Current(x)
    BY <1>4, <1>6 DEF Current
  <2> QED
    BY <1>3, <1>5, <2>1, <2>2, TwoPages DEF IceInv, Together
<1>9. PagesLinked'
  <2> SUFFICES ASSUME match \in Matches, Linked(s, o, match), Linked(o, s, match)
               PROVE  Linked(s, o, match)' /\ Linked(o, s, match)'
    BY <1>3, PagesLinkedNext DEF IceInv
  <2>1. match = m /\ match' = m /\ o \in Pages /\ o # s
    BY <1>3, <1>5, NoneIsNoMatch, TwoPages
  <2>2. /\ chain[s][m] = <<>> /\ remote[s][m] = None /\ undiscovered[s][m] = 0
        /\ game[s] # m
    BY <1>1, NoneIsNoMatch DEF IceInv, Fresh
  <2>3. Linked(s, o, m)'
    <3> DEFINE f == InFlight(m, toServer[s], inbox[o], chain[o][m])
    <3>1. /\ DescriptionFirst(m, toServer[s], inbox[o], chain[o][m], remote[o][m], local[s][m])
          /\ undiscovered[s][m] + f + added[o][m] = IF game[s] = m THEN MaxIce ELSE 0
      BY <2>1 DEF Linked
    <3>2. f \in Nat /\ added[o][m] \in Nat
      BY <2>1, LinkTypes
    <3>3. /\ toServer'[s] = toServer[s] /\ inbox'[o] = inbox[o] /\ chain'[o][m] = chain[o][m]
          /\ remote'[o][m] = remote[o][m] /\ local'[s][m] = local[s][m]
          /\ added'[o][m] = added[o][m]
      BY <1>3, <1>4, <1>6, <2>1
    <3>4. InFlight(m, toServer'[s], inbox'[o], chain'[o][m]) = f
      BY <3>3
    <3> HIDE DEF f
    <3>5. undiscovered'[s][m] + f + added'[o][m] = IF game'[s] = m THEN MaxIce ELSE 0
      BY <1>6, <2>2, <3>1, <3>2, <3>3, RtcAssumption
    <3> QED
      BY <3>1, <3>3, <3>4, <3>5, LinkedNext
  <2>4. Linked(o, s, m)'
    <3> DEFINE out == toServer[o]
               in  == inbox[s]
               set == remote[s][m]
    <3>1. /\ DescriptionFirst(m, out, in, <<>>, set, local[o][m])
          /\ undiscovered[o][m] + InFlight(m, out, in, <<>>) + added[s][m]
               = IF game[o] = m THEN MaxIce ELSE 0
      BY <2>1, <2>2 DEF Linked
    <3>2. out \in Seq(Request) /\ in \in Seq(Message)
      BY <2>1, LinkTypes
    <3>3. Head(in) # Candidate(m) /\ Head(in) \notin Descriptions(m) /\ in # <<>>
      BY <1>4 DEF Candidate, Descriptions
    <3>4. /\ ops \in Seq(Operation)
          /\ \A i \in DOMAIN ops : ops[i] # AddIceCall(m) /\ ops[i] \notin RemoteCalls(m)
      <4>1. [op |-> "createOffer", of |-> m] \in Operation
        BY DEF Operation
      <4>2. /\ [op |-> "createOffer", of |-> m] # AddIceCall(m)
            /\ [op |-> "createOffer", of |-> m] \notin RemoteCalls(m)
        BY DEF AddIceCall, RemoteCalls
      <4> QED
        BY <4>1, <4>2
    <3> HIDE DEF ops, out, in, set
    <3>5. DescriptionFirst(m, out, Tail(in), ops, set, local[o][m])
      <4>1. Led(ops, AddIceCall(m), RemoteCalls(m))
        BY <3>4 DEF Led
      <4>2. ~ Has(<<>>, RemoteCalls(m))
        BY DEF Has
      <4>3. set # m => Led(in, Candidate(m), Descriptions(m))
        BY <3>1, <4>2 DEF DescriptionFirst
      <4>4. /\ set # m => Led(Tail(in), Candidate(m), Descriptions(m))
            /\ Has(Tail(in), Descriptions(m)) <=> Has(in, Descriptions(m))
        BY <3>2, <3>3, <4>3, LedTail
      <4> QED
        BY <3>1, <4>1, <4>2, <4>4 DEF DescriptionFirst
    <3>6. InFlight(m, out, Tail(in), ops) = InFlight(m, out, in, <<>>)
      <4>1. Times(Candidate(m), in) = Times(Candidate(m), Tail(in)) + 0
        BY <3>2, <3>3, TimesTail
      <4>2. Times(Candidate(m), Tail(in)) \in Nat
        <5>1. Tail(in) \in Seq(Message)
          BY <3>2, <3>3, Tailed
        <5> QED
          BY <5>1, PlacesAreFinite
      <4>3. Times(AddIceCall(m), ops) = 0
        BY <3>4, PlacesAreFinite
      <4>4. Times(AddIceCall(m), <<>>) = 0
        <5>1. <<>> \in Seq(Operation) /\ DOMAIN <<>> = {}
          OBVIOUS
        <5> QED
          BY <5>1, PlacesAreFinite
      <4>5. Times(Candidate(m), in) = Times(Candidate(m), Tail(in))
        BY <4>1, <4>2
      <4> QED
        BY <4>3, <4>4, <4>5 DEF InFlight
    <3>7. /\ toServer'[o] = out /\ inbox'[s] = Tail(in) /\ chain'[s][m] = ops
          /\ remote'[s][m] = set /\ local'[o][m] = local[o][m]
          /\ undiscovered'[o][m] = undiscovered[o][m] /\ added'[s][m] = added[s][m]
          /\ game'[o] = game[o]
      BY <1>3, <1>4, <1>6, <2>1 DEF out, in, set
    <3> QED
      BY <3>1, <3>5, <3>6, <3>7, LinkedNext
  <2> QED
    BY <2>1, <2>3, <2>4
<1> QED
  BY <1>7, <1>8, <1>9 DEF IceInv

LEMMA OnPeerLeftIce ==
  ASSUME IInv, IceInv, NEW s \in Pages, OnPeerLeft(s)
  PROVE  IceInv'
<1>1. /\ Hears(s, "PEER_LEFT") /\ Stop(s)
      /\ game' = [game EXCEPT ![s] = None]
      /\ UNCHANGED <<leaving, match>>
  BY DEF OnPeerLeft, Stop, lobby
<1>2. match = None /\ inbox'[s] = <<>>
  <2>1. /\ InboxInOrder(s)
        /\ inbox' \in [Pages -> Seq(Message)] /\ Len(inbox'[s]) = Len(inbox[s]) - 1
        /\ 1 \in DOMAIN inbox[s] /\ inbox[s][1].t = "PEER_LEFT"
    BY <1>1, HearFacts DEF IInv
  <2>2. match = None /\ Len(inbox[s]) = 1
    BY <2>1 DEF InboxInOrder
  <2>3. inbox'[s] \in Seq(Message) /\ Len(inbox'[s]) = 0
    BY <2>1, <2>2
  <2> QED
    BY <2>2, <2>3
<1>3. Fresh'
  BY <1>1, StopFresh DEF IInv, IceInv
<1>4. Together'
  <2>1. Current(s)' = None
    BY <1>1, <1>2 DEF Current, IInv, LobbyInv, LobbyTyped
  <2>2. \A x \in Pages : x = s \/ Other(x) = s
    BY TwoPages
  <2> QED
    BY <2>1, <2>2 DEF Together
<1>5. PagesLinked'
  BY <1>1, <1>2 DEF PagesLinked
<1> QED
  BY <1>3, <1>4, <1>5 DEF IceInv

LEMMA HandleSignalIce ==
  ASSUME IInv, IceInv, NEW s \in Pages, HandleSignal(s)
  PROVE  IceInv'
<1> USE DEF IInv
<1> DEFINE line == Head(inbox[s])
           o    == Other(s)
<1>1. /\ line \in Message /\ line.t \in Relays /\ line.of = game[s]
  BY HandleSignalLobby
<1>2. PICK m \in Matches : m = line.of
  BY <1>1 DEF Message, Relays
<1>3. PICK t \in Relays : /\ Hears(s, t)
                          /\ chain' = IF t \in DOMAIN Handling
                                      THEN Call(chain, s, pc[s], Handling[t], line.of)
                                      ELSE chain
  BY DEF HandleSignal, Relays
<1>4. UNCHANGED <<game, leaving, local, remote, undiscovered, added, toServer, match>>
  BY DEF HandleSignal, fields, lobby
<1>5. /\ inbox[s] \in Seq(Message) /\ inbox[s] # <<>> /\ line.t = t
      /\ 1 \in DOMAIN inbox[s] /\ inbox[s][1] = line
      /\ inbox'[s] = Tail(inbox[s]) /\ InboxInOrder(s)
      /\ \A x \in Pages : x # s => inbox'[x] = inbox[x]
      /\ inbox'[s] # <<>> => Head(inbox'[s]) = inbox[s][2] /\ 2 \in DOMAIN inbox[s]
  BY <1>3, HearFacts
<1>6. game[s] = m /\ pc[s] = m /\ m # None
  BY <1>1, <1>2, NoneIsNoMatch DEF ObjectsInv, OneMatchAtATime
<1>7. Current(s) = m /\ match \in {None, m}
  BY <1>6, PlayedMatch
<1> DEFINE op  == [op |-> Handling[t], of |-> m]
           ops == Append(chain[s][m], op)
<1>8. line = [t |-> t, of |-> m]
  BY <1>1, <1>2, <1>5 DEF Message, Relays
<1>9. /\ op \in Operation
      /\ op = AddIceCall(m) <=> line = Candidate(m)
      /\ op \in RemoteCalls(m) <=> line \in Descriptions(m)
  <2>1. /\ t = "offer"  => Handling[t] = "setRemoteOffer"
        /\ t = "answer" => Handling[t] = "setRemoteAnswer"
        /\ t = "ice"    => Handling[t] = "addIce"
        /\ t \in {"offer", "answer", "ice"}
    BY DEF Handling, Relays
  <2>2. op \in Operation
    BY <2>1 DEF Operation
  <2>3. op = AddIceCall(m) <=> t = "ice"
    BY <2>1 DEF AddIceCall
  <2>4. line = Candidate(m) <=> t = "ice"
    BY <1>8 DEF Candidate
  <2>5. op \in RemoteCalls(m) <=> t \in {"offer", "answer"}
    BY <2>1 DEF RemoteCalls
  <2>6. line \in Descriptions(m) <=> t \in {"offer", "answer"}
    BY <1>8 DEF Descriptions
  <2> QED
    BY <2>2, <2>3, <2>4, <2>5, <2>6
<1>10. /\ chain'[s][m] = ops
       /\ \A x \in Pages, n \in Matches : x # s \/ n # m => chain'[x][n] = chain[x][n]
  <2>1. t \in DOMAIN Handling
    BY DEF Handling, Relays
  <2>2. chain' = [chain EXCEPT ![s][m] = ops]
    BY <1>2, <1>3, <1>6, <2>1 DEF Call
  <2>3. chain \in [Pages -> [Matches -> Seq(Operation)]]
    BY DEF ObjectsInv, OfTheirMatch
  <2> HIDE DEF ops
  <2> QED
    BY <2>2, <2>3
<1> HIDE DEF ops, op, line
<1>11. Fresh'
  BY <1>4, <1>6, <1>10, FreshKept DEF IceInv
<1>12. Together'
  <2>1. Current(s)' = m
    BY <1>4, <1>5, <1>6 DEF Current, InboxInOrder
  <2>2. \A x \in Pages : x # s => Current(x)' = Current(x)
    BY <1>4, <1>5 DEF Current
  <2> QED
    BY <1>4, <1>7, <2>1, <2>2, TwoPages DEF IceInv, Together
<1>13. PagesLinked'
  <2> SUFFICES ASSUME match \in Matches, Linked(s, o, match), Linked(o, s, match)
               PROVE  Linked(s, o, match)' /\ Linked(o, s, match)'
    BY <1>4, PagesLinkedNext DEF IceInv
  <2>1. match = m /\ match' = m /\ o \in Pages /\ o # s
    BY <1>4, <1>7, NoneIsNoMatch, TwoPages
  <2>2. Linked(s, o, m)'
    BY <1>4, <1>5, <1>10, <2>1, LinkedKept
  <2>3. Linked(o, s, m)'
    <3> DEFINE out  == toServer[o]
               in   == inbox[s]
               set  == remote[s][m]
               sent == local[o][m]
               old  == chain[s][m]
    <3>1. /\ DescriptionFirst(m, out, in, old, set, sent)
          /\ undiscovered[o][m] + InFlight(m, out, in, old) + added[s][m]
               = IF game[o] = m THEN MaxIce ELSE 0
      BY <2>1 DEF Linked
    <3>2. /\ out \in Seq(Request) /\ in \in Seq(Message) /\ in # <<>>
          /\ old \in Seq(Operation) /\ ops = Append(old, op) /\ Head(in) = line
      BY <1>5, <2>1, LinkTypes DEF ops, line
    <3>3. /\ toServer'[o] = out /\ inbox'[s] = Tail(in) /\ chain'[s][m] = ops
          /\ remote'[s][m] = set /\ local'[o][m] = sent
          /\ undiscovered'[o][m] = undiscovered[o][m] /\ added'[s][m] = added[s][m]
          /\ game'[o] = game[o]
      BY <1>4, <1>5, <1>10
    <3> HIDE DEF out, in, set, sent, old
    <3>4. /\ DescriptionFirst(m, out, Tail(in), ops, set, sent)
          /\ InFlight(m, out, Tail(in), ops) = InFlight(m, out, in, old)
      BY <1>9, <3>1, <3>2, Called
    <3> QED
      BY <3>1, <3>3, <3>4, LinkedNext
  <2> QED
    BY <2>1, <2>2, <2>3
<1> QED
  BY <1>11, <1>12, <1>13 DEF IceInv

\* What an operation that is done leaves of its connection's operations: the
\* others, and perhaps a call that is of no description or candidate.
Leaves(q, m, rest) ==
  \/ rest = Tail(q)
  \/ \E op \in {"setLocalOffer", "createAnswer", "setLocalAnswer"} :
       rest = Append(Tail(q), [op |-> op, of |-> m])

\* No connection but that of page s and match m takes part.
OthersRest(s, m) ==
  \A x \in Pages, n \in Matches : x # s \/ n # m =>
    /\ chain'[x][n] = chain[x][n] /\ local'[x][n] = local[x][n]
    /\ remote'[x][n] = remote[x][n] /\ added'[x][n] = added[x][n]

\* One operation, as it bears on the candidates.
LEMMA SettleFacts ==
  ASSUME IInv, NEW s \in Pages, NEW m \in Matches, Settle(s, m)
  PROVE  /\ game[s] = m /\ chain[s][m] # <<>>
         /\ UNCHANGED <<game, leaving, undiscovered, inbox, match>>
         /\ Leaves(chain[s][m], m, chain'[s][m])
         /\ OthersRest(s, m)
         /\ \A x \in Pages : x # s => toServer'[x] = toServer[x]
         /\ \/ toServer'[s] = toServer[s] /\ local'[s][m] = local[s][m]
            \/ \E t \in {"offer", "answer"} :
                 toServer'[s] = Append(toServer[s], [t |-> t, of |-> m]) /\ local'[s][m]
         /\ \/ remote'[s][m] = m
            \/ remote'[s][m] = remote[s][m] /\ Head(chain[s][m]) \notin RemoteCalls(m)
         /\ added'[s][m] = added[s][m] + IF Head(chain[s][m]) = AddIceCall(m)
                                              /\ remote[s][m] = m
                                         THEN 1 ELSE 0
<1> USE DEF IInv
<1> DEFINE q    == chain[s][m]
           rest == Tail(q)
<1>1. game[s] = m /\ pc[s] = m /\ m # None
  BY SettleObjects, NoneIsNoMatch DEF ObjectsInv, OneMatchAtATime
<1>2. /\ q # <<>>
      /\ UNCHANGED <<game, leaving, undiscovered, inbox, match>>
  BY DEF Settle, CreatedOffer, SetLocal, SetRemoteOffer, CreatedAnswer, SetRemoteAnswer,
         AddIce, Settles, fields, lobby
<1>3. /\ chain \in [Pages -> [Matches -> Seq(Operation)]] /\ q \in Seq(Operation)
      /\ toServer \in [Pages -> Seq(Request)]
      /\ local \in [Pages -> [Matches -> BOOLEAN]]
      /\ remote \in [Pages -> [Matches -> Matches \union {None}]]
      /\ added \in [Pages -> [Matches -> Nat]]
  BY SMTT(30) DEF LobbyInv, LobbyTyped, ObjectsInv, ObjectsTyped, OfTheirMatch
<1>4. Head(q) = [op |-> Head(q).op, of |-> m]
  <2>1. Head(q) \in Operation /\ Head(q).of = m
    BY <1>2, <1>3, Tailed, DoneOfTheirMatch DEF ObjectsInv
  <2> QED
    BY <2>1 DEF Operation
<1>5. /\ Head(q) = AddIceCall(m) <=> Head(q).op = "addIce"
      /\ Head(q) \in RemoteCalls(m) <=> Head(q).op \in {"setRemoteOffer", "setRemoteAnswer"}
  BY <1>4 DEF AddIceCall, RemoteCalls
<1>6. Done(s, m) = [chain EXCEPT ![s][m] = rest]
  BY DEF Done
<1>7. ASSUME NEW op
      PROVE  Call(Done(s, m), s, m, op, m)
               = [chain EXCEPT ![s][m] = Append(rest, [op |-> op, of |-> m])]
  <2> DEFINE new == Append(rest, [op |-> op, of |-> m])
             old == Done(s, m)
  <2>1. old[s][m] = rest
    BY <1>3, <1>6
  <2>2. Call(old, s, m, op, m) = [old EXCEPT ![s][m] = new]
    BY <1>1, <2>1 DEF Call
  <2> HIDE DEF new, rest
  <2>3. [old EXCEPT ![s][m] = new] = [chain EXCEPT ![s][m] = new]
    BY <1>3, <1>6
  <2> QED
    BY <2>2, <2>3 DEF new, rest
<1>8. \/ chain' = [chain EXCEPT ![s][m] = rest]
      \/ \E op \in {"setLocalOffer", "createAnswer", "setLocalAnswer"} :
           chain' = [chain EXCEPT ![s][m] = Append(rest, [op |-> op, of |-> m])]
  <2>1. \/ chain' = Done(s, m)
        \/ \E op \in {"setLocalOffer", "createAnswer", "setLocalAnswer"} :
             chain' = Call(Done(s, m), s, m, op, m)
    BY <1>1 DEF Settle, CreatedOffer, SetLocal, SetRemoteOffer, CreatedAnswer,
                SetRemoteAnswer, AddIce
  <2> QED
    BY <1>6, <1>7, <2>1
<1>9. \/ UNCHANGED <<toServer, local>>
      \/ \E t \in {"offer", "answer"} :
           /\ toServer' = [toServer EXCEPT ![s] = Append(toServer[s], [t |-> t, of |-> m])]
           /\ local' = [local EXCEPT ![s][m] = TRUE]
  <2>1. CASE SetLocal(s, m, "setLocalOffer", "offer")
    BY <2>1 DEF SetLocal, Send
  <2>2. CASE SetLocal(s, m, "setLocalAnswer", "answer")
    BY <2>2 DEF SetLocal, Send
  <2> QED
    BY <2>1, <2>2 DEF Settle, CreatedOffer, SetRemoteOffer, CreatedAnswer, SetRemoteAnswer,
                      AddIce
<1>10. \/ remote' = [remote EXCEPT ![s][m] = Head(q).of]
       \/ UNCHANGED remote /\ Head(q).op \notin {"setRemoteOffer", "setRemoteAnswer"}
  BY DEF Settle, CreatedOffer, SetLocal, SetRemoteOffer, CreatedAnswer, SetRemoteAnswer,
         AddIce, Settles
<1>11. \/ /\ Head(q).op = "addIce"
          /\ added' = [added EXCEPT ![s][m] = IF remote[s][m] = Head(q).of
                                              THEN added[s][m] + 1 ELSE added[s][m]]
       \/ UNCHANGED added /\ Head(q).op # "addIce"
  BY DEF Settle, CreatedOffer, SetLocal, SetRemoteOffer, CreatedAnswer, SetRemoteAnswer,
         AddIce, Settles
<1>12. Head(q).of = m
  BY <1>4
<1> HIDE DEF q
<1>13. /\ Leaves(q, m, chain'[s][m])
       /\ \A x \in Pages, n \in Matches : x # s \/ n # m => chain'[x][n] = chain[x][n]
  <2>1. PICK new : /\ chain' = [chain EXCEPT ![s][m] = new]
                   /\ Leaves(q, m, new)
    BY <1>8 DEF Leaves
  <2> QED
    BY <1>3, <2>1
<1>14. /\ \A x \in Pages : x # s => toServer'[x] = toServer[x]
       /\ \A x \in Pages, n \in Matches : x # s \/ n # m => local'[x][n] = local[x][n]
       /\ \/ toServer'[s] = toServer[s] /\ local'[s][m] = local[s][m]
          \/ \E t \in {"offer", "answer"} :
               toServer'[s] = Append(toServer[s], [t |-> t, of |-> m]) /\ local'[s][m]
  <2>1. CASE UNCHANGED <<toServer, local>>
    BY <2>1
  <2>2. ASSUME NEW t \in {"offer", "answer"}, NEW out, out = Append(toServer[s], [t |-> t, of |-> m]),
               toServer' = [toServer EXCEPT ![s] = out],
               local' = [local EXCEPT ![s][m] = TRUE]
        PROVE  /\ \A x \in Pages : x # s => toServer'[x] = toServer[x]
               /\ \A x \in Pages, n \in Matches : x # s \/ n # m => local'[x][n] = local[x][n]
               /\ toServer'[s] = out /\ local'[s][m]
    BY <1>3, <2>2
  <2> QED
    BY <1>9, <2>1, <2>2
<1>15. /\ \A x \in Pages, n \in Matches : x # s \/ n # m => remote'[x][n] = remote[x][n]
       /\ \/ remote'[s][m] = m
          \/ remote'[s][m] = remote[s][m] /\ Head(q) \notin RemoteCalls(m)
  <2>1. CASE remote' = [remote EXCEPT ![s][m] = m]
    BY <1>3, <2>1
  <2>2. CASE UNCHANGED remote /\ Head(q) \notin RemoteCalls(m)
    BY <2>2
  <2> QED
    BY <1>5, <1>10, <1>12, <2>1, <2>2
<1>16. /\ \A x \in Pages, n \in Matches : x # s \/ n # m => added'[x][n] = added[x][n]
       /\ added'[s][m] = added[s][m] + IF Head(q) = AddIceCall(m) /\ remote[s][m] = m
                                       THEN 1 ELSE 0
  <2>1. added[s][m] \in Nat
    BY <1>3
  <2>2. CASE added' = [added EXCEPT ![s][m] = added[s][m] + 1]
               /\ Head(q) = AddIceCall(m) /\ remote[s][m] = m
    BY <1>3, <2>2
  <2>3. CASE added' = [added EXCEPT ![s][m] = added[s][m]]
               /\ ~ (Head(q) = AddIceCall(m) /\ remote[s][m] = m)
    BY <1>3, <2>1, <2>3
  <2>4. CASE UNCHANGED added /\ Head(q) # AddIceCall(m)
    BY <2>1, <2>4
  <2> QED
    BY <1>5, <1>11, <1>12, <2>2, <2>3, <2>4
<1> QED
  BY <1>1, <1>2, <1>13, <1>14, <1>15, <1>16 DEF q, OthersRest

\* The call that may follow changes nothing.
LEMMA LeavesLinked ==
  ASSUME NEW m \in Matches, NEW out \in Seq(Request), NEW in \in Seq(Message),
         NEW q \in Seq(Operation), q # <<>>, NEW rest, Leaves(q, m, rest),
         NEW set, NEW sent
  PROVE  /\ rest \in Seq(Operation)
         /\ DescriptionFirst(m, out, in, Tail(q), set, sent) =>
              DescriptionFirst(m, out, in, rest, set, sent)
         /\ InFlight(m, out, in, rest) = InFlight(m, out, in, Tail(q))
<1>1. Tail(q) \in Seq(Operation)
  BY Tailed
<1>2. ASSUME NEW op \in {"setLocalOffer", "createAnswer", "setLocalAnswer"},
             rest = Append(Tail(q), [op |-> op, of |-> m])
      PROVE  /\ rest \in Seq(Operation)
             /\ DescriptionFirst(m, out, in, Tail(q), set, sent) =>
                  DescriptionFirst(m, out, in, rest, set, sent)
             /\ InFlight(m, out, in, rest) = InFlight(m, out, in, Tail(q))
  <2> DEFINE call == [op |-> op, of |-> m]
             tail == Tail(q)
  <2>1. call \in Operation /\ call # AddIceCall(m) /\ call \notin RemoteCalls(m)
    BY DEF Operation, AddIceCall, RemoteCalls
  <2>2. rest = Append(tail, call) /\ tail \in Seq(Operation)
    BY <1>1, <1>2
  <2> HIDE DEF call, tail
  <2>3. rest \in Seq(Operation)
    BY <2>1, <2>2
  <2>4. Times(AddIceCall(m), rest) = Times(AddIceCall(m), tail)
    <3>1. Times(AddIceCall(m), rest)
            = Times(AddIceCall(m), tail) + IF AddIceCall(m) = call THEN 1 ELSE 0
      BY <2>1, <2>2, TimesAppend
    <3>2. Times(AddIceCall(m), tail) \in Nat
      BY <2>2, PlacesAreFinite
    <3> QED
      BY <2>1, <3>1, <3>2
  <2>5. DescriptionFirst(m, out, in, tail, set, sent) =>
          DescriptionFirst(m, out, in, rest, set, sent)
    BY <2>1, <2>2, CalledOther
  <2> QED
    BY <2>3, <2>4, <2>5 DEF InFlight, tail
<1> QED
  BY <1>1, <1>2 DEF Leaves

LEMMA SettleIce ==
  ASSUME IInv, IceInv, NEW s \in Pages, NEW m \in Matches, Settle(s, m)
  PROVE  IceInv'
<1> USE DEF IInv
<1> DEFINE o == Other(s)
<1>1. /\ game[s] = m /\ chain[s][m] # <<>>
      /\ UNCHANGED <<game, leaving, undiscovered, inbox, match>>
      /\ Leaves(chain[s][m], m, chain'[s][m])
      /\ \A x \in Pages, n \in Matches : x # s \/ n # m =>
           /\ chain'[x][n] = chain[x][n] /\ local'[x][n] = local[x][n]
           /\ remote'[x][n] = remote[x][n] /\ added'[x][n] = added[x][n]
      /\ \A x \in Pages : x # s => toServer'[x] = toServer[x]
  <2>1. game[s] = m
    BY SettleObjects
  <2>2. chain[s][m] # <<>>
    BY SettleFacts
  <2>3. UNCHANGED <<game, leaving, undiscovered, inbox, match>>
    BY SettleFacts, Zenon
  <2>4. Leaves(chain[s][m], m, chain'[s][m]) /\ OthersRest(s, m)
    BY SettleFacts, Zenon
  <2>5. \A x \in Pages : x # s => toServer'[x] = toServer[x]
    BY SettleFacts, Zenon
  <2> QED
    BY <2>1, <2>2, <2>3, <2>4, <2>5 DEF OthersRest
<1>2. match \in {None, m}
  BY <1>1, PlayedMatch, NoneIsNoMatch
<1>3. Fresh'
  BY <1>1, FreshKept DEF IceInv
<1>4. Together'
  BY <1>1 DEF IceInv, Together, Current
<1>5. PagesLinked'
  <2> SUFFICES ASSUME match \in Matches, Linked(s, o, match), Linked(o, s, match)
               PROVE  Linked(s, o, match)' /\ Linked(o, s, match)'
    BY <1>1, PagesLinkedNext DEF IceInv
  <2>1. match = m /\ match' = m /\ o \in Pages /\ o # s
    BY <1>1, <1>2, NoneIsNoMatch, TwoPages
  <2>2. Linked(s, o, m)'
    <3>1. CASE toServer'[s] = toServer[s] /\ local'[s][m] = local[s][m]
      BY <1>1, <2>1, <3>1, LinkedKept
    <3>2. ASSUME NEW t \in {"offer", "answer"}, local'[s][m],
                 toServer'[s] = Append(toServer[s], [t |-> t, of |-> m])
          PROVE  Linked(s, o, m)'
      <4> DEFINE out  == toServer[s]
                 in   == inbox[o]
                 ops  == chain[o][m]
                 set  == remote[o][m]
                 sent == local[s][m]
                 line == [t |-> t, of |-> m]
      <4>1. /\ DescriptionFirst(m, out, in, ops, set, sent)
            /\ undiscovered[s][m] + InFlight(m, out, in, ops) + added[o][m]
                 = IF game[s] = m THEN MaxIce ELSE 0
        BY <2>1 DEF Linked
      <4>2. out \in Seq(Request) /\ in \in Seq(Message) /\ ops \in Seq(Operation)
        BY <2>1, LinkTypes
      <4>3. line \in Request /\ line \in Descriptions(m)
        BY DEF Request, Relays, Descriptions
      <4>4. /\ toServer'[s] = Append(out, line) /\ inbox'[o] = in
            /\ chain'[o][m] = ops /\ remote'[o][m] = set /\ local'[s][m]
            /\ undiscovered'[s][m] = undiscovered[s][m] /\ added'[o][m] = added[o][m]
            /\ game'[s] = game[s]
        BY <1>1, <2>1, <3>2
      <4> HIDE DEF out, in, ops, set, sent, line
      <4>5. /\ DescriptionFirst(m, Append(out, line), in, ops, set, TRUE)
            /\ InFlight(m, Append(out, line), in, ops) = InFlight(m, out, in, ops)
        BY <4>1, <4>2, <4>3, SentDescription
      <4>6. DescriptionFirst(m, Append(out, line), in, ops, set, local'[s][m])
        BY <4>4, <4>5 DEF DescriptionFirst
      <4> QED
        BY <4>1, <4>4, <4>5, <4>6, LinkedNext
    <3> QED
      BY <3>1, <3>2, SettleFacts
  <2>3. Linked(o, s, m)'
    <3> DEFINE out  == toServer[o]
               in   == inbox[s]
               set  == remote[s][m]
               set1 == remote'[s][m]
               sent == local[o][m]
               old  == chain[s][m]
               ops  == chain'[s][m]
               one  == IF Head(old) = AddIceCall(m) THEN 1 ELSE 0
    <3>1. /\ DescriptionFirst(m, out, in, old, set, sent)
          /\ undiscovered[o][m] + InFlight(m, out, in, old) + added[s][m]
               = IF game[o] = m THEN MaxIce ELSE 0
      BY <2>1 DEF Linked
    <3>2. /\ out \in Seq(Request) /\ in \in Seq(Message) /\ old \in Seq(Operation)
          /\ undiscovered[o][m] \in Nat /\ added[s][m] \in Nat
          /\ InFlight(m, out, in, old) \in Nat
      BY <2>1, LinkTypes
    <3>3. /\ toServer'[o] = out /\ inbox'[s] = in /\ local'[o][m] = sent
          /\ undiscovered'[o][m] = undiscovered[o][m] /\ game'[o] = game[o]
      BY <1>1, <2>1
    <3>4. /\ set1 = m \/ (set1 = set /\ Head(old) \notin RemoteCalls(m))
          /\ added'[s][m] = added[s][m] + IF Head(old) = AddIceCall(m) /\ set = m
                                          THEN 1 ELSE 0
      BY SettleFacts
    <3>5. Leaves(old, m, ops) /\ old # <<>>
      BY <1>1
    <3> HIDE DEF out, in, set, set1, sent, old, ops
    <3>6. /\ Head(old) \notin RemoteCalls(m) =>
               DescriptionFirst(m, out, in, Tail(old), set, sent)
          /\ DescriptionFirst(m, out, in, Tail(old), m, sent)
          /\ Head(old) = AddIceCall(m) => set = m
          /\ InFlight(m, out, in, Tail(old)) = InFlight(m, out, in, old) - one
      BY <3>1, <3>2, <3>5, Settled
    <3>7. DescriptionFirst(m, out, in, Tail(old), set1, sent)
      BY <3>4, <3>6
    <3>8. /\ DescriptionFirst(m, out, in, ops, set1, sent)
          /\ InFlight(m, out, in, ops) = InFlight(m, out, in, old) - one
      BY <3>2, <3>5, <3>6, <3>7, LeavesLinked
    <3>9. added'[s][m] = added[s][m] + one
      BY <3>4, <3>6
    <3>10. undiscovered'[o][m] + InFlight(m, out, in, ops) + added'[s][m]
             = IF game'[o] = m THEN MaxIce ELSE 0
      <4> DEFINE u == undiscovered[o][m]
                 f == InFlight(m, out, in, old)
                 a == added[s][m]
                 T == IF game[o] = m THEN MaxIce ELSE 0
      <4>1. u + f + a = T
        BY <3>1
      <4>2. u \in Nat /\ f \in Nat /\ a \in Nat /\ one \in Nat
        BY <3>2
      <4>3. /\ undiscovered'[o][m] = u /\ InFlight(m, out, in, ops) = f - one
            /\ added'[s][m] = a + one
        BY <3>3, <3>8, <3>9
      <4>4. T = IF game'[o] = m THEN MaxIce ELSE 0
        BY <3>3
      <4> HIDE DEF u, f, a, T, one
      <4>5. u + (f - one) + (a + one) = T
        BY <4>1, <4>2
      <4> QED
        BY <4>3, <4>4, <4>5, Zenon
    <3> QED
      <4>1. DescriptionFirst(m, toServer'[o], inbox'[s], chain'[s][m], remote'[s][m],
                             local'[o][m])
        BY <3>3, <3>8 DEF ops, set1
      <4>2. undiscovered'[o][m] + InFlight(m, toServer'[o], inbox'[s], chain'[s][m])
              + added'[s][m]
              = IF game'[o] = m THEN MaxIce ELSE 0
        BY <3>3, <3>10 DEF ops
      <4> QED
        BY <4>1, <4>2, LinkedNext, Zenon
  <2> QED
    BY <2>1, <2>2, <2>3
<1> QED
  BY <1>3, <1>4, <1>5 DEF IceInv

LEMMA OnIceCandidateIce ==
  ASSUME IInv, IceInv, NEW s \in Pages, NEW m \in Matches, OnIceCandidate(s, m)
  PROVE  IceInv'
<1> USE DEF IInv
<1> DEFINE o == Other(s)
           C == Candidate(m)
<1>1. /\ m \in live[s] /\ local[s][m] /\ undiscovered[s][m] > 0
      /\ undiscovered' = [undiscovered EXCEPT ![s][m] = undiscovered[s][m] - 1]
      /\ toServer' = [toServer EXCEPT ![s] = Append(toServer[s], C)]
      /\ UNCHANGED <<game, leaving, chain, local, remote, added, inbox, match>>
  BY DEF OnIceCandidate, Gathers, Send, fields, lobby, Candidate
<1>2. game[s] = m
  BY <1>1, LiveIsCurrent
<1>3. match \in {None, m}
  BY <1>2, PlayedMatch, NoneIsNoMatch
<1>4. /\ undiscovered'[s][m] = undiscovered[s][m] - 1
      /\ \A x \in Pages, n \in Matches : x # s \/ n # m =>
           undiscovered'[x][n] = undiscovered[x][n]
      /\ toServer'[s] = Append(toServer[s], C)
      /\ \A x \in Pages : x # s => toServer'[x] = toServer[x]
  <2>1. /\ undiscovered \in [Pages -> [Matches -> Nat]]
        /\ toServer \in [Pages -> Seq(Request)]
    BY DEF LobbyInv, LobbyTyped, ObjectsInv, ObjectsTyped
  <2> HIDE DEF C
  <2> QED
    BY <1>1, <2>1
<1>5. Fresh'
  BY <1>1, <1>2, <1>4, FreshKept DEF IceInv
<1>6. Together'
  BY <1>1 DEF IceInv, Together, Current
<1>7. PagesLinked'
  <2> SUFFICES ASSUME match \in Matches, Linked(s, o, match), Linked(o, s, match)
               PROVE  Linked(s, o, match)' /\ Linked(o, s, match)'
    BY <1>1, PagesLinkedNext DEF IceInv
  <2>1. match = m /\ match' = m /\ o \in Pages /\ o # s
    BY <1>1, <1>3, NoneIsNoMatch, TwoPages
  <2>2. Linked(o, s, m)'
    BY <1>1, <1>4, <2>1, LinkedKept
  <2>3. Linked(s, o, m)'
    <3> DEFINE out  == toServer[s]
               in   == inbox[o]
               ops  == chain[o][m]
               set  == remote[o][m]
               sent == local[s][m]
    <3>1. /\ DescriptionFirst(m, out, in, ops, set, sent) /\ sent
          /\ undiscovered[s][m] + InFlight(m, out, in, ops) + added[o][m]
               = IF game[s] = m THEN MaxIce ELSE 0
      BY <1>1, <2>1 DEF Linked
    <3>2. /\ out \in Seq(Request) /\ in \in Seq(Message) /\ ops \in Seq(Operation)
          /\ undiscovered[s][m] \in Nat /\ added[o][m] \in Nat
          /\ InFlight(m, out, in, ops) \in Nat
      BY <2>1, LinkTypes
    <3>3. C \in Request
      BY DEF Request, Relays, Candidate
    <3>4. /\ toServer'[s] = Append(out, C) /\ inbox'[o] = in
          /\ chain'[o][m] = ops /\ remote'[o][m] = set /\ local'[s][m] = sent
          /\ added'[o][m] = added[o][m] /\ game'[s] = game[s]
      BY <1>1, <1>4
    <3> HIDE DEF out, in, ops, set, sent
    <3>5. /\ DescriptionFirst(m, Append(out, C), in, ops, set, sent)
          /\ InFlight(m, Append(out, C), in, ops) = InFlight(m, out, in, ops) + 1
      BY <3>1, <3>2, <3>3, SentCandidate
    <3> HIDE DEF C
    <3>6. undiscovered'[s][m] + InFlight(m, Append(out, C), in, ops) + added'[o][m]
            = IF game'[s] = m THEN MaxIce ELSE 0
      <4> DEFINE u == undiscovered[s][m]
                 f == InFlight(m, out, in, ops)
                 a == added[o][m]
                 T == IF game[s] = m THEN MaxIce ELSE 0
      <4>1. u + f + a = T
        BY <3>1
      <4>2. u \in Nat /\ f \in Nat /\ a \in Nat
        BY <3>2
      <4>3. /\ undiscovered'[s][m] = u - 1
            /\ InFlight(m, Append(out, C), in, ops) = f + 1
            /\ added'[o][m] = a
        BY <1>4, <3>4, <3>5
      <4>4. T = IF game'[s] = m THEN MaxIce ELSE 0
        BY <3>4
      <4> HIDE DEF u, f, a, T
      <4>5. (u - 1) + (f + 1) + a = T
        BY <4>1, <4>2
      <4> QED
        BY <4>3, <4>4, <4>5, Zenon
    <3> QED
      BY <3>4, <3>5, <3>6, LinkedNext
  <2> QED
    BY <2>1, <2>2, <2>3
<1> QED
  BY <1>5, <1>6, <1>7 DEF IceInv

-----------------------------------------------------------------------------
(* No candidate is lost. *)

LEMMA InitIceInv == Init => IceInv
<1> SUFFICES ASSUME Init PROVE IceInv
  OBVIOUS
<1>1. Fresh
  BY DEF Init, Fresh, PerObject
<1>2. Together
  BY TwoPages DEF Init, Together, Current
<1>3. PagesLinked
  BY DEF Init, PagesLinked
<1> QED
  BY <1>1, <1>2, <1>3 DEF IceInv

LEMMA StepIceInv ==
  ASSUME IInv, IceInv, [Next]_vars
  PROVE  IceInv'
<1>1. CASE UNCHANGED vars
  BY <1>1 DEF vars, fields, objects, lobby, IceInv, Fresh, Together, Current, PagesLinked,
              Linked
<1>2. ASSUME NEW s \in Pages, NEW m \in Matches, OnDataChannel(s, m)
      PROVE  IceInv'
  <2>1. UNCHANGED <<game, leaving, objects, toServer, inbox, match>>
    BY <1>2 DEF OnDataChannel, lobby
  <2> QED
    BY <2>1 DEF objects, IceInv, Fresh, Together, Current, PagesLinked, Linked
<1> QED
  BY <1>1, <1>2, AskIce, LeaveIce, ServeAskIce, ServeRelayIce, ServeEndIce, OnReadyIce,
     OnPeerLeftIce, HandleSignalIce, SettleIce, OnIceCandidateIce
  DEF Next, Serve, Handle

\* In a match that lasts, every candidate a page has discovered is on its way,
\* waits in the other's chain or was taken: for any number of matches and
\* candidates.
THEOREM CandidatesArrive == Spec => []NoCandidateLost
<1>1. IInv /\ IceInv /\ [Next]_vars => (IInv /\ IceInv)'
  BY StepIInv, StepIceInv
<1>2. IInv /\ IceInv => NoCandidateLost
  <2> SUFFICES ASSUME IInv, IceInv, NEW s \in Pages, NEW m \in Matches,
                      m \in live[s], m \in live[Other(s)]
               PROVE  undiscovered[s][m] + UnderWay(s, m) + added[Other(s)][m] = MaxIce
    BY DEF NoCandidateLost
  <2>1. Other(s) \in Pages
    BY TwoPages
  <2>2. game[s] = m /\ game[Other(s)] = m /\ m # None
    BY <2>1, LiveIsCurrent, NoneIsNoMatch DEF IInv
  <2>3. /\ ~ leaving[s] /\ Current(s) = m
        /\ ~ leaving[Other(s)] /\ Current(Other(s)) = m
    BY <2>1, <2>2, PlayedMatch DEF IInv
  <2>4. match = m
    BY <2>2, <2>3 DEF IceInv, Together
  <2>5. Linked(s, Other(s), m)
    BY <2>2, <2>3, <2>4 DEF IceInv, PagesLinked
  <2> QED
    BY <2>2, <2>5 DEF Linked, InFlight, UnderWay, AddIceCall
<1> QED
  BY <1>1, <1>2, InitIInv, InitIceInv, PTL DEF Spec

=============================================================================
