---------------------------- MODULE WebLobbyProofs ----------------------------
(***************************************************************************)
(* Theorems about the pages and the lobby they talk to, for any number of  *)
(* pages and rooms, and of things under way.                               *)
(***************************************************************************)
EXTENDS WebLobby, TLAPS

\* What is proved of the server's handlers.
Lobby == INSTANCE LobbyProofs

-----------------------------------------------------------------------------
(* The inductive invariant. *)

WebLine == Lobby!Line \union {Upgraded}

WebRequest == [verb : {"GET", "LIST", "CREATE", "end"}]
                \union [verb : {"JOIN"}, code : Codes \union {Server!NoRoom}]
                \union [verb : {"RELAY"}, body : Bodies]

Typed ==
  /\ ws \in [Players -> {"none", "CONNECTING", "OPEN", "CLOSING", "CLOSED"}]
  /\ screen \in [Players -> {"Menu", "Waiting", "Game"}]
  /\ enabled \in [Players -> BOOLEAN]
  /\ list \in [Players -> SUBSET Codes]
  /\ listed \in [Players -> BOOLEAN]
  /\ playing \in [Players -> {"none", "host", "guest"}]
  /\ toServer \in [Players -> Seq(WebRequest)]
  /\ toClient \in [Players -> Seq(WebLine)]

Holds(items, verbs) == \E i \in DOMAIN items : items[i].verb \in verbs

\* The i-th of these lines is the last one with such a verb.
LastOf(lines, i, verbs) ==
  /\ i \in DOMAIN lines /\ lines[i].verb \in verbs
  /\ \A j \in DOMAIN lines : j > i => lines[j].verb \notin verbs

\* The two ends of a connection, and what a page that is not upgraded can hear.
SocketAgrees(p) ==
  /\ ws[p] \in {"none", "CONNECTING"} => screen[p] = "Menu" /\ playing[p] = "none"
  /\ ws[p] = "none" =>
       conn[p] = "unused" /\ toServer[p] = <<>> /\ toClient[p] = <<>>
  /\ ws[p] = "OPEN" => conn[p] = "Open"
  /\ Hears(p) => conn[p] # "closed" /\ ~ Holds(toServer[p], {"end"})
  /\ ws[p] = "CONNECTING" =>
       /\ conn[p] = "Open" <=> Holds(toClient[p], {"101"})
       /\ toClient[p] # <<>> => Head(toClient[p]).verb \in {"ROOMS", "101"}

Places == Lobby!PlaceVerbs

Means(verb) ==
  IF verb = "READY" THEN "Playing" ELSE IF verb = "CREATED" THEN "Hosting" ELSE "Lobby"

Shows(scr) ==
  IF scr = "Game" THEN "Playing" ELSE IF scr = "Waiting" THEN "Hosting" ELSE "Lobby"

\* With these lines still to be heard, this screen will show that place.
WillShow(lines, scr, place) ==
  /\ \A i \in DOMAIN lines : LastOf(lines, i, Places) => place = Means(lines[i].verb)
  /\ ~ Holds(lines, Places) => place = Shows(scr)

ScreenFollows(p) == Hears(p) => WillShow(toClient[p], screen[p], told[p])

\* Before the n-th of these lines is heard, a PEER_LEFT brings the page back to
\* its menu, whatever screen it is on or will be taken to.
Returns(lines, n, scr) ==
  /\ scr # "Menu" => \E j \in DOMAIN lines : j < n /\ lines[j].verb = "PEER_LEFT"
  /\ \A k \in DOMAIN lines :
       k < n /\ lines[k].verb \in {"CREATED", "READY"} =>
         \E j \in DOMAIN lines : k < j /\ j < n /\ lines[j].verb = "PEER_LEFT"

\* A page that is put out returns to its menu, and before it hears of a room of
\* its own if it keeps to one room.
PutOutReturns(p) ==
  Hears(p) =>
    /\ told[p] = "Lobby" => Returns(toClient[p], Len(toClient[p]) + 1, screen[p])
    /\ p \notin strays =>
         \A i \in DOMAIN toClient[p] :
           toClient[p][i].verb = "CREATED" => Returns(toClient[p], i, screen[p])

EngineFollows(p) ==
  p \notin strays => (playing[p] # "none" <=> screen[p] = "Game" /\ ws[p] = "OPEN")

\* With these lines still to be heard, the engine will have this role.
WillPlay(lines, scr, engine, role) ==
  /\ \A i \in DOMAIN lines :
       LastOf(lines, i, Places) /\ lines[i].verb = "READY" => lines[i].role = role
  /\ ~ Holds(lines, Places) /\ scr = "Game" => engine = role

RoleAgrees(p) ==
  strays = {} /\ Hears(p) =>
    WillPlay(toClient[p], screen[p], playing[p], Lobby!Role(p))

\* With these lines still to be heard, the menu will list these codes.
WillList(lines, codes, current) ==
  /\ \A i \in DOMAIN lines : LastOf(lines, i, {"ROOMS"}) => lines[i].codes = current
  /\ ~ Holds(lines, {"ROOMS"}) => codes = current

\* A page in the lobby that is not about to ask will list what it was sent.
ListFollows(p) ==
  /\ ws[p] = "OPEN" /\ told[p] = "Lobby"
  /\ ~ Holds(toServer[p], {"LIST"}) /\ ~ Holds(toClient[p], {"PEER_LEFT"})
  => WillList(toClient[p], list[p], seen[p])

Requests == {"CREATE", "JOIN"}
Answers  == {"CREATED", "READY", "ERROR", "PEER_LEFT"}

\* Buttons are disabled only while an answer that enables them is to come.
AnswerToCome(p) ==
  ws[p] = "OPEN" /\ screen[p] = "Menu" /\ ~ (enabled[p] /\ listed[p]) =>
    Holds(toServer[p], Requests) \/ Holds(toClient[p], Answers)

PageInv(p) ==
  /\ SocketAgrees(p)
  /\ ScreenFollows(p)
  /\ PutOutReturns(p)
  /\ EngineFollows(p)
  /\ RoleAgrees(p)
  /\ ListFollows(p)
  /\ AnswerToCome(p)

\* The four properties are about pages with nothing under way, and not
\* inductive: this says what a page will come to when it has heard all.  What
\* the lines to a page mean is Lobby!KInv's matter.
IInv ==
  /\ Lobby!KInv
  /\ Typed
  /\ \A p \in Players : PageInv(p)

-----------------------------------------------------------------------------
(* Queues. *)

\* Where a screen is taken by a line.
Takes(verb, scr) ==
  IF verb = "READY" THEN "Game"
  ELSE IF verb = "CREATED" THEN "Waiting"
  ELSE IF verb = "PEER_LEFT" THEN "Menu"
  ELSE scr

LEMMA Concat ==
  ASSUME NEW S, NEW q \in Seq(S), NEW s \in Seq(S)
  PROVE  /\ q \o s \in Seq(S) /\ Len(q \o s) = Len(q) + Len(s)
         /\ Len(q) \in Nat /\ Len(s) \in Nat
         /\ \A i \in DOMAIN q : i \in DOMAIN (q \o s) /\ (q \o s)[i] = q[i]
         /\ \A i \in DOMAIN s :
              Len(q) + i \in DOMAIN (q \o s) /\ (q \o s)[Len(q) + i] = s[i]
         /\ \A i \in DOMAIN (q \o s) :
              i \in Nat /\ (i \in DOMAIN q \/ (i > Len(q) /\ i - Len(q) \in DOMAIN s))
OBVIOUS

LEMMA Tailed ==
  ASSUME NEW S, NEW q \in Seq(S), q # <<>>
  PROVE  /\ Tail(q) \in Seq(S) /\ Len(Tail(q)) = Len(q) - 1
         /\ Len(q) \in Nat /\ 1 \in DOMAIN q /\ q[1] = Head(q)
         /\ \A i \in DOMAIN Tail(q) :
              i \in Nat /\ i >= 1 /\ i + 1 \in DOMAIN q /\ Tail(q)[i] = q[i + 1]
         /\ \A i \in DOMAIN q :
              i = 1 \/ (i \in Nat /\ i > 1 /\ i - 1 \in DOMAIN Tail(q)
                        /\ Tail(q)[i - 1] = q[i])
OBVIOUS

LEMMA HoldsConcat ==
  ASSUME NEW S, NEW q \in Seq(S), NEW s \in Seq(S), NEW verbs
  PROVE  Holds(q \o s, verbs) <=> Holds(q, verbs) \/ Holds(s, verbs)
<1>1. Holds(q \o s, verbs) => Holds(q, verbs) \/ Holds(s, verbs)
  BY DEF Holds
<1>2. Holds(q, verbs) => Holds(q \o s, verbs)
  BY Concat DEF Holds
<1>3. ASSUME NEW i \in DOMAIN s, s[i].verb \in verbs
      PROVE  Holds(q \o s, verbs)
  <2>1. Len(q) + i \in DOMAIN (q \o s) /\ (q \o s)[Len(q) + i] = s[i]
    BY Concat
  <2> QED
    BY <1>3, <2>1 DEF Holds
<1> QED
  BY <1>1, <1>2, <1>3 DEF Holds

LEMMA HoldsTail ==
  ASSUME NEW S, NEW q \in Seq(S), q # <<>>, NEW verbs
  PROVE  Holds(q, verbs) <=> Head(q).verb \in verbs \/ Holds(Tail(q), verbs)
<1>1. Holds(q, verbs) => Head(q).verb \in verbs \/ Holds(Tail(q), verbs)
  BY Tailed DEF Holds
<1>2. Head(q).verb \in verbs => Holds(q, verbs)
  BY Tailed DEF Holds
<1>3. Holds(Tail(q), verbs) => Holds(q, verbs)
  BY Tailed DEF Holds
<1> QED
  BY <1>1, <1>2, <1>3

\* The last of some lines, once others follow.
LEMMA LastConcat ==
  ASSUME NEW S, NEW q \in Seq(S), NEW s \in Seq(S), NEW verbs,
         NEW i, LastOf(q \o s, i, verbs)
  PROVE  IF Holds(s, verbs)
         THEN \E j \in DOMAIN s : LastOf(s, j, verbs) /\ (q \o s)[i] = s[j]
         ELSE i \in DOMAIN q /\ LastOf(q, i, verbs) /\ (q \o s)[i] = q[i]
<1> DEFINE t == q \o s
<1>1. /\ \A k \in DOMAIN q : k \in DOMAIN t /\ t[k] = q[k]
      /\ \A k \in DOMAIN s : Len(q) + k \in DOMAIN t /\ t[Len(q) + k] = s[k]
      /\ \A k \in DOMAIN t :
           k \in Nat /\ (k \in DOMAIN q \/ (k > Len(q) /\ k - Len(q) \in DOMAIN s))
      /\ Len(q) \in Nat
  BY Concat
<1>2. DOMAIN q = 1 .. Len(q) /\ DOMAIN s = 1 .. Len(s) /\ Len(s) \in Nat
  OBVIOUS
<1>3. /\ i \in DOMAIN t /\ t[i].verb \in verbs
      /\ \A j \in DOMAIN t : j > i => t[j].verb \notin verbs
  BY DEF LastOf
<1> HIDE DEF t
<1>4. CASE Holds(s, verbs)
  <2>1. PICK k \in DOMAIN s : s[k].verb \in verbs
    BY <1>4 DEF Holds
  <2>2. ~ (Len(q) + k > i)
    BY <1>1, <1>3, <2>1
  <2>3. i \notin DOMAIN q
    BY <1>1, <1>2, <2>1, <2>2
  <2> DEFINE j == i - Len(q)
  <2>4. j \in DOMAIN s /\ i = Len(q) + j /\ j \in Nat
    BY <1>1, <1>2, <1>3, <2>3
  <2>5. t[i] = s[j]
    BY <1>1, <2>4
  <2>6. \A m \in DOMAIN s : m > j => s[m].verb \notin verbs
    BY <1>1, <1>2, <1>3, <2>4
  <2>7. LastOf(s, j, verbs)
    BY <1>3, <2>4, <2>5, <2>6 DEF LastOf
  <2> QED
    BY <1>4, <2>4, <2>5, <2>7 DEF t
<1>5. CASE ~ Holds(s, verbs)
  <2>1. i \in DOMAIN q
    <3>1. ASSUME i > Len(q), i - Len(q) \in DOMAIN s PROVE FALSE
      <4>1. t[i] = s[i - Len(q)]
        BY <1>1, <1>2, <3>1, <1>3
      <4> QED
        BY <1>3, <1>5, <3>1, <4>1 DEF Holds
    <3> QED
      BY <1>1, <1>3, <3>1
  <2>2. LastOf(q, i, verbs)
    BY <1>1, <1>3, <2>1 DEF LastOf
  <2> QED
    BY <1>1, <1>5, <2>1, <2>2 DEF t
<1> QED
  BY <1>4, <1>5

LEMMA LastTail ==
  ASSUME NEW S, NEW q \in Seq(S), q # <<>>, NEW verbs
  PROVE  /\ \A i \in DOMAIN Tail(q) : LastOf(Tail(q), i, verbs) =>
              i + 1 \in DOMAIN q /\ LastOf(q, i + 1, verbs) /\ Tail(q)[i] = q[i + 1]
         /\ Head(q).verb \in verbs /\ ~ Holds(Tail(q), verbs)
              => 1 \in DOMAIN q /\ LastOf(q, 1, verbs) /\ q[1] = Head(q)
<1> DEFINE t == Tail(q)
<1>1. /\ 1 \in DOMAIN q /\ q[1] = Head(q)
      /\ \A i \in DOMAIN t :
           i \in Nat /\ i >= 1 /\ i + 1 \in DOMAIN q /\ t[i] = q[i + 1]
      /\ \A i \in DOMAIN q :
           i = 1 \/ (i \in Nat /\ i > 1 /\ i - 1 \in DOMAIN t /\ t[i - 1] = q[i])
  BY Tailed
<1> HIDE DEF t
<1>2. ASSUME NEW i \in DOMAIN t, LastOf(t, i, verbs)
      PROVE  i + 1 \in DOMAIN q /\ LastOf(q, i + 1, verbs) /\ t[i] = q[i + 1]
  <2>1. ASSUME NEW j \in DOMAIN q, j > i + 1
        PROVE  q[j].verb \notin verbs
    <3>1. j - 1 \in DOMAIN t /\ t[j - 1] = q[j] /\ j - 1 > i
      BY <1>1, <2>1
    <3> QED
      BY <1>2, <3>1 DEF LastOf
  <2> QED
    BY <1>1, <1>2, <2>1 DEF LastOf
<1>3. ASSUME Head(q).verb \in verbs, ~ Holds(t, verbs)
      PROVE  LastOf(q, 1, verbs)
  <2>1. ASSUME NEW j \in DOMAIN q, j > 1
        PROVE  q[j].verb \notin verbs
    <3>1. j - 1 \in DOMAIN t /\ t[j - 1] = q[j]
      BY <1>1, <2>1
    <3> QED
      BY <1>3, <3>1 DEF Holds
  <2> QED
    BY <1>1, <1>3, <2>1 DEF LastOf
<1> QED
  BY <1>1, <1>2, <1>3 DEF t

-----------------------------------------------------------------------------
(* What a page will show, play and list, as lines are sent to it and heard. *)

LEMMA WillShowMore ==
  ASSUME NEW S, NEW q \in Seq(S), NEW s \in Seq(S), NEW scr, NEW after,
         \A i \in DOMAIN s : s[i].verb \in Places => after = Means(s[i].verb),
         ~ Holds(s, Places) => WillShow(q, scr, after)
  PROVE  WillShow(q \o s, scr, after)
<1>1. ASSUME NEW i \in DOMAIN (q \o s), LastOf(q \o s, i, Places)
      PROVE  after = Means((q \o s)[i].verb)
  <2>1. CASE Holds(s, Places)
    <3>1. PICK j \in DOMAIN s : LastOf(s, j, Places) /\ (q \o s)[i] = s[j]
      BY <1>1, <2>1, LastConcat
    <3> QED
      BY <3>1 DEF LastOf
  <2>2. CASE ~ Holds(s, Places)
    <3>1. i \in DOMAIN q /\ LastOf(q, i, Places) /\ (q \o s)[i] = q[i]
      BY <1>1, <2>2, LastConcat
    <3> QED
      BY <2>2, <3>1 DEF WillShow
  <2> QED
    BY <2>1, <2>2
<1>2. ~ Holds(q \o s, Places) => after = Shows(scr)
  BY HoldsConcat DEF WillShow
<1> QED
  BY <1>1, <1>2 DEF WillShow

LEMMA PlacesAre == Places = {"CREATED", "READY", "PEER_LEFT"}
BY DEF Places, Lobby!PlaceVerbs

LEMMA WillShowHeard ==
  ASSUME NEW S, NEW q \in Seq(S), q # <<>>, NEW scr, NEW place, WillShow(q, scr, place)
  PROVE  WillShow(Tail(q), Takes(Head(q).verb, scr), place)
<1> DEFINE scr1 == Takes(Head(q).verb, scr)
<1>1. ASSUME NEW i \in DOMAIN Tail(q), LastOf(Tail(q), i, Places)
      PROVE  place = Means(Tail(q)[i].verb)
  <2>1. i + 1 \in DOMAIN q /\ LastOf(q, i + 1, Places) /\ Tail(q)[i] = q[i + 1]
    BY <1>1, LastTail
  <2> QED
    BY <2>1 DEF WillShow
<1>2. ASSUME ~ Holds(Tail(q), Places)
      PROVE  place = Shows(scr1)
  <2>1. CASE Head(q).verb \in Places
    <3>1. 1 \in DOMAIN q /\ LastOf(q, 1, Places) /\ q[1] = Head(q)
      BY <1>2, <2>1, LastTail
    <3>2. place = Means(Head(q).verb)
      BY <3>1 DEF WillShow
    <3> QED
      BY <2>1, <3>2, PlacesAre DEF Means, Shows, Takes
  <2>2. CASE Head(q).verb \notin Places
    <3>1. ~ Holds(q, Places)
      BY <1>2, <2>2, HoldsTail
    <3>2. scr1 = scr
      BY <2>2, PlacesAre DEF Takes
    <3> QED
      BY <3>1, <3>2 DEF WillShow
  <2> QED
    BY <2>1, <2>2
<1> QED
  BY <1>1, <1>2 DEF WillShow

LEMMA WillPlayMore ==
  ASSUME NEW S, NEW q \in Seq(S), NEW s \in Seq(S), NEW scr, NEW engine, NEW after,
         \A i \in DOMAIN s : s[i].verb = "READY" => s[i].role = after,
         ~ Holds(s, Places) => WillPlay(q, scr, engine, after)
  PROVE  WillPlay(q \o s, scr, engine, after)
<1>1. ASSUME NEW i \in DOMAIN (q \o s), LastOf(q \o s, i, Places),
             (q \o s)[i].verb = "READY"
      PROVE  (q \o s)[i].role = after
  <2>1. CASE Holds(s, Places)
    <3>1. PICK j \in DOMAIN s : LastOf(s, j, Places) /\ (q \o s)[i] = s[j]
      BY <1>1, <2>1, LastConcat
    <3> QED
      BY <1>1, <3>1
  <2>2. CASE ~ Holds(s, Places)
    <3>1. i \in DOMAIN q /\ LastOf(q, i, Places) /\ (q \o s)[i] = q[i]
      BY <1>1, <2>2, LastConcat
    <3> QED
      BY <1>1, <2>2, <3>1 DEF WillPlay
  <2> QED
    BY <2>1, <2>2
<1>2. ~ Holds(q \o s, Places) /\ scr = "Game" => engine = after
  BY HoldsConcat DEF WillPlay
<1> QED
  BY <1>1, <1>2 DEF WillPlay

\* Where a page will not play, any role will do.
LEMMA WillPlayNothing ==
  ASSUME NEW q, NEW scr, NEW place, NEW engine, NEW role,
         WillShow(q, scr, place), place # "Playing"
  PROVE  WillPlay(q, scr, engine, role)
BY DEF WillShow, WillPlay, Means, Shows

LEMMA WillPlayHeard ==
  ASSUME NEW S, NEW q \in Seq(S), q # <<>>, NEW scr, NEW engine, NEW now, NEW role,
         WillPlay(q, scr, engine, role),
         Head(q).verb = "READY" => now = Head(q).role,
         Head(q).verb \notin Places => now = engine
  PROVE  WillPlay(Tail(q), Takes(Head(q).verb, scr), now, role)
<1> DEFINE scr1 == Takes(Head(q).verb, scr)
<1>1. ASSUME NEW i \in DOMAIN Tail(q), LastOf(Tail(q), i, Places),
             Tail(q)[i].verb = "READY"
      PROVE  Tail(q)[i].role = role
  <2>1. i + 1 \in DOMAIN q /\ LastOf(q, i + 1, Places) /\ Tail(q)[i] = q[i + 1]
    BY <1>1, LastTail
  <2> QED
    BY <1>1, <2>1 DEF WillPlay
<1>2. ASSUME ~ Holds(Tail(q), Places), scr1 = "Game"
      PROVE  now = role
  <2>1. CASE Head(q).verb \in Places
    <3>1. 1 \in DOMAIN q /\ LastOf(q, 1, Places) /\ q[1] = Head(q)
      BY <1>2, <2>1, LastTail
    <3>2. Head(q).verb = "READY"
      BY <1>2, <2>1, PlacesAre DEF Takes
    <3> QED
      BY <3>1, <3>2 DEF WillPlay
  <2>2. CASE Head(q).verb \notin Places
    <3>1. ~ Holds(q, Places)
      BY <1>2, <2>2, HoldsTail
    <3>2. scr1 = scr
      BY <2>2, PlacesAre DEF Takes
    <3> QED
      BY <1>2, <2>2, <3>1, <3>2 DEF WillPlay
  <2> QED
    BY <2>1, <2>2
<1> QED
  BY <1>1, <1>2 DEF WillPlay

LEMMA WillListMore ==
  ASSUME NEW S, NEW q \in Seq(S), NEW s \in Seq(S), NEW codes, NEW after,
         \A i \in DOMAIN s : s[i].verb = "ROOMS" => s[i].codes = after,
         ~ Holds(s, {"ROOMS"}) => WillList(q, codes, after)
  PROVE  WillList(q \o s, codes, after)
<1>1. ASSUME NEW i \in DOMAIN (q \o s), LastOf(q \o s, i, {"ROOMS"})
      PROVE  (q \o s)[i].codes = after
  <2>1. CASE Holds(s, {"ROOMS"})
    <3>1. PICK j \in DOMAIN s : LastOf(s, j, {"ROOMS"}) /\ (q \o s)[i] = s[j]
      BY <1>1, <2>1, LastConcat
    <3> QED
      BY <3>1 DEF LastOf
  <2>2. CASE ~ Holds(s, {"ROOMS"})
    <3>1. i \in DOMAIN q /\ LastOf(q, i, {"ROOMS"}) /\ (q \o s)[i] = q[i]
      BY <1>1, <2>2, LastConcat
    <3> QED
      BY <2>2, <3>1 DEF WillList
  <2> QED
    BY <2>1, <2>2
<1>2. ~ Holds(q \o s, {"ROOMS"}) => codes = after
  BY HoldsConcat DEF WillList
<1> QED
  BY <1>1, <1>2 DEF WillList

LEMMA WillListHeard ==
  ASSUME NEW S, NEW q \in Seq(S), q # <<>>, NEW codes, NEW now, NEW current,
         WillList(q, codes, current),
         now = IF Head(q).verb = "ROOMS" THEN Head(q).codes ELSE codes
  PROVE  WillList(Tail(q), now, current)
<1>1. ASSUME NEW i \in DOMAIN Tail(q), LastOf(Tail(q), i, {"ROOMS"})
      PROVE  Tail(q)[i].codes = current
  <2>1. i + 1 \in DOMAIN q /\ LastOf(q, i + 1, {"ROOMS"}) /\ Tail(q)[i] = q[i + 1]
    BY <1>1, LastTail
  <2> QED
    BY <2>1 DEF WillList
<1>2. ASSUME ~ Holds(Tail(q), {"ROOMS"})
      PROVE  now = current
  <2>1. CASE Head(q).verb = "ROOMS"
    <3>1. 1 \in DOMAIN q /\ LastOf(q, 1, {"ROOMS"}) /\ q[1] = Head(q)
      BY <1>2, <2>1, LastTail
    <3> QED
      BY <2>1, <3>1 DEF WillList
  <2>2. CASE Head(q).verb # "ROOMS"
    <3>1. ~ Holds(q, {"ROOMS"})
      BY <1>2, <2>2, HoldsTail
    <3> QED
      BY <2>2, <3>1 DEF WillList
  <2> QED
    BY <2>1, <2>2
<1> QED
  BY <1>1, <1>2 DEF WillList

LEMMA ReturnsMore ==
  ASSUME NEW S, NEW q \in Seq(S), NEW s \in Seq(S), NEW scr, NEW n \in 1 .. Len(q) + 1,
         Returns(q, n, scr)
  PROVE  Returns(q \o s, n, scr)
<1> DEFINE t == q \o s
<1>1. /\ \A k \in DOMAIN q : k \in DOMAIN t /\ t[k] = q[k]
      /\ \A k \in DOMAIN t : k \in Nat /\ (k \in DOMAIN q \/ k > Len(q))
      /\ Len(q) \in Nat
  BY Concat
<1> HIDE DEF t
<1>2. \A k \in DOMAIN t : k < n => k \in DOMAIN q
  BY <1>1
<1>3. scr # "Menu" => \E j \in DOMAIN t : j < n /\ t[j].verb = "PEER_LEFT"
  BY <1>1 DEF Returns
<1>4. ASSUME NEW k \in DOMAIN t, k < n, t[k].verb \in {"CREATED", "READY"}
      PROVE  \E j \in DOMAIN t : k < j /\ j < n /\ t[j].verb = "PEER_LEFT"
  <2>1. k \in DOMAIN q /\ q[k].verb \in {"CREATED", "READY"}
    BY <1>1, <1>2, <1>4
  <2>2. PICK j \in DOMAIN q : k < j /\ j < n /\ q[j].verb = "PEER_LEFT"
    BY <1>4, <2>1 DEF Returns
  <2> QED
    BY <1>1, <2>2
<1> QED
  BY <1>3, <1>4 DEF Returns, t

\* After more lines that take a page nowhere else.
LEMMA ReturnsLater ==
  ASSUME NEW S, NEW q \in Seq(S), NEW s \in Seq(S), NEW scr,
         NEW n \in Len(q) + 1 .. Len(q) + Len(s) + 1,
         Returns(q, Len(q) + 1, scr),
         \A i \in DOMAIN s : Len(q) + i < n => s[i].verb \notin {"CREATED", "READY"}
  PROVE  Returns(q \o s, n, scr)
<1> DEFINE t == q \o s
<1>1. /\ \A k \in DOMAIN q : k \in DOMAIN t /\ t[k] = q[k]
      /\ \A k \in DOMAIN s : Len(q) + k \in DOMAIN t /\ t[Len(q) + k] = s[k]
      /\ \A k \in DOMAIN t :
           k \in Nat /\ (k \in DOMAIN q \/ (k > Len(q) /\ k - Len(q) \in DOMAIN s))
      /\ Len(q) \in Nat /\ Len(s) \in Nat
  BY Concat
<1>2. DOMAIN q = 1 .. Len(q)
  OBVIOUS
<1>3. \A k \in DOMAIN q : k < Len(q) + 1 /\ k < n
  BY <1>1, <1>2
<1> HIDE DEF t
<1>4. scr # "Menu" => \E j \in DOMAIN t : j < n /\ t[j].verb = "PEER_LEFT"
  BY <1>1, <1>3 DEF Returns
<1>5. ASSUME NEW k \in DOMAIN t, k < n, t[k].verb \in {"CREATED", "READY"}
      PROVE  \E j \in DOMAIN t : k < j /\ j < n /\ t[j].verb = "PEER_LEFT"
  <2>1. k \in DOMAIN q
    <3>1. ASSUME k > Len(q), k - Len(q) \in DOMAIN s PROVE FALSE
      <4>1. Len(q) + (k - Len(q)) = k
        BY <1>1
      <4>2. t[k] = s[k - Len(q)]
        BY <1>1, <3>1, <4>1
      <4> QED
        BY <1>5, <3>1, <4>1, <4>2
    <3> QED
      BY <1>1, <3>1
  <2>2. q[k].verb \in {"CREATED", "READY"} /\ k < Len(q) + 1
    BY <1>1, <1>3, <1>5, <2>1
  <2>3. PICK j \in DOMAIN q : k < j /\ q[j].verb = "PEER_LEFT"
    BY <2>1, <2>2 DEF Returns
  <2> QED
    BY <1>1, <1>3, <2>3
<1> QED
  BY <1>4, <1>5 DEF Returns, t

\* PEER_LEFT takes a page back from everywhere.
LEMMA ReturnsNow ==
  ASSUME NEW S, NEW q \in Seq(S), NEW s \in Seq(S), NEW scr,
         Holds(s, {"PEER_LEFT"}), ~ Holds(s, {"CREATED", "READY"})
  PROVE  Returns(q \o s, Len(q \o s) + 1, scr)
<1> DEFINE t == q \o s
<1>1. /\ \A k \in DOMAIN q : k \in DOMAIN t /\ t[k] = q[k]
      /\ \A k \in DOMAIN s : Len(q) + k \in DOMAIN t /\ t[Len(q) + k] = s[k]
      /\ \A k \in DOMAIN t :
           k \in Nat /\ (k \in DOMAIN q \/ (k > Len(q) /\ k - Len(q) \in DOMAIN s))
      /\ Len(t) = Len(q) + Len(s) /\ Len(q) \in Nat /\ Len(s) \in Nat
  BY Concat
<1>2. DOMAIN q = 1 .. Len(q) /\ DOMAIN s = 1 .. Len(s)
  OBVIOUS
<1>3. PICK i \in DOMAIN s : s[i].verb = "PEER_LEFT"
  BY DEF Holds
<1> HIDE DEF t
<1> DEFINE j == Len(q) + i
<1>4. /\ j \in DOMAIN t /\ t[j].verb = "PEER_LEFT" /\ j < Len(t) + 1
      /\ \A k \in DOMAIN q : k < j
  BY <1>1, <1>2, <1>3
<1> HIDE DEF j
<1>5. ASSUME NEW k \in DOMAIN t, t[k].verb \in {"CREATED", "READY"}
      PROVE  k \in DOMAIN q
  <2>1. ASSUME k > Len(q), k - Len(q) \in DOMAIN s PROVE FALSE
    <3>1. Len(q) + (k - Len(q)) = k
      BY <1>1
    <3>2. t[k] = s[k - Len(q)]
      BY <1>1, <2>1, <3>1
    <3> QED
      BY <1>5, <2>1, <3>2 DEF Holds
  <2> QED
    BY <1>1, <2>1
<1> QED
  BY <1>4, <1>5 DEF Returns, t

LEMMA ReturnsHeard ==
  ASSUME NEW S, NEW q \in Seq(S), q # <<>>, NEW scr, NEW n \in Nat, n > 1,
         Returns(q, n, scr)
  PROVE  Returns(Tail(q), n - 1, Takes(Head(q).verb, scr))
<1> DEFINE t == Tail(q)
           scr1 == Takes(Head(q).verb, scr)
<1>1. /\ 1 \in DOMAIN q /\ q[1] = Head(q)
      /\ \A i \in DOMAIN t :
           i \in Nat /\ i >= 1 /\ i + 1 \in DOMAIN q /\ t[i] = q[i + 1]
      /\ \A i \in DOMAIN q :
           i = 1 \/ (i \in Nat /\ i > 1 /\ i - 1 \in DOMAIN t /\ t[i - 1] = q[i])
  BY Tailed
<1> HIDE DEF t
<1>2. ASSUME NEW j \in DOMAIN q, j > 1, j < n, q[j].verb = "PEER_LEFT"
      PROVE  j - 1 \in DOMAIN t /\ j - 1 < n - 1 /\ t[j - 1].verb = "PEER_LEFT"
  BY <1>1, <1>2
<1>3. ASSUME scr1 # "Menu"
      PROVE  \E j \in DOMAIN t : j < n - 1 /\ t[j].verb = "PEER_LEFT"
  <2>1. CASE Head(q).verb \in {"CREATED", "READY"}
    <3>1. PICK j \in DOMAIN q : 1 < j /\ j < n /\ q[j].verb = "PEER_LEFT"
      BY <1>1, <2>1 DEF Returns
    <3>2. j \in Nat
      BY <1>1
    <3> QED
      BY <1>2, <3>1, <3>2
  <2>2. CASE Head(q).verb \notin {"CREATED", "READY"}
    <3>1. scr # "Menu" /\ Head(q).verb # "PEER_LEFT"
      BY <1>3, <2>2 DEF Takes
    <3>2. PICK j \in DOMAIN q : j < n /\ q[j].verb = "PEER_LEFT"
      BY <3>1 DEF Returns
    <3>3. j \in Nat /\ j > 1
      BY <1>1, <3>1, <3>2
    <3> QED
      BY <1>2, <3>2, <3>3
  <2> QED
    BY <2>1, <2>2
<1>4. ASSUME NEW k \in DOMAIN t, k < n - 1, t[k].verb \in {"CREATED", "READY"}
      PROVE  \E j \in DOMAIN t : k < j /\ j < n - 1 /\ t[j].verb = "PEER_LEFT"
  <2>1. k + 1 \in DOMAIN q /\ k + 1 < n /\ q[k + 1].verb \in {"CREATED", "READY"}
        /\ k \in Nat /\ k >= 1
    BY <1>1, <1>4
  <2>2. PICK j \in DOMAIN q : k + 1 < j /\ j < n /\ q[j].verb = "PEER_LEFT"
    BY <2>1 DEF Returns
  <2>3. j \in Nat /\ j > 1 /\ k < j - 1
    BY <1>1, <2>1, <2>2
  <2>4. j - 1 \in DOMAIN t /\ j - 1 < n - 1 /\ t[j - 1].verb = "PEER_LEFT"
    BY <1>2, <2>2, <2>3
  <2> QED
    BY <2>3, <2>4
<1> QED
  BY <1>3, <1>4 DEF Returns, t

-----------------------------------------------------------------------------
(* The steps of a page. *)

\* What the server has of p, as far as p's page is concerned.
ServerOf(p) == <<conn[p], told[p], seen[p], strays, Lobby!Role(p)>>

PageOf(p) ==
  <<ws[p], screen[p], enabled[p], list[p], listed[p], playing[p], toServer[p], toClient[p]>>

LEMMA PageStays ==
  ASSUME NEW p \in Players, PageInv(p), UNCHANGED <<ServerOf(p), PageOf(p)>>
  PROVE  PageInv(p)'
<1>1. /\ conn'[p] = conn[p] /\ told'[p] = told[p] /\ seen'[p] = seen[p]
      /\ strays' = strays /\ Lobby!Role(p)' = Lobby!Role(p)
      /\ ws'[p] = ws[p] /\ screen'[p] = screen[p] /\ enabled'[p] = enabled[p]
      /\ list'[p] = list[p] /\ listed'[p] = listed[p] /\ playing'[p] = playing[p]
      /\ toServer'[p] = toServer[p] /\ toClient'[p] = toClient[p]
  BY DEF ServerOf, PageOf
<1>2. Hears(p)' = Hears(p)
  BY <1>1 DEF Hears
<1> USE DEF PageInv
<1>3. SocketAgrees(p)'
  BY <1>1, <1>2 DEF SocketAgrees, Holds
<1>4. ScreenFollows(p)' /\ EngineFollows(p)' /\ RoleAgrees(p)' /\ ListFollows(p)'
  BY <1>1, <1>2 DEF ScreenFollows, EngineFollows, RoleAgrees, ListFollows, WillShow,
                    WillPlay, WillList, LastOf, Holds
<1>5. PutOutReturns(p)'
  BY <1>1, <1>2 DEF PutOutReturns, Returns
<1>6. AnswerToCome(p)'
  BY <1>1 DEF AnswerToCome, Holds
<1> QED
  BY <1>3, <1>4, <1>5, <1>6

\* A step of page p moves no other page, and nothing of the server.
LEMMA PageStep ==
  ASSUME Typed, Page, NEW p \in Players,
         \A q \in Players \ {p} : PageOf(q)' = PageOf(q)
  PROVE  /\ \A q \in Players : ServerOf(q)' = ServerOf(q)
         /\ Lobby!KInv => Lobby!KInv'
         /\ (\A q \in Players : PageInv(q)) /\ PageInv(p)'
              => \A q \in Players : PageInv(q)'
<1>1. /\ UNCHANGED <<conn, players, rooms, nextCode, host, guest, room, told, seen, strays>>
      /\ sent' = [q \in Players |-> <<>>]
  BY DEF Page, server
<1>2. \A q \in Players : ServerOf(q)' = ServerOf(q)
  BY <1>1 DEF ServerOf, Lobby!Role
<1>3. Lobby!KInv => Lobby!KInv'
  BY <1>1, Lobby!PauseKInv, WebLobbyAssumption DEF Lobby!serverVars, Lobby!LobbyAssumption,
     WebLobbyAssumption
<1>4. ASSUME NEW q \in Players, q # p, PageInv(q)
      PROVE  PageInv(q)'
  BY <1>2, <1>4, PageStays
<1> QED
  BY <1>2, <1>3, <1>4

LEMMA ToServerSends ==
  ASSUME Typed, NEW p \in Players, NEW r \in WebRequest, ToServer(p, <<r>>)
  PROVE  /\ toServer' \in [Players -> Seq(WebRequest)]
         /\ \A q \in Players : q # p => toServer'[q] = toServer[q]
         /\ \A verbs : conn[p] # "closed" =>
              (Holds(toServer'[p], verbs) <=> Holds(toServer[p], verbs) \/ r.verb \in verbs)
<1> DEFINE now == IF conn[p] = "closed" THEN toServer[p] ELSE toServer[p] \o <<r>>
<1>1. toServer[p] \in Seq(WebRequest) /\ <<r>> \in Seq(WebRequest)
  BY DEF Typed
<1>2. now \in Seq(WebRequest)
  BY <1>1
<1>3. toServer' = [toServer EXCEPT ![p] = now]
  BY DEF ToServer
<1>4. conn[p] # "closed" => now = toServer[p] \o <<r>>
  OBVIOUS
<1> HIDE DEF now
<1>5. /\ toServer' \in [Players -> Seq(WebRequest)] /\ toServer'[p] = now
      /\ \A q \in Players : q # p => toServer'[q] = toServer[q]
  BY <1>2, <1>3 DEF Typed
<1>6. ASSUME NEW verbs, conn[p] # "closed"
      PROVE  Holds(toServer'[p], verbs) <=> Holds(toServer[p], verbs) \/ r.verb \in verbs
  <2>1. Holds(toServer[p] \o <<r>>, verbs)
          <=> Holds(toServer[p], verbs) \/ Holds(<<r>>, verbs)
    BY <1>1, HoldsConcat
  <2>2. Holds(<<r>>, verbs) <=> r.verb \in verbs
    <3>1. \A i \in DOMAIN <<r>> : <<r>>[i] = r
      OBVIOUS
    <3>2. 1 \in DOMAIN <<r>>
      OBVIOUS
    <3> QED
      BY <3>1, <3>2 DEF Holds
  <2> QED
    BY <1>4, <1>5, <1>6, <2>1, <2>2
<1> QED
  BY <1>5, <1>6

LEMMA RequestsTyped ==
  /\ \A verb \in {"GET", "LIST", "CREATE"} :
       Request(verb) \in WebRequest /\ Request(verb).verb = verb
  /\ End \in WebRequest /\ End.verb = "end"
  /\ \A c \in Codes \union {Server!NoRoom} :
       JoinRequest(c) \in WebRequest /\ JoinRequest(c).verb = "JOIN"
  /\ \A b \in Bodies : RelayRequest(b) \in WebRequest /\ RelayRequest(b).verb = "RELAY"
BY DEF Request, End, JoinRequest, RelayRequest, WebRequest

\* An empty queue leaves a page as it is.
LEMMA NothingToHear ==
  ASSUME NEW scr, NEW engine, NEW role, NEW codes
  PROVE  /\ \A verbs : ~ Holds(<<>>, verbs)
         /\ WillShow(<<>>, scr, Shows(scr))
         /\ Returns(<<>>, 1, "Menu")
         /\ scr # "Game" => WillPlay(<<>>, scr, engine, role)
BY DEF Holds, WillShow, Returns, WillPlay

LEMMA LoadInv ==
  ASSUME IInv, NEW p \in Players, Load(p)
  PROVE  IInv'
<1> USE DEF IInv
<1>1. /\ ws[p] = "none" /\ Page /\ ToServer(p, <<Request("GET")>>)
      /\ ws' = [ws EXCEPT ![p] = "CONNECTING"]
      /\ UNCHANGED <<screen, enabled, list, listed, playing, toClient>>
  BY DEF Load, shown
<1>3. /\ toServer' \in [Players -> Seq(WebRequest)]
      /\ \A q \in Players : q # p => toServer'[q] = toServer[q]
      /\ \A verbs : conn[p] # "closed" =>
           (Holds(toServer'[p], verbs) <=> Holds(toServer[p], verbs) \/ "GET" \in verbs)
  <2>1. Request("GET") \in WebRequest /\ Request("GET").verb = "GET"
    BY RequestsTyped
  <2>2. /\ toServer' \in [Players -> Seq(WebRequest)]
        /\ \A q \in Players : q # p => toServer'[q] = toServer[q]
        /\ \A verbs : conn[p] # "closed" =>
             (Holds(toServer'[p], verbs)
                <=> Holds(toServer[p], verbs) \/ Request("GET").verb \in verbs)
    BY <1>1, <2>1, ToServerSends
  <2> QED
    BY <2>1, <2>2
<1>4. Typed'
  BY <1>1, <1>3 DEF Typed
<1>5. \A q \in Players \ {p} : PageOf(q)' = PageOf(q)
  BY <1>1, <1>3 DEF PageOf, Typed
<1>6. /\ conn[p] = "unused" /\ toServer[p] = <<>> /\ toClient[p] = <<>>
      /\ screen[p] = "Menu" /\ playing[p] = "none"
  BY <1>1 DEF PageInv, SocketAgrees
<1>7. told[p] = "Lobby"
  BY <1>6 DEF Lobby!KInv, Lobby!Newcomers
<1>8. /\ conn'[p] = "unused" /\ told'[p] = "Lobby" /\ strays' = strays
      /\ ws'[p] = "CONNECTING" /\ screen'[p] = "Menu" /\ playing'[p] = "none"
      /\ toClient'[p] = <<>>
  BY <1>1, <1>6, <1>7 DEF Page, server, Typed
<1>9. PageInv(p)'
  <2>1. SocketAgrees(p)'
    BY <1>3, <1>6, <1>8, NothingToHear DEF SocketAgrees, Hears
  <2>2. ScreenFollows(p)' /\ RoleAgrees(p)'
    <3>1. WillShow(<<>>, "Menu", "Lobby")
      BY NothingToHear DEF Shows
    <3>2. \A role : WillPlay(<<>>, "Menu", "none", role)
      BY NothingToHear
    <3> QED
      BY <1>8, <3>1, <3>2 DEF ScreenFollows, RoleAgrees
  <2>3. PutOutReturns(p)'
    BY <1>8, NothingToHear DEF PutOutReturns
  <2>4. EngineFollows(p)' /\ ListFollows(p)' /\ AnswerToCome(p)'
    BY <1>8 DEF EngineFollows, ListFollows, AnswerToCome
  <2> QED
    BY <2>1, <2>2, <2>3, <2>4 DEF PageInv
<1> QED
  BY <1>1, <1>4, <1>5, <1>9, PageStep

\* Clicks and the code field.
LEMMA AskInv ==
  ASSUME IInv, NEW p \in Players, NEW r \in WebRequest, r.verb \in Requests, Ask(p, r),
         Disable(p) \/ UNCHANGED <<enabled, listed>>
  PROVE  IInv'
<1> USE DEF IInv
<1>1. /\ ws[p] = "OPEN" /\ screen[p] = "Menu" /\ Page /\ ToServer(p, <<r>>)
      /\ UNCHANGED <<ws, screen, list, playing, toClient>>
  BY DEF Ask
<1>2. /\ enabled' \in [Players -> BOOLEAN] /\ listed' \in [Players -> BOOLEAN]
      /\ \A q \in Players : q # p => enabled'[q] = enabled[q] /\ listed'[q] = listed[q]
  BY DEF Disable, Typed
<1>3. /\ toServer' \in [Players -> Seq(WebRequest)]
      /\ \A q \in Players : q # p => toServer'[q] = toServer[q]
      /\ \A verbs : conn[p] # "closed" =>
           (Holds(toServer'[p], verbs) <=> Holds(toServer[p], verbs) \/ r.verb \in verbs)
  BY <1>1, ToServerSends
<1>4. Typed'
  BY <1>1, <1>2, <1>3 DEF Typed
<1>5. \A q \in Players \ {p} : PageOf(q)' = PageOf(q)
  BY <1>1, <1>2, <1>3 DEF PageOf
<1>6. /\ \A q \in Players : ServerOf(q)' = ServerOf(q)
      /\ conn[p] = "Open"
  BY <1>1, <1>5, PageStep DEF PageInv, SocketAgrees
<1>7. /\ conn'[p] = conn[p] /\ told'[p] = told[p] /\ seen'[p] = seen[p]
      /\ strays' = strays /\ Lobby!Role(p)' = Lobby!Role(p)
  BY <1>6 DEF ServerOf
<1>8. Hears(p)' = Hears(p)
  BY <1>1 DEF Hears
<1>9. /\ Holds(toServer'[p], {"end"}) <=> Holds(toServer[p], {"end"})
      /\ Holds(toServer'[p], {"LIST"}) <=> Holds(toServer[p], {"LIST"})
      /\ Holds(toServer'[p], Requests)
  BY <1>3, <1>6 DEF Requests
<1>10. PageInv(p)'
  <2>1. SocketAgrees(p)'
    BY <1>1, <1>7, <1>8, <1>9 DEF PageInv, SocketAgrees
  <2>2. ScreenFollows(p)' /\ PutOutReturns(p)' /\ EngineFollows(p)' /\ RoleAgrees(p)'
    BY <1>1, <1>7, <1>8 DEF PageInv, ScreenFollows, PutOutReturns, EngineFollows, RoleAgrees
  <2>3. ListFollows(p)' /\ AnswerToCome(p)'
    BY <1>1, <1>7, <1>9 DEF PageInv, ListFollows, AnswerToCome
  <2> QED
    BY <2>1, <2>2, <2>3 DEF PageInv
<1> QED
  BY <1>1, <1>4, <1>5, <1>10, PageStep

\* What its peer connection relays changes nothing of a page.
LEMMA RelayInv ==
  ASSUME IInv, NEW p \in Players, NEW b \in Bodies, Relay(p, b)
  PROVE  IInv'
<1> USE DEF IInv
<1>1. /\ ws[p] = "OPEN" /\ Page /\ ToServer(p, <<RelayRequest(b)>>)
      /\ UNCHANGED <<ws, screen, enabled, list, listed, playing, toClient>>
  BY DEF Relay, shown
<1>2. RelayRequest(b) \in WebRequest /\ RelayRequest(b).verb = "RELAY"
  BY RequestsTyped
<1>3. /\ toServer' \in [Players -> Seq(WebRequest)]
      /\ \A q \in Players : q # p => toServer'[q] = toServer[q]
      /\ \A verbs : conn[p] # "closed" =>
           (Holds(toServer'[p], verbs)
              <=> Holds(toServer[p], verbs) \/ RelayRequest(b).verb \in verbs)
  BY <1>1, <1>2, ToServerSends
<1>4. Typed'
  BY <1>1, <1>3 DEF Typed
<1>5. \A q \in Players \ {p} : PageOf(q)' = PageOf(q)
  BY <1>1, <1>3 DEF PageOf
<1>6. \A q \in Players : ServerOf(q)' = ServerOf(q)
  BY <1>1, <1>5, PageStep
<1>7. /\ conn'[p] = conn[p] /\ told'[p] = told[p] /\ seen'[p] = seen[p]
      /\ strays' = strays /\ Lobby!Role(p)' = Lobby!Role(p)
  BY <1>6 DEF ServerOf
<1>8. Hears(p)' = Hears(p) /\ conn[p] = "Open"
  BY <1>1 DEF Hears, PageInv, SocketAgrees
<1>9. \A verbs : "RELAY" \notin verbs =>
        (Holds(toServer'[p], verbs) <=> Holds(toServer[p], verbs))
  BY <1>2, <1>3, <1>8
<1>10. PageInv(p)'
  <2>1. SocketAgrees(p)'
    BY <1>1, <1>7, <1>8, <1>9 DEF PageInv, SocketAgrees
  <2>2. ScreenFollows(p)' /\ PutOutReturns(p)' /\ EngineFollows(p)' /\ RoleAgrees(p)'
    BY <1>1, <1>7, <1>8 DEF PageInv, ScreenFollows, PutOutReturns, EngineFollows, RoleAgrees
  <2>3. ListFollows(p)' /\ AnswerToCome(p)'
    BY <1>1, <1>7, <1>9 DEF PageInv, ListFollows, AnswerToCome, Requests
  <2> QED
    BY <2>1, <2>2, <2>3 DEF PageInv
<1> QED
  BY <1>1, <1>4, <1>5, <1>10, PageStep

\* A page that hears no more.
LEMMA DeafInv ==
  ASSUME NEW p \in Players, ws'[p] \in {"CLOSING", "CLOSED"},
         EngineFollows(p)'
  PROVE  PageInv(p)'
BY DEF PageInv, SocketAgrees, ScreenFollows, PutOutReturns, RoleAgrees, ListFollows,
       AnswerToCome, Hears

LEMMA EmptiedTyped ==
  ASSUME Typed, NEW p \in Players, toClient' = [toClient EXCEPT ![p] = <<>>]
  PROVE  /\ toClient' \in [Players -> Seq(WebLine)]
         /\ \A q \in Players : q # p => toClient'[q] = toClient[q]
<1>1. <<>> \in Seq(WebLine)
  OBVIOUS
<1> QED
  BY <1>1 DEF Typed

\* Signaling.close, of an open socket or of one that was lost.
LEMMA CloseTyped ==
  ASSUME Typed, NEW p \in Players, Close(p)
  PROVE  /\ ws' \in [Players -> {"none", "CONNECTING", "OPEN", "CLOSING", "CLOSED"}]
         /\ toServer' \in [Players -> Seq(WebRequest)]
         /\ toClient' \in [Players -> Seq(WebLine)]
         /\ ws'[p] \in {"CLOSING", "CLOSED"} /\ ws'[p] # "OPEN"
         /\ \A q \in Players : q # p => /\ ws'[q] = ws[q] /\ toServer'[q] = toServer[q]
                                      /\ toClient'[q] = toClient[q]
<1>1. CASE ws[p] = "CLOSED" /\ UNCHANGED <<ws, channels>>
  BY <1>1 DEF Typed, channels
<1>2. CASE /\ ws' = [ws EXCEPT ![p] = "CLOSING"] /\ ToServer(p, <<End>>)
           /\ toClient' = [toClient EXCEPT ![p] = <<>>]
  <2>1. /\ toServer' \in [Players -> Seq(WebRequest)]
        /\ \A q \in Players : q # p => toServer'[q] = toServer[q]
    BY <1>2, ToServerSends, RequestsTyped
  <2>2. /\ toClient' \in [Players -> Seq(WebLine)]
        /\ \A q \in Players : q # p => toClient'[q] = toClient[q]
    BY <1>2, EmptiedTyped
  <2> QED
    BY <1>2, <2>1, <2>2 DEF Typed
<1> QED
  BY <1>1, <1>2 DEF Close

LEMMA CancelInv ==
  ASSUME IInv, NEW p \in Players, Cancel(p)
  PROVE  IInv'
<1> USE DEF IInv
<1>1. /\ screen[p] = "Waiting" /\ Page /\ Disable(p) /\ Close(p)
      /\ playing' = [playing EXCEPT ![p] = playing[p]]
      /\ screen' = [screen EXCEPT ![p] = "Menu"] /\ UNCHANGED list
  BY DEF Cancel, Stopped
<1>2. /\ ws' \in [Players -> {"none", "CONNECTING", "OPEN", "CLOSING", "CLOSED"}]
      /\ toServer' \in [Players -> Seq(WebRequest)]
      /\ toClient' \in [Players -> Seq(WebLine)]
      /\ ws'[p] \in {"CLOSING", "CLOSED"} /\ ws'[p] # "OPEN"
      /\ \A q \in Players : q # p => /\ ws'[q] = ws[q] /\ toServer'[q] = toServer[q]
                                   /\ toClient'[q] = toClient[q]
  BY <1>1, CloseTyped
<1>3. Typed'
  BY <1>1, <1>2 DEF Typed, Disable
<1>4. \A q \in Players \ {p} : PageOf(q)' = PageOf(q)
  BY <1>1, <1>2 DEF PageOf, Typed, Disable
<1>5. /\ screen'[p] = "Menu" /\ playing'[p] = playing[p] /\ strays' = strays
  BY <1>1 DEF Typed, Page, server
<1>6. EngineFollows(p)'
  BY <1>1, <1>2, <1>5 DEF PageInv, EngineFollows
<1> QED
  BY <1>1, <1>2, <1>3, <1>4, <1>6, DeafInv, PageStep

\* onClose, for whatever reason.
LEMMA ClosedInv ==
  ASSUME IInv, NEW p \in Players, Closed(p), Page,
         toServer' \in [Players -> Seq(WebRequest)], toClient' \in [Players -> Seq(WebLine)],
         \A q \in Players : q # p => toServer'[q] = toServer[q] /\ toClient'[q] = toClient[q]
  PROVE  IInv'
<1> USE DEF IInv
<1>1. Stopped(p) \in {"none", playing[p]}
  BY DEF Stopped, StopGame
<1>2. /\ ws' = [ws EXCEPT ![p] = "CLOSED"]
      /\ playing' = [playing EXCEPT ![p] = Stopped(p)]
      /\ UNCHANGED <<screen, enabled, list, listed>>
  BY DEF Closed
<1>3. Typed'
  BY <1>1, <1>2 DEF Typed
<1>4. \A q \in Players \ {p} : PageOf(q)' = PageOf(q)
  BY <1>2 DEF PageOf, Typed
<1>5. /\ ws'[p] = "CLOSED" /\ screen'[p] = screen[p] /\ playing'[p] = Stopped(p)
      /\ strays' = strays
  BY <1>2 DEF Typed, Page, server
<1>6. EngineFollows(p)'
  BY <1>5 DEF PageInv, EngineFollows, Stopped, StopGame
<1> QED
  BY <1>3, <1>4, <1>5, <1>6, DeafInv, PageStep

LEMMA PersonInv ==
  ASSUME IInv, NEW p \in Players, Person(p)
  PROVE  IInv'
<1>1. CASE ClickHost(p)
  <2>1. Request("CREATE") \in WebRequest /\ Request("CREATE").verb \in Requests
    BY RequestsTyped DEF Requests
  <2> QED
    BY <1>1, <2>1, AskInv DEF ClickHost
<1>2. ASSUME NEW c \in Codes \union {Server!NoRoom}, TypeCode(p, c) \/ ClickRoom(p, c)
      PROVE  IInv'
  <2>1. JoinRequest(c) \in WebRequest /\ JoinRequest(c).verb \in Requests
    BY RequestsTyped DEF Requests
  <2> QED
    BY <1>2, <2>1, AskInv DEF TypeCode, ClickRoom
<1>3. CASE Break(p)
  <2>1. /\ toServer' \in [Players -> Seq(WebRequest)]
        /\ \A q \in Players : q # p => toServer'[q] = toServer[q]
    BY <1>3, ToServerSends, RequestsTyped DEF Break, IInv
  <2>2. /\ toClient' \in [Players -> Seq(WebLine)]
        /\ \A q \in Players : q # p => toClient'[q] = toClient[q]
    BY <1>3, EmptiedTyped DEF Break, IInv
  <2> QED
    BY <1>3, <2>1, <2>2, ClosedInv DEF Break
<1> QED
  BY <1>1, <1>2, <1>3, LoadInv, CancelInv, RelayInv DEF Person

-----------------------------------------------------------------------------
(* What a page does with a line. *)

LEMMA HearTyped ==
  ASSUME Typed, NEW p \in Players, NEW verb, Hear(p, verb)
  PROVE  /\ toClient[p] \in Seq(WebLine) /\ toClient[p] # <<>>
         /\ Head(toClient[p]) \in WebLine /\ Head(toClient[p]).verb = verb
         /\ toClient'[p] = Tail(toClient[p])
         /\ toClient' \in [Players -> Seq(WebLine)]
         /\ \A q \in Players : q # p => toClient'[q] = toClient[q]
<1>1. toClient[p] \in Seq(WebLine) /\ toClient[p] # <<>>
  BY DEF Typed, Hear
<1>2. Tail(toClient[p]) \in Seq(WebLine) /\ Head(toClient[p]) \in WebLine
  BY <1>1
<1> QED
  BY <1>1, <1>2 DEF Hear, Typed

\* What the invariant says of the screen is kept by every line.
LEMMA HeardScreen ==
  ASSUME IInv, NEW p \in Players, NEW verb, Hear(p, verb), Hears(p)',
         screen'[p] = Takes(verb, screen[p]),
         verb = "READY" => playing'[p] = Head(toClient[p]).role,
         verb \notin Places => playing'[p] = playing[p]
  PROVE  ScreenFollows(p)' /\ PutOutReturns(p)' /\ RoleAgrees(p)'
<1> DEFINE q == toClient[p]
<1>1. /\ q \in Seq(WebLine) /\ q # <<>> /\ Head(q).verb = verb /\ toClient'[p] = Tail(q)
  BY HearTyped DEF IInv
<1>2. /\ told'[p] = told[p] /\ strays' = strays /\ Lobby!Role(p)' = Lobby!Role(p)
  BY DEF Hear, Page, server, Lobby!Role
<1>3. /\ WillShow(q, screen[p], told[p])
      /\ told[p] = "Lobby" => Returns(q, Len(q) + 1, screen[p])
      /\ p \notin strays => \A i \in DOMAIN q :
           q[i].verb = "CREATED" => Returns(q, i, screen[p])
      /\ strays = {} => WillPlay(q, screen[p], playing[p], Lobby!Role(p))
  BY DEF Hear, IInv, PageInv, ScreenFollows, PutOutReturns, RoleAgrees
<1> HIDE DEF q
<1>4. ScreenFollows(p)'
  <2>1. WillShow(Tail(q), Takes(verb, screen[p]), told[p])
    BY <1>1, <1>3, WillShowHeard
  <2> QED
    BY <1>1, <1>2, <2>1 DEF ScreenFollows
<1>5. RoleAgrees(p)'
  <2>1. strays = {} => WillPlay(Tail(q), Takes(verb, screen[p]), playing'[p], Lobby!Role(p))
    BY <1>1, <1>3, WillPlayHeard DEF q
  <2> QED
    BY <1>1, <1>2, <2>1 DEF RoleAgrees
<1>6. told[p] = "Lobby" => Returns(Tail(q), Len(Tail(q)) + 1, Takes(verb, screen[p]))
  <2>1. Len(q) \in Nat /\ Len(Tail(q)) = Len(q) - 1 /\ 1 \in DOMAIN q
    BY <1>1, Tailed
  <2>2. Len(q) + 1 \in Nat /\ Len(q) + 1 > 1 /\ (Len(q) + 1) - 1 = Len(Tail(q)) + 1
    BY <1>1, <2>1
  <2> QED
    BY <1>1, <1>3, <2>2, ReturnsHeard
<1>7. ASSUME p \notin strays, NEW i \in DOMAIN Tail(q), Tail(q)[i].verb = "CREATED"
      PROVE  Returns(Tail(q), i, Takes(verb, screen[p]))
  <2>1. i \in Nat /\ i >= 1 /\ i + 1 \in DOMAIN q /\ Tail(q)[i] = q[i + 1]
    BY <1>1, Tailed
  <2>2. Returns(q, i + 1, screen[p])
    BY <1>3, <1>7, <2>1
  <2>3. i + 1 \in Nat /\ i + 1 > 1 /\ (i + 1) - 1 = i
    BY <2>1
  <2>4. Returns(Tail(q), (i + 1) - 1, Takes(Head(q).verb, screen[p]))
    BY <1>1, <2>2, <2>3, ReturnsHeard
  <2> QED
    BY <1>1, <2>3, <2>4
<1>8. PutOutReturns(p)'
  BY <1>1, <1>2, <1>6, <1>7 DEF PutOutReturns
<1> QED
  BY <1>4, <1>5, <1>8

\* A page that is not open hears of nothing but a list and its upgrade.
LEMMA OnlyOpenHears ==
  ASSUME IInv, NEW p \in Players, NEW verb, Hear(p, verb), verb \notin {"ROOMS", "101"}
  PROVE  ws[p] = "OPEN"
BY DEF IInv, PageInv, SocketAgrees, Hear, Hears

LEMMA OnOpenInv ==
  ASSUME IInv, NEW p \in Players, OnOpen(p)
  PROVE  IInv'
<1>1. /\ ws[p] = "CONNECTING" /\ Hear(p, "101") /\ Page
      /\ ToServer(p, <<Request("LIST")>>) /\ Enable(p)
      /\ ws' = [ws EXCEPT ![p] = "OPEN"] /\ UNCHANGED <<screen, list, playing>>
  BY DEF OnOpen, Hear
<1>2. /\ toServer' \in [Players -> Seq(WebRequest)]
      /\ \A q \in Players : q # p => toServer'[q] = toServer[q]
      /\ \A verbs : conn[p] # "closed" =>
           (Holds(toServer'[p], verbs) <=> Holds(toServer[p], verbs) \/ "LIST" \in verbs)
  <2>1. Request("LIST") \in WebRequest /\ Request("LIST").verb = "LIST"
    BY RequestsTyped
  <2>2. /\ toServer' \in [Players -> Seq(WebRequest)]
        /\ \A q \in Players : q # p => toServer'[q] = toServer[q]
        /\ \A verbs : conn[p] # "closed" =>
             (Holds(toServer'[p], verbs)
                <=> Holds(toServer[p], verbs) \/ Request("LIST").verb \in verbs)
    BY <1>1, <2>1, ToServerSends DEF IInv
  <2> QED
    BY <2>1, <2>2
<1>3. /\ toClient[p] \in Seq(WebLine) /\ toClient[p] # <<>>
      /\ Head(toClient[p]).verb = "101"
      /\ toClient' \in [Players -> Seq(WebLine)]
      /\ \A q \in Players : q # p => toClient'[q] = toClient[q]
  BY <1>1, HearTyped DEF IInv
<1>4. Typed'
  BY <1>1, <1>2, <1>3 DEF IInv, Typed, Enable
<1>5. \A q \in Players \ {p} : PageOf(q)' = PageOf(q)
  BY <1>1, <1>2, <1>3 DEF PageOf, IInv, Typed, Enable
<1>6. /\ ws'[p] = "OPEN" /\ screen'[p] = screen[p] /\ playing'[p] = playing[p]
      /\ enabled'[p] /\ listed'[p]
      /\ conn'[p] = conn[p] /\ strays' = strays
  BY <1>1 DEF IInv, Typed, Page, server, Enable
<1>7. conn[p] = "Open" /\ screen[p] = "Menu" /\ playing[p] = "none"
      /\ ~ Holds(toServer[p], {"end"})
  <2>1. Holds(toClient[p], {"101"})
    BY <1>3, HoldsTail
  <2> QED
    BY <1>1, <2>1 DEF IInv, PageInv, SocketAgrees, Hears
<1>8. PageInv(p)'
  <2>1. SocketAgrees(p)'
    BY <1>2, <1>6, <1>7 DEF SocketAgrees
  <2>2. ScreenFollows(p)' /\ PutOutReturns(p)' /\ RoleAgrees(p)'
    <3>1. Hears(p)' /\ screen'[p] = Takes("101", screen[p])
      BY <1>6 DEF Hears, Takes
    <3> QED
      BY <1>1, <1>6, <3>1, HeardScreen
  <2>3. EngineFollows(p)' /\ AnswerToCome(p)'
    BY <1>6, <1>7 DEF EngineFollows, AnswerToCome
  <2>4. ListFollows(p)'
    BY <1>2, <1>7 DEF ListFollows
  <2> QED
    BY <2>1, <2>2, <2>3, <2>4 DEF PageInv
<1> QED
  BY <1>1, <1>4, <1>5, <1>8, PageStep DEF IInv

\* An open page that has heard a line, once its screen, engine, list and buttons
\* are what the line made of them.
LEMMA HeardInv ==
  ASSUME IInv, NEW p \in Players, NEW verb, Hear(p, verb), ws[p] = "OPEN", ws' = ws,
         Typed', \A q \in Players \ {p} : PageOf(q)' = PageOf(q),
         screen'[p] = Takes(verb, screen[p]),
         verb = "READY" => playing'[p] = Head(toClient[p]).role,
         verb \notin Places => playing'[p] = playing[p],
         ~ Holds(toServer'[p], {"end"}),
         EngineFollows(p)', ListFollows(p)', AnswerToCome(p)'
  PROVE  IInv'
<1>1. Page /\ Hears(p)'
  BY DEF Hear, Hears
<1>2. ScreenFollows(p)' /\ PutOutReturns(p)' /\ RoleAgrees(p)'
  BY <1>1, HeardScreen
<1>3. conn'[p] = "Open" /\ ws'[p] = "OPEN"
  BY <1>1 DEF Page, server, IInv, PageInv, SocketAgrees
<1>4. SocketAgrees(p)'
  BY <1>3 DEF SocketAgrees
<1>5. PageInv(p)'
  BY <1>2, <1>4 DEF PageInv
<1> QED
  BY <1>1, <1>5, PageStep DEF IInv

\* Its list stays or gets to be the one it was sent.
LEMMA HeardList ==
  ASSUME IInv, NEW p \in Players, NEW verb, Hear(p, verb), verb # "PEER_LEFT", ws' = ws,
         toServer' = toServer,
         list'[p] = IF verb = "ROOMS" THEN Render(p, Head(toClient[p]).codes) ELSE list[p]
  PROVE  ListFollows(p)'
<1> DEFINE q == toClient[p]
<1>1. /\ q \in Seq(WebLine) /\ q # <<>> /\ Head(q).verb = verb /\ toClient'[p] = Tail(q)
  BY HearTyped DEF IInv
<1>2. told'[p] = told[p] /\ seen'[p] = seen[p]
  BY DEF Hear, Page, server
<1>3. SUFFICES ASSUME ws[p] = "OPEN", told[p] = "Lobby", ~ Holds(toServer[p], {"LIST"}),
                      ~ Holds(Tail(q), {"PEER_LEFT"})
               PROVE  WillList(Tail(q), list'[p], seen[p])
  BY <1>1, <1>2 DEF ListFollows
<1>4. ~ Holds(q, {"PEER_LEFT"})
  BY <1>1, <1>3, HoldsTail
<1>5. WillList(q, list[p], seen[p])
  BY <1>3, <1>4 DEF IInv, PageInv, ListFollows
<1>6. screen[p] = "Menu"
  <2>1. Returns(q, Len(q) + 1, screen[p])
    BY <1>3 DEF Hear, IInv, PageInv, PutOutReturns
  <2> QED
    BY <1>4, <2>1 DEF Returns, Holds
<1>7. list'[p] = IF Head(q).verb = "ROOMS" THEN Head(q).codes ELSE list[p]
  BY <1>1, <1>6 DEF Render
<1> HIDE DEF q
<1> QED
  BY <1>1, <1>5, <1>7, WillListHeard

\* What the lines to a page carry.
LEMMA LinesCarry ==
  ASSUME NEW line \in WebLine
  PROVE  /\ line.verb = "ROOMS" => line.codes \in SUBSET Codes
         /\ line.verb = "READY" => line.role \in {"host", "guest"}
<1>1. Lobby!Codes = Codes
  BY DEF Lobby!Codes, Codes, Server!Codes
<1> QED
  BY <1>1 DEF WebLine, Upgraded, Lobby!Line

LEMMA OnRoomsInv ==
  ASSUME IInv, NEW p \in Players, OnRooms(p)
  PROVE  IInv'
<1>1. /\ ws[p] = "OPEN" /\ Hear(p, "ROOMS")
      /\ list' = [list EXCEPT ![p] = Render(p, Head(toClient[p]).codes)]
      /\ listed' = [listed EXCEPT ![p] = listed[p] \/ screen[p] = "Menu"]
      /\ UNCHANGED <<ws, screen, enabled, playing, toServer>>
  BY DEF OnRooms
<1>2. /\ toClient[p] \in Seq(WebLine) /\ toClient[p] # <<>>
      /\ Head(toClient[p]) \in WebLine /\ Head(toClient[p]).verb = "ROOMS"
      /\ toClient'[p] = Tail(toClient[p])
      /\ toClient' \in [Players -> Seq(WebLine)]
      /\ \A q \in Players : q # p => toClient'[q] = toClient[q]
  BY <1>1, HearTyped DEF IInv
<1>3. Render(p, Head(toClient[p]).codes) \in SUBSET Codes
  BY <1>2, LinesCarry DEF Render, IInv, Typed
<1>4. Typed'
  <2>1. \A a, b \in BOOLEAN : (a \/ b) \in BOOLEAN
    OBVIOUS
  <2>2. listed[p] \in BOOLEAN /\ (screen[p] = "Menu") \in BOOLEAN
    BY DEF IInv, Typed
  <2>3. (listed[p] \/ screen[p] = "Menu") \in BOOLEAN
    BY <2>1, <2>2
  <2> QED
    BY <1>1, <1>2, <1>3, <2>3 DEF IInv, Typed
<1>5. \A q \in Players \ {p} : PageOf(q)' = PageOf(q)
  BY <1>1, <1>2 DEF PageOf, IInv, Typed
<1>6. /\ list'[p] = Render(p, Head(toClient[p]).codes)
      /\ listed'[p] <=> listed[p] \/ screen[p] = "Menu"
      /\ strays' = strays
  BY <1>1 DEF IInv, Typed, Hear, Page, server
<1>7. ListFollows(p)'
  BY <1>1, <1>6, HeardList
<1>8. EngineFollows(p)'
  BY <1>1, <1>6 DEF IInv, PageInv, EngineFollows
<1>9. AnswerToCome(p)'
  <2>1. Holds(toClient[p], Answers) <=> Holds(Tail(toClient[p]), Answers)
    BY <1>2, HoldsTail DEF Answers
  <2> QED
    BY <1>1, <1>2, <1>6, <2>1 DEF IInv, PageInv, AnswerToCome
<1>10. ~ Holds(toServer'[p], {"end"})
  BY <1>1 DEF IInv, PageInv, SocketAgrees, Hears
<1>11. screen'[p] = Takes("ROOMS", screen[p])
  BY <1>1 DEF Takes
<1> QED
  BY <1>1, <1>4, <1>5, <1>7, <1>8, <1>9, <1>10, <1>11, HeardInv

LEMMA OnCreatedInv ==
  ASSUME IInv, NEW p \in Players, OnCreated(p)
  PROVE  IInv'
<1>1. /\ ws[p] = "OPEN" /\ Hear(p, "CREATED")
      /\ screen' = [screen EXCEPT ![p] = "Waiting"]
      /\ UNCHANGED <<ws, enabled, list, listed, playing, toServer>>
  BY OnlyOpenHears DEF OnCreated
<1>2. /\ toClient[p] \in Seq(WebLine) /\ toClient[p] # <<>>
      /\ Head(toClient[p]).verb = "CREATED"
      /\ toClient' \in [Players -> Seq(WebLine)]
      /\ \A q \in Players : q # p => toClient'[q] = toClient[q]
  BY <1>1, HearTyped DEF IInv
<1>3. Typed' /\ screen'[p] = "Waiting" /\ strays' = strays
  BY <1>1, <1>2 DEF IInv, Typed, Hear, Page, server
<1>4. \A q \in Players \ {p} : PageOf(q)' = PageOf(q)
  BY <1>1, <1>2 DEF PageOf, IInv, Typed
<1>5. ListFollows(p)'
  BY <1>1, HeardList
<1>6. EngineFollows(p)'
  <2> SUFFICES ASSUME p \notin strays
               PROVE  playing[p] = "none"
    BY <1>1, <1>3 DEF EngineFollows
  <2>1. 1 \in DOMAIN toClient[p] /\ toClient[p][1] = Head(toClient[p])
    BY <1>2, Tailed
  <2>2. Returns(toClient[p], 1, screen[p])
    BY <1>1, <1>2, <2>1 DEF IInv, PageInv, PutOutReturns, Hears
  <2>3. \A j \in DOMAIN toClient[p] : ~ j < 1
    BY <1>2
  <2>4. screen[p] = "Menu"
    BY <2>2, <2>3 DEF Returns
  <2> QED
    BY <2>4 DEF IInv, PageInv, EngineFollows
<1>7. AnswerToCome(p)'
  BY <1>3 DEF AnswerToCome
<1>8. ~ Holds(toServer'[p], {"end"})
  BY <1>1 DEF IInv, PageInv, SocketAgrees, Hears
<1>9. screen'[p] = Takes("CREATED", screen[p]) /\ "CREATED" \in Places
  BY <1>3, PlacesAre DEF Takes
<1> QED
  BY <1>1, <1>3, <1>4, <1>5, <1>6, <1>7, <1>8, <1>9, HeardInv

LEMMA OnReadyInv ==
  ASSUME IInv, NEW p \in Players, OnReady(p)
  PROVE  IInv'
<1>1. /\ ws[p] = "OPEN" /\ Hear(p, "READY")
      /\ screen' = [screen EXCEPT ![p] = "Game"]
      /\ playing' = [playing EXCEPT ![p] = Head(toClient[p]).role]
      /\ UNCHANGED <<ws, enabled, list, listed, toServer>>
  BY OnlyOpenHears DEF OnReady
<1>2. /\ toClient[p] \in Seq(WebLine) /\ toClient[p] # <<>>
      /\ Head(toClient[p]) \in WebLine /\ Head(toClient[p]).verb = "READY"
      /\ toClient' \in [Players -> Seq(WebLine)]
      /\ \A q \in Players : q # p => toClient'[q] = toClient[q]
  BY <1>1, HearTyped DEF IInv
<1>3. Head(toClient[p]).role \in {"host", "guest"}
  BY <1>2, LinesCarry
<1>4. Typed' /\ screen'[p] = "Game" /\ playing'[p] = Head(toClient[p]).role
  BY <1>1, <1>2, <1>3 DEF IInv, Typed
<1>5. \A q \in Players \ {p} : PageOf(q)' = PageOf(q)
  BY <1>1, <1>2 DEF PageOf, IInv, Typed
<1>6. ListFollows(p)'
  BY <1>1, HeardList
<1>7. EngineFollows(p)' /\ AnswerToCome(p)'
  BY <1>1, <1>3, <1>4 DEF EngineFollows, AnswerToCome
<1>8. ~ Holds(toServer'[p], {"end"})
  BY <1>1 DEF IInv, PageInv, SocketAgrees, Hears
<1>9. screen'[p] = Takes("READY", screen[p]) /\ "READY" \in Places
  BY <1>4, PlacesAre DEF Takes
<1> QED
  BY <1>1, <1>4, <1>5, <1>6, <1>7, <1>8, <1>9, HeardInv

LEMMA OnPeerLeftInv ==
  ASSUME IInv, NEW p \in Players, OnPeerLeft(p)
  PROVE  IInv'
<1>1. /\ ws[p] = "OPEN" /\ Hear(p, "PEER_LEFT") /\ Enable(p)
      /\ ToServer(p, <<Request("LIST")>>)
      /\ screen' = [screen EXCEPT ![p] = "Menu"]
      /\ playing' = [playing EXCEPT ![p] = "none"]
      /\ UNCHANGED <<ws, list>>
  BY OnlyOpenHears DEF OnPeerLeft, StopGame
<1>2. /\ toServer' \in [Players -> Seq(WebRequest)]
      /\ \A q \in Players : q # p => toServer'[q] = toServer[q]
      /\ \A verbs : conn[p] # "closed" =>
           (Holds(toServer'[p], verbs) <=> Holds(toServer[p], verbs) \/ "LIST" \in verbs)
  <2>1. Request("LIST") \in WebRequest /\ Request("LIST").verb = "LIST"
    BY RequestsTyped
  <2>2. /\ toServer' \in [Players -> Seq(WebRequest)]
        /\ \A q \in Players : q # p => toServer'[q] = toServer[q]
        /\ \A verbs : conn[p] # "closed" =>
             (Holds(toServer'[p], verbs)
                <=> Holds(toServer[p], verbs) \/ Request("LIST").verb \in verbs)
    BY <1>1, <2>1, ToServerSends DEF IInv
  <2> QED
    BY <2>1, <2>2
<1>3. /\ toClient' \in [Players -> Seq(WebLine)]
      /\ \A q \in Players : q # p => toClient'[q] = toClient[q]
  BY <1>1, HearTyped DEF IInv
<1>4. Typed' /\ screen'[p] = "Menu" /\ playing'[p] = "none" /\ enabled'[p] /\ listed'[p]
  BY <1>1, <1>2, <1>3 DEF IInv, Typed, Enable
<1>5. \A q \in Players \ {p} : PageOf(q)' = PageOf(q)
  BY <1>1, <1>2, <1>3 DEF PageOf, IInv, Typed, Enable
<1>6. conn[p] # "closed" /\ ~ Holds(toServer[p], {"end"})
  BY <1>1 DEF IInv, PageInv, SocketAgrees, Hears
<1>7. /\ Holds(toServer'[p], {"LIST"}) /\ ~ Holds(toServer'[p], {"end"})
  BY <1>2, <1>6
<1>8. EngineFollows(p)' /\ AnswerToCome(p)' /\ ListFollows(p)'
  BY <1>4, <1>7 DEF EngineFollows, AnswerToCome, ListFollows
<1>9. screen'[p] = Takes("PEER_LEFT", screen[p]) /\ "PEER_LEFT" \in Places
  BY <1>4, PlacesAre DEF Takes
<1> QED
  BY <1>1, <1>4, <1>5, <1>7, <1>8, <1>9, HeardInv

LEMMA OnRelayInv ==
  ASSUME IInv, NEW p \in Players, OnRelay(p)
  PROVE  IInv'
<1>1. /\ ws[p] = "OPEN" /\ Hear(p, "RELAY")
      /\ UNCHANGED <<ws, screen, enabled, list, listed, playing, toServer>>
  BY OnlyOpenHears DEF OnRelay, shown
<1>2. /\ toClient[p] \in Seq(WebLine) /\ toClient[p] # <<>>
      /\ Head(toClient[p]).verb = "RELAY"
      /\ toClient'[p] = Tail(toClient[p])
      /\ toClient' \in [Players -> Seq(WebLine)]
      /\ \A q \in Players : q # p => toClient'[q] = toClient[q]
  BY <1>1, HearTyped DEF IInv
<1>3. Typed' /\ strays' = strays
  BY <1>1, <1>2 DEF IInv, Typed, Hear, Page, server
<1>4. \A q \in Players \ {p} : PageOf(q)' = PageOf(q)
  BY <1>1, <1>2 DEF PageOf
<1>5. ListFollows(p)'
  BY <1>1, HeardList
<1>6. EngineFollows(p)'
  BY <1>1, <1>3 DEF EngineFollows, IInv, PageInv
<1>7. AnswerToCome(p)'
  <2>1. Holds(toClient[p], Answers) <=> Holds(Tail(toClient[p]), Answers)
    BY <1>2, HoldsTail DEF Answers
  <2> QED
    BY <1>1, <1>2, <2>1 DEF IInv, PageInv, AnswerToCome
<1>8. ~ Holds(toServer'[p], {"end"})
  BY <1>1 DEF IInv, PageInv, SocketAgrees, Hears
<1>9. screen'[p] = Takes("RELAY", screen[p])
  BY <1>1 DEF Takes
<1> QED
  BY <1>1, <1>3, <1>4, <1>5, <1>6, <1>7, <1>8, <1>9, HeardInv

LEMMA OnErrorInv ==
  ASSUME IInv, NEW p \in Players, OnError(p)
  PROVE  IInv'
<1>1. /\ ws[p] = "OPEN" /\ Hear(p, "ERROR") /\ Enable(p)
      /\ UNCHANGED <<ws, screen, list, playing, toServer>>
  BY OnlyOpenHears DEF OnError
<1>2. /\ toClient' \in [Players -> Seq(WebLine)]
      /\ \A q \in Players : q # p => toClient'[q] = toClient[q]
  BY <1>1, HearTyped DEF IInv
<1>3. Typed' /\ enabled'[p] /\ listed'[p] /\ strays' = strays
  BY <1>1, <1>2 DEF IInv, Typed, Enable, Hear, Page, server
<1>4. \A q \in Players \ {p} : PageOf(q)' = PageOf(q)
  BY <1>1, <1>2 DEF PageOf, IInv, Typed, Enable
<1>5. ListFollows(p)'
  BY <1>1, HeardList
<1>6. EngineFollows(p)' /\ AnswerToCome(p)'
  BY <1>1, <1>3 DEF EngineFollows, AnswerToCome, IInv, PageInv
<1>7. ~ Holds(toServer'[p], {"end"})
  BY <1>1 DEF IInv, PageInv, SocketAgrees, Hears
<1>8. screen'[p] = Takes("ERROR", screen[p])
  BY <1>1 DEF Takes
<1> QED
  BY <1>1, <1>3, <1>4, <1>5, <1>6, <1>7, <1>8, HeardInv

LEMMA HandlerInv ==
  ASSUME IInv, NEW p \in Players, Handler(p)
  PROVE  IInv'
<1>1. CASE OnClosed(p)
  <2>1. Closed(p) /\ Page /\ toServer' = toServer /\ toClient' = toClient
    BY <1>1 DEF OnClosed, channels
  <2> QED
    BY <2>1, ClosedInv DEF IInv, Typed
<1>2. CASE UpgradeFails(p)
  <2>1. Closed(p) /\ Page /\ Hear(p, "ROOMS") /\ ToServer(p, <<End>>)
    BY <1>2 DEF UpgradeFails, Hear
  <2>2. /\ toServer' \in [Players -> Seq(WebRequest)]
        /\ \A q \in Players : q # p => toServer'[q] = toServer[q]
    BY <2>1, ToServerSends, RequestsTyped DEF IInv
  <2>3. /\ toClient' \in [Players -> Seq(WebLine)]
        /\ \A q \in Players : q # p => toClient'[q] = toClient[q]
    BY <2>1, HearTyped DEF IInv
  <2> QED
    BY <2>1, <2>2, <2>3, ClosedInv
<1> QED
  BY <1>1, <1>2, OnOpenInv, OnRoomsInv, OnCreatedInv, OnReadyInv, OnPeerLeftInv,
     OnRelayInv, OnErrorInv DEF Handler


-----------------------------------------------------------------------------
(* The steps of the server. *)

\* What these lines to q say is what the server now holds of it.
Delivers(s, q) ==
  /\ s \in Seq(WebLine)
  /\ \A i \in DOMAIN s : s[i].verb \in Places => told'[q] = Means(s[i].verb)
  /\ ~ Holds(s, Places) => told'[q] = told[q]
  /\ \A i \in DOMAIN s : s[i].verb = "ROOMS" => s[i].codes = seen'[q]
  /\ ~ Holds(s, {"ROOMS"}) => seen'[q] = seen[q]
  /\ Holds(s, {"CREATED"}) => Len(s) = 1 /\ (q \notin strays' => told[q] = "Lobby")
  /\ strays \subseteq strays'
  /\ strays' = {} => \A i \in DOMAIN s : s[i].verb = "READY" => s[i].role = Lobby!Role(q)'
  /\ strays' = {} /\ q \in players' /\ told'[q] = "Playing" /\ ~ Holds(s, Places)
       => Lobby!Role(q)' = Lobby!Role(q)
  /\ conn[q] # "Open" => \A i \in DOMAIN s : s[i].verb \in {"ROOMS", "101"}

\* The server reads at most one thing that q sent, and these lines answer it.
Reads(s, q) ==
  \/ toServer'[q] = toServer[q]
  \/ /\ toServer[q] # <<>> /\ toServer'[q] = Tail(toServer[q])
     /\ Head(toServer[q]).verb \in Requests => Holds(s, Answers)
     /\ Head(toServer[q]).verb = "LIST" => Holds(s, {"ROOMS"})

\* How the connection of q may change.
Carries(s, q) ==
  /\ ws[q] = "none" => conn'[q] = conn[q] /\ toServer'[q] = toServer[q]
  /\ ws[q] = "OPEN" => conn'[q] = "Open"
  /\ Hears(q) => conn'[q] # "closed"
  /\ ws[q] = "CONNECTING" => (conn'[q] = "Open" <=> conn[q] = "Open" \/ Holds(s, {"101"}))

LEMMA LinesDeliver ==
  ASSUME NEW q \in Players, Lobby!LinesMean(q)
  PROVE  Delivers(sent'[q], q)
<1> DEFINE s == sent'[q]
<1>1. s \in Seq(WebLine)
  <2>1. Lobby!Line \subseteq WebLine
    BY DEF WebLine
  <2>2. s \in Seq(Lobby!Line)
    BY DEF Lobby!LinesMean
  <2> QED
    BY <2>1, <2>2
<1>2. \A verb : Holds(s, {verb}) <=> Lobby!Has(s, verb)
  BY DEF Holds, Lobby!Has
<1>3. \A i \in DOMAIN s : Lobby!Has(s, s[i].verb)
  BY DEF Lobby!Has
<1>4. \A i \in DOMAIN s : s[i].verb \in Places => told'[q] = Means(s[i].verb)
  BY <1>3, PlacesAre DEF Lobby!LinesMean, Means
<1>5. ASSUME ~ Holds(s, Places)
      PROVE  told'[q] = told[q] /\ ~ Lobby!Has(s, "READY")
  BY <1>5, PlacesAre DEF Lobby!LinesMean, Places, Holds, Lobby!Has
<1>6. \A i \in DOMAIN s : s[i].verb = "ROOMS" => s[i].codes = seen'[q]
  BY DEF Lobby!LinesMean, Lobby!ListsOnly
<1>7. ~ Holds(s, {"ROOMS"}) => seen'[q] = seen[q]
  BY <1>2 DEF Lobby!LinesMean
<1>8. /\ Holds(s, {"CREATED"}) => Len(s) = 1 /\ (q \notin strays' => told[q] = "Lobby")
      /\ strays \subseteq strays'
  BY <1>2 DEF Lobby!LinesMean
<1>9. strays' = {} => \A i \in DOMAIN s : s[i].verb = "READY" => s[i].role = Lobby!Role(q)'
  BY DEF Lobby!LinesMean, Lobby!RolesOnly
<1>10. strays' = {} /\ q \in players' /\ told'[q] = "Playing" /\ ~ Holds(s, Places)
         => Lobby!Role(q)' = Lobby!Role(q)
  BY <1>5 DEF Lobby!LinesMean
<1>11. conn[q] # "Open" => \A i \in DOMAIN s : s[i].verb \in {"ROOMS", "101"}
  BY <1>3 DEF Lobby!LinesMean
<1> QED
  BY <1>1, <1>4, <1>5, <1>6, <1>7, <1>8, <1>9, <1>10, <1>11 DEF Delivers

LEMMA ServerPage ==
  ASSUME Typed, NEW q \in Players, PageInv(q), NEW s, Delivers(s, q), Reads(s, q),
         Carries(s, q), UNCHANGED <<ws, shown>>,
         toClient'[q] = IF Hears(q) THEN toClient[q] \o s ELSE <<>>,
         Hears(q) /\ told'[q] = "Playing" => q \in players'
  PROVE  PageInv(q)'
<1> DEFINE t == toClient[q]
           u == t \o s
<1>1. /\ t \in Seq(WebLine) /\ s \in Seq(WebLine) /\ toServer[q] \in Seq(WebRequest)
      /\ Len(t) \in Nat
  BY DEF Typed, Delivers
<1>2. /\ ws'[q] = ws[q] /\ screen'[q] = screen[q] /\ enabled'[q] = enabled[q]
      /\ list'[q] = list[q] /\ listed'[q] = listed[q] /\ playing'[q] = playing[q]
      /\ Hears(q)' = Hears(q) /\ strays \subseteq strays'
      /\ Hears(q) => toClient'[q] = u
      /\ ~ Hears(q) => toClient'[q] = <<>>
  BY DEF shown, Hears, Delivers
<1>3. \A verbs : Holds(u, verbs) <=> Holds(t, verbs) \/ Holds(s, verbs)
  BY <1>1, HoldsConcat
<1>4. \A verbs : Holds(toServer'[q], verbs) => Holds(toServer[q], verbs)
  BY <1>1, HoldsTail DEF Reads
<1>5. /\ ws[q] = "OPEN" => Hears(q)
      /\ ws[q] = "CONNECTING" => Hears(q)
  BY DEF Hears
<1>6. SocketAgrees(q)'
  <2>1. ws[q] = "none" => conn'[q] = "unused" /\ toServer'[q] = <<>> /\ toClient'[q] = <<>>
    BY <1>2 DEF Carries, PageInv, SocketAgrees, Hears
  <2>2. ASSUME ws[q] = "CONNECTING", u # <<>>
        PROVE  Head(u).verb \in {"ROOMS", "101"}
    <3>1. CASE t = <<>>
      <4>1. conn[q] # "Open"
        BY <2>2, <3>1 DEF PageInv, SocketAgrees, Holds
      <4>2. s # <<>> /\ u = s
        BY <1>1, <2>2, <3>1
      <4>3. 1 \in DOMAIN s /\ s[1] = Head(s)
        BY <1>1, <4>2
      <4> QED
        BY <4>1, <4>2, <4>3 DEF Delivers
    <3>2. CASE t # <<>>
      <4>1. Head(u) = Head(t)
        BY <1>1, <3>2
      <4> QED
        BY <2>2, <3>2, <4>1 DEF PageInv, SocketAgrees
    <3> QED
      BY <3>1, <3>2
  <2>3. ws[q] = "CONNECTING" => (conn'[q] = "Open" <=> Holds(u, {"101"}))
    BY <1>3 DEF Carries, PageInv, SocketAgrees
  <2> HIDE DEF u, t
  <2> QED
    BY <1>2, <1>4, <1>5, <2>1, <2>2, <2>3 DEF Carries, PageInv, SocketAgrees
<1>7. Hears(q) => WillShow(u, screen[q], told'[q])
  BY <1>1, WillShowMore DEF Delivers, PageInv, ScreenFollows
<1>8. Hears(q) /\ told'[q] = "Lobby" => Returns(u, Len(u) + 1, screen[q])
  <2> SUFFICES ASSUME Hears(q), told'[q] = "Lobby"
               PROVE  Returns(u, Len(u) + 1, screen[q])
    OBVIOUS
  <2>1. \A i \in DOMAIN s : s[i].verb \notin {"CREATED", "READY"}
    BY PlacesAre DEF Delivers, Means
  <2>2. CASE Holds(s, {"PEER_LEFT"})
    <3>1. ~ Holds(s, {"CREATED", "READY"})
      BY <2>1 DEF Holds
    <3> QED
      BY <1>1, <2>2, <3>1, ReturnsNow
  <2>3. CASE ~ Holds(s, {"PEER_LEFT"})
    <3>1. ~ Holds(s, Places)
      BY <2>1, <2>3, PlacesAre DEF Holds
    <3>2. Returns(t, Len(t) + 1, screen[q])
      BY <3>1 DEF Delivers, PageInv, PutOutReturns
    <3>3. Len(u) = Len(t) + Len(s) /\ Len(s) \in Nat
      BY <1>1
    <3>4. Len(u) + 1 \in Len(t) + 1 .. Len(t) + Len(s) + 1
      BY <1>1, <3>3
    <3> HIDE DEF t
    <3> QED
      BY <1>1, <2>1, <3>2, <3>4, ReturnsLater
  <2> QED
    BY <2>2, <2>3
<1>9. ASSUME Hears(q), q \notin strays', NEW i \in DOMAIN u, u[i].verb = "CREATED"
      PROVE  Returns(u, i, screen[q])
  <2>1. /\ i \in Nat
        /\ i \in DOMAIN t \/ (i > Len(t) /\ i - Len(t) \in DOMAIN s)
        /\ i \in DOMAIN t => u[i] = t[i]
        /\ \A k \in DOMAIN s : u[Len(t) + k] = s[k]
    BY <1>1, Concat, SMTT(30)
  <2>2. CASE i \in DOMAIN t
    <3>1. Returns(t, i, screen[q])
      BY <1>2, <1>9, <2>1, <2>2 DEF PageInv, PutOutReturns
    <3>2. i \in 1 .. Len(t) + 1
      BY <1>1, <2>2
    <3> HIDE DEF t
    <3> QED
      BY <1>1, <3>1, <3>2, ReturnsMore
  <2>3. CASE i > Len(t) /\ i - Len(t) \in DOMAIN s
    <3>1. Len(t) + (i - Len(t)) = i
      BY <1>1, <2>1
    <3>2. s[i - Len(t)].verb = "CREATED"
      BY <1>9, <2>1, <2>3, <3>1
    <3>3. Holds(s, {"CREATED"})
      BY <2>3, <3>2 DEF Holds
    <3>4. Len(s) = 1 /\ told[q] = "Lobby"
      BY <1>9, <3>3 DEF Delivers
    <3>5. i = Len(t) + 1
      <4>1. i - Len(t) \in 1 .. 1
        BY <1>1, <2>3, <3>4
      <4> QED
        BY <1>1, <2>1, <4>1
    <3>6. Returns(t, Len(t) + 1, screen[q])
      BY <1>9, <3>4 DEF PageInv, PutOutReturns
    <3>7. i \in Len(t) + 1 .. Len(t) + Len(s) + 1
      BY <1>1, <3>4, <3>5
    <3>8. \A k \in DOMAIN s : ~ Len(t) + k < i
      BY <1>1, <3>5
    <3> HIDE DEF t
    <3> QED
      BY <1>1, <3>6, <3>7, <3>8, ReturnsLater
  <2> QED
    BY <2>1, <2>2, <2>3
<1>10. PutOutReturns(q)'
  BY <1>2, <1>8, <1>9 DEF PutOutReturns
<1>11. ASSUME strays' = {}, Hears(q)
       PROVE  WillPlay(u, screen[q], playing[q], Lobby!Role(q)')
  <2>1. CASE told'[q] # "Playing"
    BY <1>7, <1>11, <2>1, WillPlayNothing
  <2>2. CASE told'[q] = "Playing"
    <3>1. ASSUME ~ Holds(s, Places)
          PROVE  WillPlay(t, screen[q], playing[q], Lobby!Role(q)')
      BY <1>2, <1>11, <2>2, <3>1 DEF Delivers, PageInv, RoleAgrees
    <3>2. \A i \in DOMAIN s : s[i].verb = "READY" => s[i].role = Lobby!Role(q)'
      BY <1>11 DEF Delivers
    <3> QED
      BY <1>1, <3>1, <3>2, WillPlayMore
  <2> QED
    BY <2>1, <2>2
<1>12. ASSUME ws[q] = "OPEN", told'[q] = "Lobby", ~ Holds(toServer'[q], {"LIST"}),
              ~ Holds(u, {"PEER_LEFT"})
       PROVE  WillList(u, list[q], seen'[q])
  <2>1. ~ Holds(t, {"PEER_LEFT"}) /\ ~ Holds(s, {"PEER_LEFT"})
    BY <1>3, <1>12
  <2>2. ~ Holds(s, Places)
    BY <1>12, <2>1, PlacesAre DEF Delivers, Means, Holds
  <2>3. ASSUME ~ Holds(s, {"ROOMS"})
        PROVE  WillList(t, list[q], seen'[q])
    <3>1. ~ Holds(toServer[q], {"LIST"})
      BY <1>1, <1>12, <2>3, HoldsTail DEF Reads
    <3> QED
      BY <1>12, <2>1, <2>2, <2>3, <3>1 DEF Delivers, PageInv, ListFollows
  <2> QED
    BY <1>1, <2>3, WillListMore DEF Delivers
<1>13. AnswerToCome(q)'
  <2> SUFFICES ASSUME ws[q] = "OPEN", screen[q] = "Menu", ~ (enabled[q] /\ listed[q])
               PROVE  Holds(toServer'[q], Requests) \/ Holds(u, Answers)
    BY <1>2, <1>5 DEF AnswerToCome
  <2>1. Holds(toServer[q], Requests) \/ Holds(t, Answers)
    BY DEF PageInv, AnswerToCome
  <2>2. Holds(toServer[q], Requests) => Holds(toServer'[q], Requests) \/ Holds(s, Answers)
    BY <1>1, HoldsTail DEF Reads
  <2> QED
    BY <1>3, <2>1, <2>2
<1> HIDE DEF t, u
<1>14. ScreenFollows(q)' /\ RoleAgrees(q)'
  BY <1>2, <1>7, <1>11 DEF ScreenFollows, RoleAgrees
<1>15. EngineFollows(q)'
  BY <1>2 DEF EngineFollows, PageInv
<1>16. ListFollows(q)'
  BY <1>2, <1>5, <1>12 DEF ListFollows
<1> QED
  BY <1>6, <1>10, <1>13, <1>14, <1>15, <1>16 DEF PageInv


\* WebLobby and LobbyProofs instantiate the same lobby.
LEMMA SameInit == Server!Init => Lobby!Init
BY DEF Server!Init, Lobby!Init, Server!NoRoom, Lobby!NoRoom, Server!NoList, Lobby!NoList,
       Server!Codes, Lobby!Codes

LEMMA SameHandlers ==
  ASSUME NEW p \in Players
  PROVE  /\ Server!Accept(p) <=> Lobby!Accept(p)
         /\ Server!Upgrade(p) <=> Lobby!Upgrade(p)
         /\ Server!HandleList(p) <=> Lobby!HandleList(p)
         /\ Server!HandleCreate(p) <=> Lobby!HandleCreate(p)
         /\ Server!Cleanup(p) <=> Lobby!Cleanup(p)
         /\ \A c : Server!JoinRoom(p, c) <=> Lobby!JoinRoom(p, c)
         /\ \A c : Server!JoinFails(p, c) <=> Lobby!JoinFails(p, c)
         /\ \A b : Server!HandleRelay(p, b) <=> Lobby!HandleRelay(p, b)
<1> USE DEF Server!NoRoom, Lobby!NoRoom, Server!NoList, Lobby!NoList,
      Server!Codes, Lobby!Codes, Server!serverVars, Lobby!serverVars,
      Server!Told, Lobby!Told, Server!Seen, Lobby!Seen, Server!Has, Lobby!Has,
      Server!Emit, Lobby!Emit, Server!When, Lobby!When, Server!Answer,
      Lobby!Answer, Server!JoinableCodes, Lobby!JoinableCodes,
      Server!RoomsLine, Lobby!RoomsLine, Server!Created, Lobby!Created,
      Server!Ready, Lobby!Ready, Server!Error, Lobby!Error, Server!PeerLeft,
      Lobby!PeerLeft, Server!Relayed, Lobby!Relayed, Server!BroadcastRoomList, Lobby!BroadcastRoomList,
      Server!Joinable, Lobby!Joinable, Server!Enter, Lobby!Enter,
      Server!TellHost, Lobby!TellHost, Server!Peer, Lobby!Peer,
      Server!OtherPlayer, Lobby!OtherPlayer, Server!LeaveRoom,
      Lobby!LeaveRoom, Server!Unregister, Lobby!Unregister, Server!Delete,
      Lobby!Delete, Server!Partings, Lobby!Partings
<1>1. Server!Accept(p) <=> Lobby!Accept(p)
  BY DEF Server!Accept, Lobby!Accept
<1>2. Server!Upgrade(p) <=> Lobby!Upgrade(p)
  BY DEF Server!Upgrade, Lobby!Upgrade
<1>3. Server!HandleList(p) <=> Lobby!HandleList(p)
  BY DEF Server!HandleList, Lobby!HandleList
<1>4. Server!HandleCreate(p) <=> Lobby!HandleCreate(p)
  BY DEF Server!HandleCreate, Lobby!HandleCreate
<1>5. Server!Cleanup(p) <=> Lobby!Cleanup(p)
  BY DEF Server!Cleanup, Lobby!Cleanup
<1>6. \A c : Server!JoinRoom(p, c) <=> Lobby!JoinRoom(p, c)
  BY DEF Server!JoinRoom, Lobby!JoinRoom
<1>7. \A c : Server!JoinFails(p, c) <=> Lobby!JoinFails(p, c)
  BY DEF Server!JoinFails, Lobby!JoinFails
<1>8. \A b : Server!HandleRelay(p, b) <=> Lobby!HandleRelay(p, b)
  BY DEF Server!HandleRelay, Lobby!HandleRelay
<1> QED
  BY <1>1, <1>2, <1>3, <1>4, <1>5, <1>6, <1>7, <1>8


LEMMA AssumedOfLobby == Lobby!LobbyAssumption
BY WebLobbyAssumption DEF Lobby!LobbyAssumption

\* The lobby's invariant is kept, and what its handlers send is what they mean.
LEMMA LobbySteps ==
  ASSUME Lobby!KInv, NEW p \in Players
  PROVE  /\ Lobby!Accept(p) \/ Lobby!Upgrade(p) \/ Lobby!HandleList(p)
              \/ Lobby!HandleCreate(p) \/ Lobby!Cleanup(p)
              \/ (\E c : Lobby!JoinRoom(p, c))
              \/ (\E c \in Codes \union {Server!NoRoom} : Lobby!JoinFails(p, c))
              \/ (\E b \in Bodies : Lobby!HandleRelay(p, b))
            => Lobby!KInv' /\ \A q \in Players : Lobby!LinesMean(q)
         /\ Lobby!Accept(p) \/ Lobby!Upgrade(p) => sent' = [q \in Players |-> <<>>]
         /\ Lobby!HandleList(p) => Holds(sent'[p], {"ROOMS"})
         /\ Lobby!HandleCreate(p) => Holds(sent'[p], Answers)
         /\ \A c : Lobby!JoinRoom(p, c) \/ Lobby!JoinFails(p, c) => Holds(sent'[p], Answers)
<1> USE AssumedOfLobby
<1>1. \A verb : Lobby!Has(sent'[p], verb) <=> Holds(sent'[p], {verb})
  BY DEF Lobby!Has, Holds
<1>2. \A verb \in Answers : Lobby!Has(sent'[p], verb) => Holds(sent'[p], Answers)
  BY DEF Lobby!Has, Holds
<1>3. Lobby!Codes = Codes /\ Lobby!NoRoom = Server!NoRoom
  BY DEF Lobby!Codes, Codes, Server!Codes, Lobby!NoRoom, Server!NoRoom
<1>4. ASSUME Lobby!Accept(p) \/ Lobby!Upgrade(p)
      PROVE  /\ Lobby!KInv' /\ \A q \in Players : Lobby!LinesMean(q)
             /\ sent' = [q \in Players |-> <<>>]
  <2>1. Lobby!KInv'
    BY <1>4, Lobby!StepKInv DEF Lobby!Next
  <2>2. Lobby!Emit([r \in Players |-> <<>>]) /\ UNCHANGED <<rooms, host, room, strays>>
    BY <1>4 DEF Lobby!Accept, Lobby!Upgrade
  <2>3. \A q \in Players : Lobby!LinesMean(q)
    BY <2>1, <2>2, Lobby!SilenceMeans
  <2> QED
    BY <2>1, <2>2, <2>3 DEF Lobby!Emit
<1>5. ASSUME NEW line \in Lobby!Line, Lobby!Answer(p, line), line.verb \in {"ROOMS", "ERROR"},
             UNCHANGED <<Lobby!serverVars, strays>>, conn[p] = "Open", Lobby!KInv'
      PROVE  /\ \A q \in Players : Lobby!LinesMean(q)
             /\ Lobby!Has(sent'[p], line.verb)
  BY <1>5, Lobby!AnswerMeans, Lobby!AnswerSends DEF Lobby!KInv, Lobby!IInv
<1>6. ASSUME Lobby!HandleList(p)
      PROVE  /\ Lobby!KInv' /\ \A q \in Players : Lobby!LinesMean(q)
             /\ Holds(sent'[p], {"ROOMS"})
  <2> DEFINE line == Lobby!RoomsLine(Lobby!JoinableCodes(rooms, guest))
  <2>1. Lobby!KInv'
    BY <1>6, Lobby!StepKInv DEF Lobby!Next
  <2>2. line \in Lobby!Line /\ line.verb = "ROOMS"
    BY Lobby!LinesTyped, Lobby!VerbOf DEF Lobby!KInv, Lobby!IInv, Lobby!TypeOK,
       Lobby!JoinableCodes
  <2>3. Lobby!Answer(p, line) /\ conn[p] = "Open" /\ UNCHANGED <<Lobby!serverVars, strays>>
    BY <1>6 DEF Lobby!HandleList
  <2> HIDE DEF line
  <2> QED
    BY <1>1, <1>5, <2>1, <2>2, <2>3
<1>7. ASSUME NEW c \in Codes \union {Server!NoRoom}, Lobby!JoinFails(p, c)
      PROVE  Lobby!KInv' /\ \A q \in Players : Lobby!LinesMean(q)
  <2> DEFINE line == Lobby!Error("join_failed")
  <2>1. Lobby!KInv'
    BY <1>3, <1>7, Lobby!StepKInv DEF Lobby!Next
  <2>2. line \in Lobby!Line /\ line.verb = "ERROR"
    BY Lobby!LinesTyped, Lobby!VerbOf DEF Lobby!Reasons
  <2>3. Lobby!Answer(p, line) /\ conn[p] = "Open" /\ UNCHANGED <<Lobby!serverVars, strays>>
    BY <1>7 DEF Lobby!JoinFails
  <2> HIDE DEF line
  <2> QED
    BY <1>5, <2>1, <2>2, <2>3
<1>8. ASSUME NEW c, Lobby!JoinFails(p, c)
      PROVE  Holds(sent'[p], Answers)
  <2> DEFINE line == Lobby!Error("join_failed")
  <2>1. line \in Lobby!Line /\ line.verb = "ERROR"
    BY Lobby!LinesTyped, Lobby!VerbOf DEF Lobby!Reasons
  <2>2. Lobby!Answer(p, line)
    BY <1>8 DEF Lobby!JoinFails
  <2> HIDE DEF line
  <2>3. Lobby!Has(sent'[p], "ERROR")
    BY <2>1, <2>2, Lobby!AnswerSends
  <2> QED
    BY <1>2, <2>3 DEF Answers
<1>9. ASSUME Lobby!HandleCreate(p)
      PROVE  /\ Lobby!KInv' /\ \A q \in Players : Lobby!LinesMean(q)
             /\ Holds(sent'[p], Answers)
  <2>1. Lobby!KInv'
    BY <1>9, Lobby!StepKInv DEF Lobby!Next
  <2>2. Lobby!Has(sent'[p], "CREATED")
    BY <1>9, Lobby!CreateSends DEF Lobby!KInv, Lobby!IInv
  <2> QED
    BY <1>2, <1>9, <2>1, <2>2, Lobby!CreateMeans DEF Answers
<1>10. ASSUME NEW c, Lobby!JoinRoom(p, c)
       PROVE  /\ Lobby!KInv' /\ \A q \in Players : Lobby!LinesMean(q)
              /\ Holds(sent'[p], Answers)
  <2>1. c \in Lobby!Codes
    BY <1>10 DEF Lobby!JoinRoom, Lobby!Joinable, Lobby!KInv, Lobby!IInv, Lobby!TypeOK
  <2>2. Lobby!KInv'
    BY <1>10, <2>1, Lobby!StepKInv DEF Lobby!Next
  <2>3. Lobby!Has(sent'[p], "READY")
    BY <1>10, <2>1, Lobby!JoinSends DEF Lobby!KInv, Lobby!IInv
  <2> QED
    BY <1>2, <1>10, <2>1, <2>2, <2>3, Lobby!JoinMeans DEF Answers
<1>11. ASSUME Lobby!Cleanup(p)
       PROVE  Lobby!KInv' /\ \A q \in Players : Lobby!LinesMean(q)
  <2>1. Lobby!KInv'
    BY <1>11, Lobby!StepKInv DEF Lobby!Next
  <2> QED
    BY <1>11, <2>1, Lobby!CleanupMeans
<1>12. ASSUME NEW b \in Bodies, Lobby!HandleRelay(p, b)
       PROVE  Lobby!KInv' /\ \A q \in Players : Lobby!LinesMean(q)
  <2>1. Lobby!KInv'
    BY <1>12, Lobby!StepKInv DEF Lobby!Next
  <2> QED
    BY <1>12, <2>1, Lobby!RelayMeans
<1> QED
  BY <1>4, <1>6, <1>7, <1>8, <1>9, <1>10, <1>11, <1>12


\* A step of the server that writes these lines to each page.
LEMMA DeliverInv ==
  ASSUME IInv, Lobby!KInv', UNCHANGED <<ws, shown>>, NEW lines,
         toServer' \in [Players -> Seq(WebRequest)],
         toClient' = [q \in Players |-> IF Hears(q) THEN toClient[q] \o lines[q] ELSE <<>>],
         \A q \in Players :
           Delivers(lines[q], q) /\ Reads(lines[q], q) /\ Carries(lines[q], q)
  PROVE  IInv'
<1>1. Typed'
  <2>1. ASSUME NEW q \in Players
        PROVE  toClient[q] \o lines[q] \in Seq(WebLine) /\ <<>> \in Seq(WebLine)
    <3>1. toClient[q] \in Seq(WebLine) /\ lines[q] \in Seq(WebLine)
      BY DEF IInv, Typed, Delivers
    <3> QED
      BY <3>1
  <2>2. toClient' \in [Players -> Seq(WebLine)]
    BY <2>1
  <2> QED
    BY <2>2 DEF IInv, Typed, shown
<1>2. ASSUME NEW q \in Players, Hears(q), told'[q] = "Playing"
      PROVE  q \in players'
  <2>1. conn'[q] # "closed"
    BY <1>2 DEF Carries
  <2>2. /\ conn' \in [Players -> {"unused", "Handshake", "Open", "closed"}]
        /\ players' = {r \in Players : conn'[r] \in {"Handshake", "Open"}}
    BY DEF Lobby!KInv, Lobby!IInv, Lobby!TypeOK
  <2>3. conn'[q] # "unused"
    BY <1>2 DEF Lobby!KInv, Lobby!Newcomers
  <2> QED
    BY <2>1, <2>2, <2>3
<1>3. ASSUME NEW q \in Players
      PROVE  PageInv(q)'
  <2>1. toClient'[q] = IF Hears(q) THEN toClient[q] \o lines[q] ELSE <<>>
    OBVIOUS
  <2> QED
    BY <1>2, <2>1, ServerPage DEF IInv
<1> QED
  BY <1>1, <1>3 DEF IInv

\* No handler sends the 101, and a connection that stays carries on.
LEMMA CarriesOn ==
  ASSUME NEW q \in Players, PageInv(q), Lobby!LinesMean(q), conn'[q] = conn[q],
         ws[q] = "none" => toServer'[q] = toServer[q]
  PROVE  Carries(sent'[q], q)
<1>1. sent'[q] \in Seq(Lobby!Line)
  BY DEF Lobby!LinesMean
<1>2. \A line \in Lobby!Line : line.verb # "101"
  BY DEF Lobby!Line
<1>3. ~ Holds(sent'[q], {"101"})
  BY <1>1, <1>2 DEF Holds
<1> QED
  BY <1>3 DEF Carries, PageInv, SocketAgrees

LEMMA PostsSent ==
  ASSUME Typed, NEW q \in Players, sent'[q] \in Seq(Lobby!Line)
  PROVE  Post(q, <<>>) = IF Hears(q) THEN toClient[q] \o sent'[q] ELSE <<>>
<1>1. toClient[q] \in Seq(WebLine)
  BY DEF Typed
<1>2. toClient[q] \o <<>> = toClient[q]
  BY <1>1
<1> QED
  BY <1>2 DEF Post

LEMMA AcceptInv ==
  ASSUME IInv, NEW p \in Players, Accept(p)
  PROVE  IInv'
<1>1. /\ ws[p] # "none" /\ Lobby!Accept(p)
      /\ toClient' = [q \in Players |-> Post(q, <<>>)]
      /\ UNCHANGED <<ws, shown, toServer>>
  BY SameHandlers DEF Accept
<1>2. Lobby!KInv' /\ \A q \in Players : Lobby!LinesMean(q)
  BY <1>1, LobbySteps DEF IInv
<1>3. toClient' = [q \in Players |-> IF Hears(q) THEN toClient[q] \o sent'[q] ELSE <<>>]
  BY <1>1, <1>2, PostsSent DEF IInv, Lobby!LinesMean
<1>4. ASSUME NEW q \in Players
      PROVE  Delivers(sent'[q], q) /\ Reads(sent'[q], q)
  BY <1>1, <1>2, LinesDeliver DEF Reads
<1>5. /\ conn[p] = "unused" /\ conn' = [conn EXCEPT ![p] = "Handshake"]
      /\ sent' = [q \in Players |-> <<>>]
      /\ conn \in [Players -> {"unused", "Handshake", "Open", "closed"}]
  BY <1>1, LobbySteps DEF Lobby!Accept, IInv, Lobby!KInv, Lobby!IInv, Lobby!TypeOK
<1>6. ASSUME NEW q \in Players
      PROVE  Carries(sent'[q], q)
  <2>1. CASE q = p
    <3>1. ~ Holds(sent'[p], {"101"})
      BY <1>5 DEF Holds
    <3> QED
      BY <1>1, <1>5, <2>1, <3>1 DEF Carries, IInv, PageInv, SocketAgrees
  <2>2. CASE q # p
    BY <1>1, <1>2, <1>5, <2>2, CarriesOn DEF IInv
  <2> QED
    BY <2>1, <2>2
<1>7. toServer' \in [Players -> Seq(WebRequest)]
  BY <1>1 DEF IInv, Typed
<1> QED
  BY <1>1, <1>2, <1>3, <1>4, <1>6, <1>7, DeliverInv

\* Serve, but for the upgrade.
LEMMA HandleInv ==
  ASSUME IInv, NEW p \in Players, Serve(p), Lobby!KInv',
         \A q \in Players : Lobby!LinesMean(q),
         conn' = conn \/ (conn' = [conn EXCEPT ![p] = "closed"]
                            /\ Head(toServer[p]).verb = "end"),
         Head(toServer[p]).verb \in Requests => Holds(sent'[p], Answers),
         Head(toServer[p]).verb = "LIST" => Holds(sent'[p], {"ROOMS"})
  PROVE  IInv'
<1>1. /\ toServer[p] # <<>> /\ toServer[p] \in Seq(WebRequest)
      /\ toServer' = [toServer EXCEPT ![p] = Tail(toServer[p])]
      /\ UNCHANGED <<ws, shown>>
      /\ conn \in [Players -> {"unused", "Handshake", "Open", "closed"}]
  BY DEF Serve, IInv, Typed, Lobby!KInv, Lobby!IInv, Lobby!TypeOK
<1>2. Tail(toServer[p]) \in Seq(WebRequest)
  BY <1>1
<1>3. /\ toServer' \in [Players -> Seq(WebRequest)]
      /\ toServer'[p] = Tail(toServer[p])
      /\ \A q \in Players : q # p => toServer'[q] = toServer[q]
  BY <1>1, <1>2 DEF IInv, Typed
<1>4. toClient' = [q \in Players |-> IF Hears(q) THEN toClient[q] \o sent'[q] ELSE <<>>]
  <2>1. ~ (conn[p] = "Handshake" /\ conn'[p] = "Open")
    BY <1>1
  <2>2. toClient' = [q \in Players |-> Post(q, <<>>)]
    BY <2>1 DEF Serve
  <2> QED
    BY <2>2, PostsSent DEF IInv, Lobby!LinesMean
<1>5. ASSUME NEW q \in Players
      PROVE  Delivers(sent'[q], q) /\ Reads(sent'[q], q)
  BY <1>1, <1>3, LinesDeliver DEF Reads
<1>6. ASSUME NEW q \in Players
      PROVE  Carries(sent'[q], q)
  <2>1. ws[p] # "none"
    BY <1>1 DEF IInv, PageInv, SocketAgrees
  <2>2. CASE conn'[q] = conn[q]
    BY <1>3, <2>1, <2>2, CarriesOn DEF IInv
  <2>3. CASE conn'[q] # conn[q]
    <3>1. q = p /\ Head(toServer[p]).verb = "end"
      BY <1>1, <2>3
    <3>2. Holds(toServer[p], {"end"})
      BY <1>1, <3>1, HoldsTail
    <3>3. ~ Hears(p)
      BY <3>2 DEF IInv, PageInv, SocketAgrees
    <3> QED
      BY <2>1, <3>1, <3>3 DEF Carries, Hears
  <2> QED
    BY <2>2, <2>3
<1> QED
  BY <1>1, <1>3, <1>4, <1>5, <1>6, DeliverInv


LEMMA UpgradeInv ==
  ASSUME IInv, NEW p \in Players, Serve(p), Head(toServer[p]).verb = "GET",
         Lobby!Upgrade(p)
  PROVE  IInv'
<1> DEFINE lines == [q \in Players |-> IF q = p THEN <<Upgraded>> ELSE <<>>]
<1>1. /\ Lobby!KInv' /\ \A q \in Players : Lobby!LinesMean(q)
      /\ sent' = [q \in Players |-> <<>>]
  BY LobbySteps DEF IInv
<1>2. /\ toServer[p] # <<>> /\ toServer[p] \in Seq(WebRequest)
      /\ toServer' = [toServer EXCEPT ![p] = Tail(toServer[p])]
      /\ UNCHANGED <<ws, shown>>
      /\ conn[p] = "Handshake" /\ conn' = [conn EXCEPT ![p] = "Open"]
      /\ conn \in [Players -> {"unused", "Handshake", "Open", "closed"}]
  BY DEF Serve, IInv, Typed, Lobby!Upgrade, Lobby!KInv, Lobby!IInv, Lobby!TypeOK
<1>3. Tail(toServer[p]) \in Seq(WebRequest) /\ conn'[p] = "Open"
  BY <1>2
<1>4. /\ toServer' \in [Players -> Seq(WebRequest)]
      /\ toServer'[p] = Tail(toServer[p])
      /\ \A q \in Players : q # p => toServer'[q] = toServer[q]
  BY <1>2, <1>3 DEF IInv, Typed
<1>5. Upgraded \in WebLine /\ Upgraded.verb = "101"
  BY DEF WebLine, Upgraded
<1>6. <<Upgraded>> \in Seq(WebLine) /\ 1 \in DOMAIN <<Upgraded>> /\ <<Upgraded>>[1] = Upgraded
      /\ \A i \in DOMAIN <<Upgraded>> : <<Upgraded>>[i] = Upgraded
  BY <1>5
<1>7. toClient' = [q \in Players |-> IF Hears(q) THEN toClient[q] \o lines[q] ELSE <<>>]
  <2>1. toClient' = [q \in Players |-> Post(q, IF q = p THEN <<Upgraded>> ELSE <<>>)]
    BY <1>2, <1>3 DEF Serve
  <2>2. ASSUME NEW q \in Players
        PROVE  Post(q, lines[q]) = IF Hears(q) THEN toClient[q] \o lines[q] ELSE <<>>
    <3>1. toClient[q] \in Seq(WebLine) /\ lines[q] \in Seq(WebLine)
      BY <1>6 DEF IInv, Typed
    <3>2. toClient[q] \o lines[q] \in Seq(WebLine)
      BY <3>1
    <3>3. sent'[q] = <<>> /\ (toClient[q] \o lines[q]) \o <<>> = toClient[q] \o lines[q]
      BY <1>1, <3>2
    <3> HIDE DEF lines
    <3> QED
      BY <3>3 DEF Post
  <2> QED
    BY <2>1, <2>2
<1>8. ASSUME NEW q \in Players
      PROVE  Delivers(<<>>, q)
  <2>1. sent'[q] = <<>>
    BY <1>1
  <2> QED
    BY <1>1, <2>1, LinesDeliver
<1>9. Delivers(<<Upgraded>>, p)
  <2>1. \A verbs : ~ Holds(<<>>, verbs)
    BY DEF Holds
  <2>2. \A verbs : Holds(<<Upgraded>>, verbs) => "101" \in verbs
    BY <1>5, <1>6 DEF Holds
  <2>3. ~ Holds(<<Upgraded>>, Places) /\ ~ Holds(<<Upgraded>>, {"ROOMS"})
        /\ ~ Holds(<<Upgraded>>, {"CREATED"})
    BY <2>2, PlacesAre
  <2> QED
    BY <1>5, <1>6, <1>8, <2>1, <2>3, PlacesAre DEF Delivers
<1>10. ASSUME NEW q \in Players
       PROVE  Delivers(lines[q], q) /\ Reads(lines[q], q)
  BY <1>2, <1>4, <1>8, <1>9 DEF Reads, Requests
<1>11. ASSUME NEW q \in Players
       PROVE  Carries(lines[q], q)
  <2>1. CASE q = p
    <3>1. ws[p] # "none"
      BY <1>2 DEF IInv, PageInv, SocketAgrees
    <3>2. Holds(<<Upgraded>>, {"101"})
      BY <1>5, <1>6 DEF Holds
    <3> QED
      BY <1>3, <2>1, <3>1, <3>2 DEF Carries
  <2>2. CASE q # p
    <3>1. conn'[q] = conn[q] /\ sent'[q] = <<>> /\ lines[q] = <<>>
      BY <1>1, <1>2, <2>2
    <3>2. Carries(sent'[q], q)
      BY <1>1, <1>4, <2>2, <3>1, CarriesOn DEF IInv
    <3> QED
      BY <3>1, <3>2
  <2> QED
    BY <2>1, <2>2
<1> HIDE DEF lines
<1> QED
  BY <1>1, <1>2, <1>4, <1>7, <1>10, <1>11, DeliverInv

LEMMA ServeInv ==
  ASSUME IInv, NEW p \in Players, Serve(p)
  PROVE  IInv'
<1> DEFINE r == Head(toServer[p])
<1>1. \/ r.verb = "GET"    /\ Server!Upgrade(p)
      \/ r.verb = "LIST"   /\ Server!HandleList(p)
      \/ r.verb = "CREATE" /\ Server!HandleCreate(p)
      \/ r.verb = "JOIN"   /\ (Server!JoinRoom(p, r.code) \/ Server!JoinFails(p, r.code))
      \/ r.verb = "RELAY"  /\ Server!HandleRelay(p, r.body)
      \/ r.verb = "end"    /\ Server!Cleanup(p)
  BY DEF Serve
<1>2. r \in WebRequest
  <2>1. toServer[p] \in Seq(WebRequest) /\ toServer[p] # <<>>
    BY DEF Serve, IInv, Typed
  <2> QED
    BY <2>1
<1> HIDE DEF r
<1>3. CASE r.verb = "GET"
  BY <1>1, <1>3, SameHandlers, UpgradeInv DEF r
<1>4. CASE r.verb = "LIST"
  <2>1. Lobby!HandleList(p)
    BY <1>1, <1>4, SameHandlers
  <2>2. conn' = conn
    BY <2>1 DEF Lobby!HandleList, Lobby!serverVars
  <2> QED
    BY <1>4, <2>1, <2>2, LobbySteps, HandleInv DEF IInv, Requests, r
<1>5. CASE r.verb = "CREATE"
  <2>1. Lobby!HandleCreate(p)
    BY <1>1, <1>5, SameHandlers
  <2>2. conn' = conn
    BY <2>1 DEF Lobby!HandleCreate
  <2> QED
    BY <1>5, <2>1, <2>2, LobbySteps, HandleInv DEF IInv, r
<1>6. CASE r.verb = "JOIN"
  <2>1. r.code \in Codes \union {Server!NoRoom}
    BY <1>2, <1>6 DEF WebRequest
  <2>2. Lobby!JoinRoom(p, r.code) \/ Lobby!JoinFails(p, r.code)
    BY <1>1, <1>6, SameHandlers
  <2>3. conn' = conn
    BY <2>2 DEF Lobby!JoinRoom, Lobby!JoinFails, Lobby!serverVars
  <2>4. Lobby!KInv' /\ (\A q \in Players : Lobby!LinesMean(q)) /\ Holds(sent'[p], Answers)
    BY <2>1, <2>2, LobbySteps DEF IInv
  <2> QED
    BY <1>6, <2>3, <2>4, HandleInv DEF r
<1>7. CASE r.verb = "end"
  <2>1. Lobby!Cleanup(p)
    BY <1>1, <1>7, SameHandlers
  <2>2. conn' = [conn EXCEPT ![p] = "closed"]
    BY <2>1 DEF Lobby!Cleanup
  <2> QED
    BY <1>7, <2>1, <2>2, LobbySteps, HandleInv DEF IInv, Requests, r
<1>8. CASE r.verb = "RELAY"
  <2>1. r.body \in Bodies
    BY <1>2, <1>8 DEF WebRequest
  <2>2. Lobby!HandleRelay(p, r.body)
    BY <1>1, <1>8, SameHandlers
  <2>3. conn' = conn
    BY <2>2 DEF Lobby!HandleRelay, Lobby!serverVars
  <2>4. Lobby!KInv' /\ \A q \in Players : Lobby!LinesMean(q)
    BY <2>1, <2>2, LobbySteps DEF IInv
  <2> QED
    BY <1>8, <2>3, <2>4, HandleInv DEF Requests, r
<1> QED
  BY <1>1, <1>3, <1>4, <1>5, <1>6, <1>7, <1>8


-----------------------------------------------------------------------------
(* The invariant holds, and what it says of a page with nothing under way. *)

LEMMA InitIInv == Init => IInv
<1> SUFFICES ASSUME Init PROVE IInv
  OBVIOUS
<1>1. Lobby!KInv
  BY SameInit, AssumedOfLobby, Lobby!InitKInv DEF Init
<1>2. Typed
  BY DEF Init, Typed
<1>3. ASSUME NEW p \in Players
      PROVE  PageInv(p)
  <2>1. /\ ws[p] = "none" /\ screen[p] = "Menu" /\ playing[p] = "none"
        /\ toServer[p] = <<>> /\ toClient[p] = <<>> /\ conn[p] = "unused"
    BY DEF Init, Server!Init
  <2>2. SocketAgrees(p) /\ ~ Hears(p)
    BY <2>1 DEF SocketAgrees, Hears
  <2> QED
    BY <2>1, <2>2 DEF PageInv, ScreenFollows, PutOutReturns, EngineFollows, RoleAgrees,
                      ListFollows, AnswerToCome
<1> QED
  BY <1>1, <1>2, <1>3 DEF IInv

LEMMA StepIInv ==
  ASSUME IInv, [Next]_vars
  PROVE  IInv'
<1>1. CASE UNCHANGED vars
  <2>1. /\ UNCHANGED <<conn, players, rooms, nextCode, host, guest, room, told, seen, strays>>
        /\ UNCHANGED <<sent, ws, screen, enabled, list, listed, playing, toServer, toClient>>
    BY <1>1 DEF vars, server, shown, channels
  <2>2. Lobby!KInv'
    <3>1. [Lobby!Next]_(Lobby!vars)
      BY <2>1 DEF Lobby!vars, Lobby!serverVars
    <3> QED
      BY <3>1, AssumedOfLobby, Lobby!StepKInv DEF IInv
  <2>3. Typed'
    BY <2>1 DEF IInv, Typed
  <2>4. ASSUME NEW p \in Players
        PROVE  PageInv(p)'
    <3>1. UNCHANGED <<ServerOf(p), PageOf(p)>>
      BY <2>1 DEF ServerOf, PageOf, Lobby!Role
    <3> QED
      BY <3>1, PageStays DEF IInv
  <2> QED
    BY <2>2, <2>3, <2>4 DEF IInv
<1> QED
  BY <1>1, AcceptInv, ServeInv, PersonInv, HandlerInv DEF Next

LEMMA Invariance == Spec => []IInv
<1>1. IInv /\ [Next]_vars => IInv'
  BY StepIInv
<1> QED
  BY <1>1, InitIInv, PTL DEF Spec

\* Whatever people do, every outcome that leaves a page on its menu enables the
\* buttons that a request disabled: a menu with nothing under way can be used.
THEOREM MenusAreUsable == Spec => []MenuIsUsable
<1>1. IInv => MenuIsUsable
  <2> SUFFICES ASSUME IInv, NEW p \in Players, Settled(p), screen[p] = "Menu"
               PROVE  enabled[p] /\ listed[p]
    BY DEF MenuIsUsable
  <2>1. \A verbs : ~ Holds(toServer[p], verbs) /\ ~ Holds(toClient[p], verbs)
    BY NothingToHear DEF Settled
  <2> QED
    BY <2>1 DEF IInv, PageInv, AnswerToCome, Settled
<1> QED
  BY <1>1, Invariance, PTL

\* The engine of a client that keeps to one room runs exactly while the game is
\* on the screen of an open page: READY starts it, and PEER_LEFT, CANCEL and the
\* end of the socket stop it.
THEOREM EnginesFollowScreens == Spec => []EngineFollowsScreen
<1>1. IInv => EngineFollowsScreen
  BY DEF IInv, PageInv, EngineFollows, EngineFollowsScreen
<1> QED
  BY <1>1, Invariance, PTL

\* What a page with nothing under way shows is what it was last told.
LEMMA SettledPages ==
  ASSUME IInv, strays = {}, NEW p \in Players, Settled(p)
  PROVE  /\ p \in players
         /\ Shows(screen[p]) = Lobby!Place(p)
         /\ screen[p] = "Game" => playing[p] = Lobby!Role(p)
         /\ screen[p] = "Menu" => list[p] = seen[p]
<1>1. Hears(p) /\ conn[p] = "Open" /\ p \in players
  <2>1. Hears(p) /\ conn[p] = "Open"
    BY DEF Settled, Hears, IInv, PageInv, SocketAgrees
  <2> QED
    BY <2>1 DEF IInv, Lobby!KInv, Lobby!IInv, Lobby!TypeOK
<1>2. \A verbs : ~ Holds(toServer[p], verbs) /\ ~ Holds(toClient[p], verbs)
  BY NothingToHear DEF Settled
<1>3. told[p] = Shows(screen[p])
  BY <1>1, <1>2 DEF IInv, PageInv, ScreenFollows, WillShow
<1>4. told[p] = Lobby!Place(p)
  BY <1>1 DEF IInv, Lobby!KInv, Lobby!PlacesAreTold
<1>5. screen[p] = "Game" => playing[p] = Lobby!Role(p)
  BY <1>1, <1>2 DEF IInv, PageInv, RoleAgrees, WillPlay
<1>6. screen[p] = "Menu" => list[p] = seen[p]
  BY <1>2, <1>3 DEF IInv, PageInv, ListFollows, WillList, Settled, Shows
<1> QED
  BY <1>1, <1>3, <1>4, <1>5, <1>6

\* While nobody enters a room from inside one, what a page that has heard all
\* shows is its place in the server's registries, and its engine plays the role
\* the server has it in.
THEOREM ScreensAreTrue == Spec => []ScreenIsTrue
<1>1. IInv => ScreenIsTrue
  <2> SUFFICES ASSUME IInv, strays = {}, NEW p \in Players, Settled(p)
               PROVE  LET r == room[p] IN
                      CASE r = Server!NoRoom -> screen[p] = "Menu"
                        [] r # Server!NoRoom /\ Server!Peer(p) = NoPlayer
                             -> screen[p] = "Waiting"
                        [] OTHER -> /\ screen[p] = "Game"
                                    /\ playing[p] = IF host[r] = p THEN "host" ELSE "guest"
    BY DEF ScreenIsTrue
  <2>1. /\ p \in players /\ Shows(screen[p]) = Lobby!Place(p)
        /\ screen[p] = "Game" => playing[p] = Lobby!Role(p)
        /\ screen[p] \in {"Menu", "Waiting", "Game"}
    BY SettledPages DEF IInv, Typed
  <2>2. Server!NoRoom = Lobby!NoRoom /\ Server!Peer(p) = Lobby!Peer(p)
    BY DEF Server!NoRoom, Lobby!NoRoom, Server!Peer, Lobby!Peer, Server!OtherPlayer,
           Lobby!OtherPlayer
  <2>3. CASE room[p] = Lobby!NoRoom
    BY <2>1, <2>2, <2>3 DEF Lobby!Place, Shows
  <2>4. CASE room[p] # Lobby!NoRoom
    <3>1. Lobby!Peer(p) = NoPlayer <=> guest[room[p]] = NoPlayer
      BY <2>1, <2>4, AssumedOfLobby, Lobby!PlaceOfPeer DEF IInv
    <3>2. CASE Lobby!Peer(p) = NoPlayer
      <4>1. screen[p] = "Waiting"
        BY <2>1, <2>4, <3>1, <3>2 DEF Lobby!Place, Shows
      <4> QED
        BY <2>2, <2>4, <3>2, <4>1
    <3>3. CASE Lobby!Peer(p) # NoPlayer
      <4>1. screen[p] = "Game"
        BY <2>1, <2>4, <3>1, <3>3 DEF Lobby!Place, Shows
      <4>2. playing[p] = IF host[room[p]] = p THEN "host" ELSE "guest"
        BY <2>1, <4>1 DEF Lobby!Role
      <4> QED
        BY <2>2, <2>4, <3>3, <4>1, <4>2
    <3> QED
      BY <3>2, <3>3
  <2> QED
    BY <2>3, <2>4
<1> QED
  BY <1>1, Invariance, PTL

\* Likewise its menu lists the rooms that can be joined now, also after a game,
\* during which it was sent no lists: PEER_LEFT and the 101 make a page ask.
THEOREM MenusAreCurrent == Spec => []ListIsCurrent
<1>1. IInv => ListIsCurrent
  <2> SUFFICES ASSUME IInv, strays = {}, NEW p \in Players, Settled(p), screen[p] = "Menu"
               PROVE  list[p] = Server!JoinableCodes(rooms, guest)
    BY DEF ListIsCurrent
  <2>1. p \in players /\ list[p] = seen[p] /\ Lobby!Place(p) = "Lobby"
    BY SettledPages DEF Shows
  <2>2. room[p] = Lobby!NoRoom
    BY <2>1 DEF Lobby!Place
  <2>3. seen[p] \in {Lobby!NoList, Lobby!JoinableCodes(rooms, guest)}
    BY <2>1, <2>2 DEF IInv, Lobby!KInv, Lobby!SeenIsCurrent
  <2>4. seen[p] # Lobby!NoList
    <3>1. seen[p] \subseteq 1 .. MaxCode
      BY <2>1 DEF IInv, Typed, Codes, Server!Codes
    <3>2. 0 \in Lobby!NoList /\ 0 \notin 1 .. MaxCode
      BY WebLobbyAssumption DEF Lobby!NoList, Lobby!NoRoom, WebLobbyAssumption
    <3> QED
      BY <3>1, <3>2
  <2> QED
    BY <2>1, <2>3, <2>4 DEF Server!JoinableCodes, Lobby!JoinableCodes
<1> QED
  BY <1>1, Invariance, PTL

===============================================================================
