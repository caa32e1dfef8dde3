------------------------------ MODULE PongSync -------------------------------
(***************************************************************************)
(* The two engines of one match (src/client/main.cpp) over the ordered     *)
(* data channel (rtc.ts): the host's S messages, the guest's P messages,   *)
(* and the decimal numbers they are made of.                               *)
(*                                                                         *)
(* What the ball and the paddles do in a tick is Pong's matter: here each  *)
(* moves to any of a set of places, which are pairs of x and y.  Rtc shows *)
(* that a channel belongs to one match, and start_game sets every          *)
(* variable, so one match is enough.                                       *)
(***************************************************************************)
EXTENDS Integers, Sequences, SequencesExt

CONSTANTS
  BallPlaces,    \* where a tick may take the ball, in fifths of a pixel
  LeftPlaces,    \* where the host may take its paddle, in pixels
  RightPlaces,   \* where the guest may take its paddle, in pixels
  MaxScore,      \* bound: goals of each side
  MaxInFlight    \* bound: messages in the channel, each way

LEFT_X_MIN   == 0
LEFT_X_MAX   == 388
RIGHT_X_MIN  == 400
RIGHT_X_MAX  == 788
PADDLE_Y_MAX == 510            \* CANVAS_H - PADDLE_H
Serve        == <<1965, 1465>> \* 393 and 293 px, in fifths
LEFT_HOME    == <<24, 255>>
RIGHT_HOME   == <<764, 255>>

LeftHalf  == (LEFT_X_MIN .. LEFT_X_MAX) \X (0 .. PADDLE_Y_MAX)
RightHalf == (RIGHT_X_MIN .. RIGHT_X_MAX) \X (0 .. PADDLE_Y_MAX)

ASSUME PongSyncAssumption ==
  /\ BallPlaces \subseteq Int \X Int
  /\ LeftPlaces \subseteq LeftHalf /\ RightPlaces \subseteq RightHalf
  /\ MaxScore \in Nat /\ MaxInFlight \in Nat \ {0}

VARIABLES
  ball, left, left_score, right_score,   \* the host's
  mirror,       \* the host's right_x and right_y
  right,        \* the guest's own paddle
  view,         \* the guest's ball_x, ball_y, left_x, left_y and scores
  in_game,      \* per engine
  open,         \* per page, whether its channel is open
  wire,         \* per page, the messages on their way to it
  \* History variables: no guard reads them.
  basis,        \* what the host had when it sent what `view' was read from
  reported      \* the guest's channel was open at its last tick

host   == <<ball, left, left_score, right_score, mirror>>
guest  == <<right, view, basis>>
vars   == <<host, guest, in_game, open, wire, reported>>
Roles  == {"host", "guest"}

Clamp(v, lo, hi) == IF v < lo THEN lo ELSE IF v > hi THEN hi ELSE v

-----------------------------------------------------------------------------
(* Numbers and characters.  A digit is itself. *)

Minus == 10
Space == 11
S     == 12
P     == 13
IsDigit(c) == c \in 0 .. 9

\* (int) of a number of fifths drops the fraction.
Whole(fifths) == IF fifths < 0 THEN -((-fifths) \div 5) ELSE fifths \div 5

\* What is left of n after k divisions by ten, and how many there are until
\* nothing is: one for 0.
Quotients(n) ==
  LET Quotient[k \in 0 .. n + 1] == IF k = 0 THEN n ELSE Quotient[k - 1] \div 10
  IN Quotient
Places(n) ==
  CHOOSE k \in 1 .. n + 1 :
    Quotients(n)[k] = 0 /\ \A j \in 1 .. k - 1 : Quotients(n)[j] # 0

\* Every division leaves a digit, and the last is written first.
Digits == [n \in Nat |->
  [i \in 1 .. Places(n) |-> Quotients(n)[Places(n) - i] % 10]]

int_to_str(n) == IF n < 0 THEN <<Minus>> \o Digits[-n] ELSE Digits[n]

\* The first place from i on that holds a character of the kind, or the end.
FirstFrom(s, i, Kind(_)) ==
  CHOOSE j \in i .. Len(s) + 1 :
    /\ j <= Len(s) => Kind(s[j])
    /\ \A k \in i .. j - 1 : ~ Kind(s[k])

\* A variant: the sign is skipped with the separator.
skip_to_digit(s, i) == FirstFrom(s, i, IsDigit)

skip_sep(s, i) == FirstFrom(s, i, LAMBDA c : c = Minus \/ IsDigit(c))

\* The number that starts at i, and the place behind it.
parse_int(s, i) ==
  LET Unsigned == [first \in 1 .. Len(s) + 1 |->
        LET end == FirstFrom(s, first, LAMBDA c : ~ IsDigit(c))
            Number[k \in 0 .. end - first] ==
              IF k = 0 THEN 0 ELSE 10 * Number[k - 1] + s[first + k - 1]
        IN <<Number[end - first], end>>]
      Negated(p) == <<-p[1], p[2]>>
  IN IF i <= Len(s) /\ s[i] = Minus THEN Negated(Unsigned[i + 1]) ELSE Unsigned[i]

\* The first `count' numbers behind the letter.
Values(s, count) ==
  LET Behind == [i \in 2 .. Len(s) + 1 |-> parse_int(s, skip_sep(s, i))]
      Read[k \in 0 .. count] == IF k = 0 THEN <<0, 2>> ELSE Behind[Read[k - 1][2]]
  IN [k \in 1 .. count |-> Read[k][1]]

\* A letter and numbers, each after a space.
Text(letter, numbers) ==
  LET Written[k \in 0 .. Len(numbers)] ==
        IF k = 0 THEN <<letter>>
        ELSE Written[k - 1] \o <<Space>> \o int_to_str(numbers[k])
  IN Written[Len(numbers)]

-----------------------------------------------------------------------------
(* The channel. *)

\* rtc.send drops what it is given unless the channel is open.
Send(from, to, text, of) ==
  IF open[from]
  THEN /\ Len(wire[to]) < MaxInFlight
       /\ wire' = [wire EXCEPT ![to] = Append(@, [text |-> text, of |-> of])]
  ELSE UNCHANGED wire

\* A variant: the channel is not ordered.
Unordered(e) == DOMAIN wire[e]

\* The messages that may arrive at e next: { ordered: true }.
Arriving(e) == {i \in DOMAIN wire[e] : i = 1}

\* The browser takes a message off the channel, for on_peer_message.
Deliver(e, i) ==
  /\ open[e] /\ UNCHANGED open
  /\ wire' = [wire EXCEPT ![e] = RemoveAt(@, i)]

\* The channel opens at one end and then the other, at any time or never.
Open(e) ==
  /\ in_game[e] /\ ~ open[e]
  /\ open' = [open EXCEPT ![e] = TRUE]
  /\ UNCHANGED <<host, guest, in_game, wire, reported>>

\* The match ends for e: rtc.close and stop_game.
Stop(e) ==
  /\ in_game[e]
  /\ in_game' = [in_game EXCEPT ![e] = FALSE]
  /\ open' = [open EXCEPT ![e] = FALSE]
  /\ wire' = [wire EXCEPT ![e] = <<>>]
  /\ UNCHANGED <<host, guest, reported>>

-----------------------------------------------------------------------------
(* The engines. *)

\* start_game on both sides.
Init ==
  /\ ball = Serve /\ left = LEFT_HOME /\ left_score = 0 /\ right_score = 0
  /\ mirror = RIGHT_HOME /\ right = RIGHT_HOME
  /\ basis = <<Serve[1], Serve[2], LEFT_HOME[1], LEFT_HOME[2], 0, 0>>
  /\ view = <<Whole(Serve[1]), Whole(Serve[2]), LEFT_HOME[1], LEFT_HOME[2], 0, 0>>
  /\ in_game = [e \in Roles |-> TRUE]
  /\ open = [e \in Roles |-> FALSE]
  /\ wire = [e \in Roles |-> <<>>]
  /\ reported = FALSE

\* What send_state writes behind the letter.
State(b, l, m, ls, rs) ==
  <<Whole(b[1]), Whole(b[2]), l[1], l[2], m[1], m[2], ls, rs>>

\* A tick of the host: its paddle is at l now and the ball at b, `ls' and `rs'
\* goals have been scored in it, and the state is sent.
HostTick(b, l, ls, rs) ==
  /\ in_game["host"]
  /\ left' = l
  /\ ball' = b
  /\ left_score' = left_score + ls /\ left_score' <= MaxScore
  /\ right_score' = right_score + rs /\ right_score' <= MaxScore
  /\ UNCHANGED <<mirror, guest, in_game, open, reported>>
  /\ Send("host", "guest", Text(S, State(b, l, mirror, left_score', right_score')),
          <<b[1], b[2], l[1], l[2], left_score', right_score'>>)

\* A tick of the guest: its paddle moves, then send_paddle.
GuestTick(r) ==
  /\ in_game["guest"]
  /\ right' = r
  /\ reported' = open["guest"]
  /\ UNCHANGED <<host, view, basis, in_game, open>>
  /\ Send("guest", "host", Text(P, <<r[1], r[2]>>), <<>>)

\* A variant: each side waits for the messages it sends itself.
OwnLetter(e) == IF e = "host" THEN S ELSE P

\* The letter an engine listens to in its role.
Letter(e) == IF e = "host" THEN P ELSE S

\* A variant: the guest adopts what the host has of its paddle.
AdoptOwnPaddle(vals) == <<vals[5], vals[6]>>

\* vals[4] and vals[5] of the code are skipped.
KeepOwnPaddle(vals) == right

\* on_peer_message on the host.
HearPaddle(text) ==
  /\ UNCHANGED <<ball, left, left_score, right_score, guest>>
  /\ \E vals \in {Values(text, 2)} :
       mirror' = <<Clamp(vals[1], RIGHT_X_MIN, RIGHT_X_MAX),
                   Clamp(vals[2], 0, PADDLE_Y_MAX)>>

\* on_peer_message on the guest.
HearState(text, of) ==
  /\ basis' = of
  /\ UNCHANGED host
  /\ \E vals \in {Values(text, 8)} :
       /\ view' = <<vals[1], vals[2], vals[3], vals[4], vals[7], vals[8]>>
       /\ right' = KeepOwnPaddle(vals)

Hear(e, text, of) ==
  IF Len(text) < 2 \/ text[1] # Letter(e) THEN UNCHANGED <<host, guest>>
  ELSE IF e = "host" THEN HearPaddle(text) ELSE HearState(text, of)

on_peer_message(e) ==
  \E i \in Arriving(e) :
    /\ Deliver(e, i)
    /\ Hear(e, wire[e][i].text, wire[e][i].of)
    /\ UNCHANGED <<in_game, reported>>

\* The ball moves, or a side scores and there is a serve.
SomeHostTick == \E l \in LeftPlaces :
  \/ \E b \in BallPlaces : HostTick(b, l, 0, 0)
  \/ HostTick(Serve, l, 1, 0) \/ HostTick(Serve, l, 0, 1)
SomeGuestTick == \E r \in RightPlaces : GuestTick(r)

Next ==
  \/ SomeHostTick \/ SomeGuestTick
  \/ \E e \in Roles : Open(e) \/ Stop(e) \/ on_peer_message(e)

\* The host's browser goes on calling tick, and the guest's delivers what
\* arrives: only on_peer_message takes a message off and leaves the channel
\* open.
Spec ==
  /\ Init /\ [][Next]_vars
  /\ WF_vars(SomeHostTick) /\ WF_wire(\E i \in Arriving("guest") : Deliver("guest", i))

-----------------------------------------------------------------------------
(* Properties. *)

\* What the guest shows is one snapshot of the host's: the ball less than a
\* pixel off and on its side of the canvas's edges, the host's paddle and the
\* scores exactly, every number in its place.
GuestShowsASnapshot ==
  /\ \A c \in {1, 2} : 5 * view[c] - basis[c] \in -4 .. 4
  /\ \A c \in 3 .. 6 : view[c] = basis[c]

\* The scores the guest shows never go back, and are never ahead of the host's.
ScoresNeverGoBack ==
  [][/\ view'[5] \in view[5] .. left_score'
     /\ view'[6] \in view[6] .. right_score']_vars

\* When the host has heard all that the guest has said, it has the guest's
\* paddle where the guest shows it: own moves are never taken back by what the
\* host knew earlier.
MirrorCatchesUp ==
  reported /\ open["host"] /\ wire["host"] = <<>> => mirror = right

\* While the channel is open at both ends, every goal of either side comes to
\* be shown by the guest.
BothOpen == open["host"] /\ open["guest"]
ScoresArrive ==
  \A n \in 1 .. MaxScore :
    /\ left_score >= n /\ BothOpen ~> view[5] >= n \/ ~ BothOpen
    /\ right_score >= n /\ BothOpen ~> view[6] >= n \/ ~ BothOpen

=============================================================================
