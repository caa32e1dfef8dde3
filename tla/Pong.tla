-------------------------------- MODULE Pong ---------------------------------
(***************************************************************************)
(* The host's game engine (src/client/main.cpp) along the axis between the *)
(* goals: the two paddles, the ball, collisions and goals.                 *)
(*                                                                         *)
(* The ball's position and velocity are in fifths of a pixel, so that      *)
(* PADDLE_BOOST, 0.6 of the paddle's speed, is exact; the paddles are in   *)
(* pixels.  Whether the ball is level with a paddle is left open: the      *)
(* vertical axis decides nothing else here.                                *)
(***************************************************************************)
EXTENDS Integers

CONSTANTS
  CANVAS_W, BALL_SIZE, PADDLE_W, PADDLE_INSET   \* in pixels

HALF_W       == CANVAS_W \div 2
LEFT_HOME_X  == PADDLE_INSET
RIGHT_HOME_X == CANVAS_W - PADDLE_INSET - PADDLE_W
LEFT_X_MAX   == HALF_W - PADDLE_W
RIGHT_X_MIN  == HALF_W
RIGHT_X_MAX  == CANVAS_W - PADDLE_W

PADDLE_SPEED_X == 4          \* pixels
BALL_SPEED_X   == 25         \* fifths of a pixel, like what follows
MAX_BALL_VX    == 70
Boost(paddle_vx) == 3 * paddle_vx
Fifths(pixels)   == 5 * pixels

\* 800, 14, 12 and 24 in the code.  The places a paddle may stop at are whole
\* strides apart.
ASSUME PongAssumption ==
  /\ CANVAS_W \in Nat /\ BALL_SIZE \in Nat /\ PADDLE_W \in Nat
  /\ PADDLE_INSET \in Nat
  /\ CANVAS_W % 8 = 0 /\ PADDLE_W % 4 = 0 /\ PADDLE_INSET % 4 = 0
  /\ BALL_SIZE % 2 = 0
  /\ PADDLE_INSET + PADDLE_W <= HALF_W

VARIABLES
  ball_x, ball_vx,      \* in fifths of a pixel
  left_x, left_vx,      \* the host's paddle, and its last move
  right_x, right_vx,    \* the guest's, as the host has heard of it
  heard,                \* a message of the guest has arrived
  \* History variable: what the last step did to the ball.
  event                 \* "hit left", "hit right", "hit both", "goal", "none"

vars == <<ball_x, ball_vx, left_x, left_vx, right_x, right_vx, heard, event>>

Events == {"none", "hit left", "hit right", "hit both", "goal"}

Clamp(v, lo, hi) == IF v < lo THEN lo ELSE IF v > hi THEN hi ELSE v

\* One stride of a paddle, or none, within its half.
Move(x, dx, lo, hi) == Clamp(x + dx * PADDLE_SPEED_X, lo, hi)

\* reset_ball's horizontal half.
ServeX == Fifths(HALF_W) - Fifths(BALL_SIZE) \div 2
Serve(direction) == direction * BALL_SPEED_X

-----------------------------------------------------------------------------

\* start_game(0).
Init ==
  /\ ball_x = ServeX
  /\ ball_vx = Serve(1)
  /\ left_x = LEFT_HOME_X /\ left_vx = 0
  /\ right_x = RIGHT_HOME_X /\ right_vx = 0
  /\ heard = FALSE
  /\ event = "none"

\* Where the guest's paddle may stand.
GuestPlaces == {x \in RIGHT_X_MIN .. RIGHT_X_MAX : x % PADDLE_SPEED_X = 0}

\* A "P x y" from the guest, who sends one a tick and moves a stride at most
\* between two.  None gets through before the data channel opens, so the first
\* may be from anywhere.  Several may come between two ticks of the host, or
\* none.
PeerPaddle(x) ==
  LET new_x == Clamp(x, RIGHT_X_MIN, RIGHT_X_MAX) IN
  /\ heard => x - right_x \in {-PADDLE_SPEED_X, 0, PADDLE_SPEED_X}
  /\ right_vx' = new_x - right_x
  /\ right_x' = new_x
  /\ heard' = TRUE
  /\ UNCHANGED <<ball_x, ball_vx, left_x, left_vx, event>>

Overlaps(x, paddle_x) ==
  /\ x + Fifths(BALL_SIZE) >= Fifths(paddle_x)
  /\ x <= Fifths(paddle_x) + Fifths(PADDLE_W)

\* A variant: a moving paddle takes all the speed.
BounceDead(vx, paddle_vx) == IF paddle_vx = 0 THEN -vx ELSE 0

\* A variant: the speed is not limited.
BounceUnlimited(vx, paddle_vx) == -vx + Boost(paddle_vx)

\* The velocity after a collision: reversed, plus a part of the paddle's.
Bounce(vx, paddle_vx) ==
  Clamp(-vx + Boost(paddle_vx), -MAX_BALL_VX, MAX_BALL_VX)

\* One tick of the host: its own paddle, then simulate_ball.  The right paddle
\* is tried after the left one, with the velocity the left one left.
Tick(dx, level_left, level_right) ==
  LET new_x   == Move(left_x, dx, 0, LEFT_X_MAX)
      x       == ball_x + ball_vx
      hit_l   == level_left /\ Overlaps(x, new_x) /\ ball_vx < 0
      vx_l    == IF hit_l THEN Bounce(ball_vx, new_x - left_x) ELSE ball_vx
      hit_r   == level_right /\ Overlaps(x, right_x) /\ vx_l > 0
      vx_r    == IF hit_r THEN Bounce(vx_l, right_vx) ELSE vx_l
      in_left  == x + Fifths(BALL_SIZE) < 0
      in_right == x > Fifths(CANVAS_W)
  IN
  /\ left_x' = new_x
  /\ left_vx' = new_x - left_x
  /\ ball_x' = IF in_left \/ in_right THEN ServeX ELSE x
  /\ ball_vx' = IF in_left THEN Serve(-1)
                ELSE IF in_right THEN Serve(1) ELSE vx_r
  /\ event' = IF in_left \/ in_right THEN "goal"
              ELSE IF hit_l /\ hit_r THEN "hit both"
              ELSE IF hit_l THEN "hit left"
              ELSE IF hit_r THEN "hit right" ELSE "none"
  /\ UNCHANGED <<right_x, right_vx, heard>>

SomeTick ==
  \E dx \in -1 .. 1, level_left, level_right \in BOOLEAN :
    Tick(dx, level_left, level_right)

Next ==
  \/ SomeTick
  \/ \E x \in GuestPlaces : PeerPaddle(x)

Spec == Init /\ [][Next]_vars

\* The browser keeps calling tick.
FairSpec == Spec /\ WF_vars(SomeTick)

-----------------------------------------------------------------------------
(* Properties. *)

\* Paddles stay in their halves, the speed within its limit and the ball, after
\* every tick, between the goals.
InBounds ==
  /\ left_x \in 0 .. LEFT_X_MAX /\ right_x \in RIGHT_X_MIN .. RIGHT_X_MAX
  /\ ball_vx \in -MAX_BALL_VX .. MAX_BALL_VX
  /\ ball_x \in -Fifths(BALL_SIZE) .. Fifths(CANVAS_W)
  /\ heard \in BOOLEAN /\ event \in Events

\* The ball never stops: no sequence of lunges and retreats, nor the limit on
\* the speed, adds up to a velocity of zero, which no serve would follow.
BallNeverStalls == ball_vx # 0

\* Every rally goes on to another hit or a goal.
RallyGoesOn == []<>(event # "none")

\* A paddle does not hit the ball in two ticks running: "Only flips ball_vx if
\* it's heading INTO the paddle to avoid double-bounce" (main.cpp).  Every tick
\* moves the ball.
NoDoubleBounce ==
  [][\A hit \in {"hit left", "hit right"} :
       ball_x' # ball_x /\ event = hit => event' # hit]_vars

=============================================================================
