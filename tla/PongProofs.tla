----------------------------- MODULE PongProofs ------------------------------
(* Theorems about the host's engine, for courts of any size. *)
EXTENDS Pong, TLAPS

\* A whole number of strides.
Strides(x) == x \in Int /\ x % 4 = 0

\* What the ball's velocity can be.  The serve's, and what strides of a paddle
\* add to it, is 1 or 11 over a multiple of 12; the limit is 10 or 2 over one.
Alive(vx) ==
  /\ vx \in -MAX_BALL_VX .. MAX_BALL_VX
  /\ vx % 12 \in {1, 2, 10, 11}

\* Inductive: the velocity keeps out of the residue of zero because paddles
\* stand, and so move, in whole strides.
IInv ==
  /\ InBounds
  /\ Alive(ball_vx)
  /\ Strides(left_x) /\ Strides(left_vx)
  /\ Strides(right_x) /\ Strides(right_vx)

LEMMA CourtFacts ==
  /\ Strides(0)
  /\ Strides(HALF_W) /\ Strides(LEFT_X_MAX) /\ Strides(RIGHT_X_MIN)
  /\ Strides(RIGHT_X_MAX) /\ Strides(LEFT_HOME_X) /\ Strides(RIGHT_HOME_X)
  /\ 0 <= LEFT_X_MAX /\ RIGHT_X_MIN <= RIGHT_X_MAX
  /\ LEFT_HOME_X \in 0 .. LEFT_X_MAX
  /\ RIGHT_HOME_X \in RIGHT_X_MIN .. RIGHT_X_MAX
  /\ ServeX \in -Fifths(BALL_SIZE) .. Fifths(CANVAS_W)
BY PongAssumption
   DEF HALF_W, LEFT_X_MAX, RIGHT_X_MIN, RIGHT_X_MAX, LEFT_HOME_X,
       RIGHT_HOME_X, ServeX, Fifths, Strides

\* A move of a paddle is of whole strides and ends within its half.
LEMMA MoveInStrides ==
  ASSUME NEW x, Strides(x), NEW dx \in -1 .. 1,
         NEW lo, Strides(lo), NEW hi, Strides(hi), lo <= hi
  PROVE  /\ Move(x, dx, lo, hi) \in lo .. hi
         /\ Strides(Move(x, dx, lo, hi))
         /\ Strides(Move(x, dx, lo, hi) - x)
BY DEF Move, Clamp, PADDLE_SPEED_X, Strides

\* A collision keeps the velocity within the limit and out of zero's residue.
LEMMA BounceAlive ==
  ASSUME NEW vx, Alive(vx), NEW paddle_vx, Strides(paddle_vx)
  PROVE  Alive(Bounce(vx, paddle_vx))
BY DEF Bounce, Clamp, Boost, MAX_BALL_VX, Alive, Strides

LEMMA ReversedAlive ==
  ASSUME NEW vx, Alive(vx)
  PROVE  Alive(-vx)
BY DEF Alive, MAX_BALL_VX

LEMMA ServeAlive == Alive(Serve(1)) /\ Alive(Serve(-1))
<1>1. Alive(Serve(1))
  BY DEF Serve, BALL_SPEED_X, MAX_BALL_VX, Alive
<1>2. Serve(-1) = -Serve(1)
  BY DEF Serve, BALL_SPEED_X
<1> QED
  BY <1>1, <1>2, ReversedAlive

LEMMA InitIInv == Init => IInv
<1> SUFFICES ASSUME Init PROVE IInv
  OBVIOUS
<1>1. Alive(ball_vx)
  BY ServeAlive DEF Init
<1>2. InBounds
  BY <1>1, CourtFacts DEF Init, InBounds, Events, Alive
<1> QED
  BY <1>1, <1>2, CourtFacts DEF Init, IInv

LEMMA PeerIInv ==
  ASSUME IInv, NEW x \in GuestPlaces, PeerPaddle(x)
  PROVE  IInv'
<1>1. Strides(right_x) /\ Strides(RIGHT_X_MIN) /\ Strides(RIGHT_X_MAX)
  BY CourtFacts DEF IInv
<1>2. Strides(x) /\ x \in RIGHT_X_MIN .. RIGHT_X_MAX
  BY <1>1 DEF GuestPlaces, Strides, PADDLE_SPEED_X
<1>3. right_x' = x /\ right_vx' = x - right_x
  BY <1>1, <1>2 DEF PeerPaddle, Clamp, Strides
<1>4. Strides(right_x') /\ Strides(right_vx')
  BY <1>1, <1>2, <1>3 DEF Strides
<1> QED
  BY <1>2, <1>3, <1>4 DEF PeerPaddle, IInv, InBounds

LEMMA TickIInv ==
  ASSUME IInv, NEW dx \in -1 .. 1,
         NEW level_left \in BOOLEAN, NEW level_right \in BOOLEAN,
         Tick(dx, level_left, level_right)
  PROVE  IInv'
<1> DEFINE new_x == Move(left_x, dx, 0, LEFT_X_MAX)
           x     == ball_x + ball_vx
           hit_l == level_left /\ Overlaps(x, new_x) /\ ball_vx < 0
           vx_l  == IF hit_l THEN Bounce(ball_vx, new_x - left_x) ELSE ball_vx
           hit_r == level_right /\ Overlaps(x, right_x) /\ vx_l > 0
           vx_r  == IF hit_r THEN Bounce(vx_l, right_vx) ELSE vx_l
           in_left  == x + Fifths(BALL_SIZE) < 0
           in_right == x > Fifths(CANVAS_W)
<1>1. Strides(left_x) /\ Strides(right_vx) /\ Alive(ball_vx)
  BY DEF IInv
<1>2. new_x \in 0 .. LEFT_X_MAX /\ Strides(new_x) /\ Strides(new_x - left_x)
  BY <1>1, CourtFacts, MoveInStrides
<1> HIDE DEF new_x
<1>3. Alive(vx_l)
  BY <1>1, <1>2, BounceAlive
<1> HIDE DEF vx_l
<1>4. Alive(vx_r)
  BY <1>1, <1>3, BounceAlive
<1> HIDE DEF vx_r
<1>5. /\ left_x' = new_x /\ left_vx' = new_x - left_x
      /\ ball_x' = IF in_left \/ in_right THEN ServeX ELSE x
      /\ ball_vx' = IF in_left THEN Serve(-1)
                    ELSE IF in_right THEN Serve(1) ELSE vx_r
      /\ event' \in Events
      /\ UNCHANGED <<right_x, right_vx, heard>>
  BY DEF Tick, new_x, vx_l, vx_r, Events
<1>6. Alive(ball_vx')
  BY <1>4, <1>5, ServeAlive
<1>7. ball_x' \in -Fifths(BALL_SIZE) .. Fifths(CANVAS_W)
  BY <1>1, <1>5, CourtFacts, PongAssumption
     DEF IInv, InBounds, Fifths, Alive, MAX_BALL_VX
<1> QED
  BY <1>2, <1>5, <1>6, <1>7 DEF IInv, InBounds, Alive

LEMMA Invariance == Spec => []IInv
<1>1. IInv /\ [Next]_vars => IInv'
  <2> SUFFICES ASSUME IInv, [Next]_vars PROVE IInv'
    OBVIOUS
  <2>1. CASE UNCHANGED vars
    BY <2>1 DEF vars, IInv, InBounds
  <2> QED
    BY <2>1, PeerIInv, TickIInv DEF Next, SomeTick
<1> QED
  BY <1>1, InitIInv, PTL DEF Spec

\* The ball's speed is never zero, on a court of any size: lunges, retreats and
\* the limit never add up to a ball that no goal and no serve would follow.
THEOREM NeverStalls == Spec => []BallNeverStalls
<1>1. IInv => BallNeverStalls
  BY DEF IInv, Alive, MAX_BALL_VX, BallNeverStalls
<1> QED
  BY <1>1, Invariance, PTL

\* Paddles stay in their halves, the speed within its limit and the ball between
\* the goals, on a court of any size.
THEOREM StaysInBounds == Spec => []InBounds
<1>1. IInv => InBounds
  BY DEF IInv
<1> QED
  BY <1>1, Invariance, PTL

=============================================================================
