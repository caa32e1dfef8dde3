SPECIFICATION Spec
CONSTANTS
  CANVAS_W = 24
  BALL_SIZE = 2
  PADDLE_W = 4
  PADDLE_INSET = 4
PROPERTY
  NoDoubleBounce
CHECK_DEADLOCK FALSE
