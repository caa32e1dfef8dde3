----------------------------- MODULE MCPongSync ------------------------------
(* PongSync with a ball that is past the left goal line but not out yet and one
   in the upper right corner, and two places of each paddle, a stride apart. *)
EXTENDS PongSync

BallPlacesMC  == {<<-58, 1467>>, <<3998, 4>>}
LeftPlacesMC  == {<<24, 255>>, <<28, 249>>}
RightPlacesMC == {<<764, 255>>, <<760, 261>>}

=============================================================================
