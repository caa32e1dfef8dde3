------------------------------- MODULE MCFrame -------------------------------
(* Frames whose lengths lie around every limit of frame.cpp. *)
EXTENDS Frame

Around(n) == {n - 1, n, n + 1}
LengthsMC == {0, 1} \union Around(126) \union Around(65536) \union Around(1048576)

=============================================================================
