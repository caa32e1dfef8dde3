-------------------------------- MODULE MCRtc --------------------------------
(* Rtc for two pages. *)
EXTENDS Rtc

=============================================================================
