---------------------------- MODULE MCConnection -----------------------------
(* A connection on a few items. *)
EXTENDS Connection

=============================================================================
