----------------------------- MODULE MCWebLobby ------------------------------
(* WebLobby on small sets of pages. *)
EXTENDS WebLobby

=============================================================================
