------------------------------- MODULE MCPong --------------------------------
(* A court of a few strides. *)
EXTENDS Pong

=============================================================================
