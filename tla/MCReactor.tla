------------------------------ MODULE MCReactor ------------------------------
(* The event loop with three clients and descriptors for two of them. *)
EXTENDS Reactor

=============================================================================
