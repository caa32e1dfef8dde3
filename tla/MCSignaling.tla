----------------------------- MODULE MCSignaling -----------------------------
(* Signaling on small sets of players, all of them interchangeable. *)
EXTENDS Signaling, TLC

PlayerSymmetry == Permutations(Players)

=============================================================================
