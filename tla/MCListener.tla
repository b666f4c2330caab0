------------------------------- MODULE MCListener -------------------------------
(* Small instances of Listener for TLC. *)
EXTENDS Listener, TLC

MCSymmetry == Permutations(Clients) \cup Permutations(Channels)
================================================================================
