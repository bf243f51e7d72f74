---------------------------- MODULE MCVideoPipe ----------------------------
(* Instances of VideoPipe for TLC: the clients are interchangeable. *)
EXTENDS VideoPipe, TLC

ClientSymmetry == Permutations(Clients)
=============================================================================
