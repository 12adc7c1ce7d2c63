---------------------------- MODULE MCTableFloor ----------------------------
(* A small floor for TLC. *)
EXTENDS TableFloor, TLC

CONSTANTS t1, t2, ann, bob, evening, night, none

FloorSymmetry == Permutations(Tables) \cup Permutations(Guests)
=============================================================================
