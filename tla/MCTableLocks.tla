---------------------------- MODULE MCTableLocks ----------------------------
(***************************************************************************)
(* A floor of two tables for TLC: every kind of request arrives for the    *)
(* first; the second has its orders opened, submitted to and closed and    *)
(* its bookings held and resolved, and the zone of both is edited.         *)
(***************************************************************************)
EXTENDS TableLocks, TLC

CONSTANTS t1, t2, ann, evening, none, s1, s2

TwoInOrder == <<t1, t2>>
ForEveryTable == {"open", "close", "submit", "zone", "hold", "resolve"}
AllForTheFirst == {r \in Requests : r.op \in ForEveryTable \/ r.t = t1}

SessionSymmetry == Permutations(Sessions)
=============================================================================
