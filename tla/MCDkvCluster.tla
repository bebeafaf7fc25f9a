---------------------------- MODULE MCDkvCluster ----------------------------
(* Two servers and the keys "1", "2" and "12".  LONG and INT are cut so     *)
(* that the hash of "12" wraps: 1 and 12 go to one server, 2 to the other.  *)
EXTENDS DkvCluster

CONSTANTS s1, s2, m1, m2, k1, k2, k12

MCKeyBytes == [k \in Keys |-> CASE k = k1 -> <<49>>
                                [] k = k2 -> <<50>>
                                [] OTHER -> <<49, 50>>]

\* No definition tells blocks apart: one free block stands for all.
MCOffered ==
  [free \in SUBSET Blocks |->
     IF free = {} THEN {} ELSE {CHOOSE b \in free : TRUE}]
=============================================================================
