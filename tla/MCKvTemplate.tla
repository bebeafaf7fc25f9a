---------------------------- MODULE MCKvTemplate ----------------------------
(* Keys of one character; x and y are of one length, z is longer.          *)
EXTENDS KvTemplate

CONSTANTS x, y, z, k1, k2

MCValLen == [v \in Values |-> IF v = z THEN 3 ELSE 2]
=============================================================================
