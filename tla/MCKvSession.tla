---------------------------- MODULE MCKvSession ----------------------------
(* Small instances of KvSession.  With PACKET_SIZE = 2 and a limit of 8,   *)
(* values of length 1 are eager and values of length 5 or more are not.    *)
EXTENDS KvSession, TLC

CONSTANTS s1, s2, m1, m2, x1, k1, k2

MCKeyLen == [k \in Keys |-> 1]

\* s: small; m: large; x: longer than what a get of an m reads, NUL included.
MCValLen == [v \in Values |-> CASE v \in {s1, s2} -> 1
                                [] v \in {m1, m2} -> 5
                                [] OTHER -> 8]

AnySize == Keys \X Values

\* Every key keeps to small or to large values.
FixedSize == {k1} \X {s1, s2} \cup {k2} \X {m1, m2}

BlockSymmetry == Permutations(Blocks)
=============================================================================
