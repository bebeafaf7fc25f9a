------------------------------ MODULE MCEchoTcp ------------------------------
(* A warm-up and two sizes, none of them larger than a segment.            *)
EXTENDS EchoTcp

MCSizes == <<3, 1, 3>>
=============================================================================
