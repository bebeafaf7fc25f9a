----------------------------- MODULE MCEchoSelect -----------------------------
(* A client with one stream and one with two; a warm-up and a smaller size. *)
EXTENDS EchoSelect

CONSTANTS a, b

MCStreams == [c \in Clients |-> IF c = a THEN 1 ELSE 2]
MCSockets == {<<a, 1>>, <<b, 1>>, <<b, 2>>}
MCSizes == <<2, 1>>
=============================================================================
