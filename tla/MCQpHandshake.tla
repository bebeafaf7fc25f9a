--------------------------- MODULE MCQpHandshake ---------------------------
(* Small instances of QpHandshake: three clients race for one server, with *)
(* a listen queue of two, so that one is accepted, one is reset and one    *)
(* finds the queue full or the socket closed.                              *)
EXTENDS QpHandshake
=============================================================================
