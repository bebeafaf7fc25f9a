------------------------------- MODULE MCIbPerf -------------------------------
(* ITERS is a multiple of DEPTH, as 1000 of 100.                           *)
EXTENDS IbPerf
=============================================================================
