---------------------------- MODULE MCWebServer ----------------------------
(* Five files for three servers.  With a limit of 4 and memory regions of  *)
(* 8: page is small, photo the largest that can be read back, full fills   *)
(* its region and huge does not fit in one.                                *)
EXTENDS WebServer

CONSTANTS page, photo, film, full, huge

MCSize == [f \in Files |-> CASE f = page -> 1 [] f = photo -> 7
                             [] f = film -> 5 [] f = full -> 8 [] OTHER -> 9]

MCHome == [f \in Files |-> CASE f \in {page, photo} -> 0 [] f = huge -> 2
                             [] OTHER -> 1]

\* The indexer and the server of film and full may die.
MCFaulty == {Indexer, 1}
=============================================================================
