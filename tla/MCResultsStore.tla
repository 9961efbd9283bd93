--------------------------- MODULE MCResultsStore ---------------------------
(***************************************************************************)
(* ResultsStore with small tables: one Result name that is created,        *)
(* deleted and created again, one Record name, two payloads and two        *)
(* requests in flight.  The bounds let every id be replaced once.          *)
(***************************************************************************)
EXTENDS ResultsStore, TLC

ClientSymmetry == Permutations(Clients)
=============================================================================
