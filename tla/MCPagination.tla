---------------------------- MODULE MCPagination ----------------------------
(***************************************************************************)
(* Tables of up to three rows and pages of one or two.                     *)
(***************************************************************************)
EXTENDS Pagination

\* summary.end_time: a time, or NULL while the run is going on.
NullableKeys == {1, Null}
=============================================================================
