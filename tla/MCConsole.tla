---------------------------- MODULE MCConsole ----------------------------
(***************************************************************************)
(* The frontend opened at any of its data views, for a few clicks.  The    *)
(* answers come and fail freely; a result has two pages until restricted; *)
(* nothing falls in the first range chosen, and no device matches.         *)
(***************************************************************************)
EXTENDS Console

DataRoutes == {r \in Routes : ViewAt(r).hook # "none"}
=============================================================================
