------------------------------ MODULE MCSession ------------------------------
(***************************************************************************)
(* Instances of Session for TLC.  MaxInFlight = 2 is enough for every pair *)
(* of requests to be answered in both orders, 3 for a third to dismiss the *)
(* spinner of either.                                                      *)
(***************************************************************************)
EXTENDS Session

=============================================================================
