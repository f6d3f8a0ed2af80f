------------------------------ MODULE MCHomeFeed ------------------------------
(***************************************************************************)
(* The instance of HomeFeed for TLC; its numbers are in MCHomeFeed.cfg.    *)
(***************************************************************************)
EXTENDS HomeFeed
=============================================================================
