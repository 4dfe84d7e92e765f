------------------------------ MODULE MCReaper ------------------------------
(***************************************************************************)
(* Small instance of Reaper for TLC.                                       *)
(***************************************************************************)
EXTENDS Reaper
=============================================================================
