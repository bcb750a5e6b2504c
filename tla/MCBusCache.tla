----------------------------- MODULE MCBusCache -----------------------------
(***************************************************************************)
(* A small instance of BusCache for TLC.                                   *)
(***************************************************************************)
EXTENDS BusCache, TLC
=============================================================================
