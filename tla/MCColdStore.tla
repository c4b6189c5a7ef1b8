---------------------------- MODULE MCColdStore ----------------------------
(* Finite instance of ColdStore.                                           *)
EXTENDS ColdStore, TLC
=============================================================================
