------------------------------ MODULE MCLocks ------------------------------
(* The three threads of the gateway; the programs are finite, their loops   *)
(* take any number of turns.                                                *)
EXTENDS Locks
=============================================================================
