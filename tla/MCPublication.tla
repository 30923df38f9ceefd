---------------------------- MODULE MCPublication ----------------------------
(* One machine with two payloads; the channel holds what one Publish and one *)
(* connected() send.                                                         *)
EXTENDS Publication

CONSTANTS m1, none

MCMachines == {m1}
MCValues == {"a", "b"}
=============================================================================
