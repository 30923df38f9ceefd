------------------------- MODULE MCMachineObserver -------------------------
(* Two machines, of which the second may be one the code ignores.  The      *)
(* blacklist skips 2 rounds, the fewest that tell a skipped round from the  *)
(* end of the skipping.                                                     *)
EXTENDS MachineObserver

CONSTANTS m1, m2, none

MCMachines == {m1, m2}
MCIgnoredOne == {m2}
=============================================================================
