--------------------------- MODULE MCSubscription ---------------------------
(* Two machines with two nodes each and three additions, so that a machine   *)
(* is removed and added again beside another one.                            *)
EXTENDS Subscription, TLC

CONSTANTS m1, m2, n1, n2, n3, n4, none

MCMachines == {m1, m2}
MCNodes == {n1, n2, n3, n4}
MCNodesOf == (m1 :> {n1, n2}) @@ (m2 :> {n3, n4})
=============================================================================
