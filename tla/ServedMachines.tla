--------------------------- MODULE ServedMachines ---------------------------
(****************************************************************************)
(* What the machine observer promises to the rest of the gateway and to the *)
(* broker, without its threads, maps and rounds: which machines are served, *)
(* who may become served and who may be withdrawn.                          *)
(*                                                                          *)
(*   - A machine is served only after it was found complete while it was    *)
(*     listed and not served, one machine at a time.                        *)
(*   - Served machines are withdrawn on a verdict only: all of them when    *)
(*     the server lists other machines than before, or else exactly those   *)
(*     whose identification could not be read.                              *)
(*   - A verdict is carried out before anything else is judged.             *)
(*   - The end of the observer, orderly or not, withdraws all of them.      *)
(****************************************************************************)
CONSTANTS Machines, IgnoredNodes, NoMachine

VARIABLES
    plant, session,   \* what the server offers (as in MachineObserver)
    alive,            \* an observer exists
    list,             \* the machines of the last list that was accepted
    served,           \* machines with a client
    leaving,          \* served machines under a verdict
    accepted          \* the machine found complete, if any

vars == <<plant, session, alive, list, served, leaving, accepted>>
world == <<plant, session>>

Offered == {m \in Machines : plant[m] # "absent"}
Readable(m) == session /\ plant[m] \in {"invalid", "good"}

Init ==
    /\ plant \in [Machines -> {"absent", "offline", "invalid", "good"}]
    /\ session \in BOOLEAN
    /\ alive = TRUE
    /\ list = {}
    /\ served = {}
    /\ leaving = {}
    /\ accepted = NoMachine

\* The server lists other machines: everything served is under a verdict.
NewList ==
    /\ alive /\ session /\ leaving = {} /\ accepted = NoMachine
    /\ Offered # list
    /\ list' = Offered
    /\ leaving' = served
    /\ UNCHANGED <<world, alive, served, accepted>>

\* The identifications are read; what cannot be read is under a verdict.
Judge ==
    /\ alive /\ leaving = {} /\ accepted = NoMachine
    /\ leaving' = {m \in served : ~Readable(m)}
    /\ UNCHANGED <<world, alive, list, served, accepted>>

Withdraw(m) ==
    /\ m \in leaving
    /\ served' = served \ {m}
    /\ leaving' = leaving \ {m}
    /\ UNCHANGED <<world, alive, list, accepted>>

Accept(m) ==
    /\ alive /\ leaving = {} /\ accepted = NoMachine
    /\ m \in list \ (served \cup IgnoredNodes)
    /\ plant[m] = "good"
    /\ accepted' = m
    /\ UNCHANGED <<world, alive, list, served, leaving>>

Serve ==
    /\ accepted # NoMachine
    /\ served' = served \cup {accepted}
    /\ accepted' = NoMachine
    /\ UNCHANGED <<world, alive, list, leaving>>

End ==
    /\ alive' = FALSE
    /\ list' = {} /\ served' = {} /\ leaving' = {} /\ accepted' = NoMachine
    /\ UNCHANGED world

Restart ==
    /\ ~alive
    /\ alive' = TRUE
    /\ UNCHANGED <<world, list, served, leaving, accepted>>

WorldChanges ==
    /\ plant' \in [Machines -> {"absent", "offline", "invalid", "good"}]
    /\ session' \in BOOLEAN
    /\ UNCHANGED <<alive, list, served, leaving, accepted>>

Next ==
    \/ NewList \/ Judge \/ Serve
    \/ \E m \in Machines : Withdraw(m) \/ Accept(m)
    \/ End \/ Restart \/ WorldChanges

Spec == Init /\ [][Next]_vars
=============================================================================
