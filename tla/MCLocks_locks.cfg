SPECIFICATION Spec
INVARIANTS
    NoWaitCycle
    RacesAreKnown
