SPECIFICATION FairSpec
CONSTANT MaxWait = 2
\* main returns.
CHECK_DEADLOCK FALSE
INVARIANTS
  ThreadsJoined
PROPERTIES
  LostSessionHandled
  ServesEventually
  SignalEndsUnlessReading
