SPECIFICATION FairSpec
CONSTANTS
  m1 = m1
  none = none
  Machines <- MCMachines
  NoMachine = none
  Values <- MCValues
  MaxInFlight = 3
  MaxRestarts = 1
\* After the last restart the gateway may stay down.
CHECK_DEADLOCK FALSE
INVARIANTS
  OnlineHasSession
  ConnectedIsAnnounced
PROPERTIES
  DataConverges
  OnlineConvergesUntilRestart
