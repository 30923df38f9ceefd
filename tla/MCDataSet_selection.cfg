SPECIFICATION Spec
CONSTANTS
  Nodes <- MCNodes
  StartNode = "machine"
  StartType = "MachineType"
  TypeMaps <- MCTypeMaps
  Servers <- MCServers
  MaxFailures = 2
\* A data set that was refused or has all its values does nothing more.
CHECK_DEADLOCK FALSE
INVARIANTS
  AcceptedIsComplete
  CompleteIsSelected
  VariablesMonitoredOnce
  PayloadTrue
  OnlyKnownTerminations
