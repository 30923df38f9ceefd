SPECIFICATION Spec
CONSTANTS
  m1 = m1
  m2 = m2
  n1 = n1
  n2 = n2
  n3 = n3
  n4 = n4
  none = none
  Machines <- MCMachines
  Nodes <- MCNodes
  NodesOf <- MCNodesOf
  MaxAdds = 3
  MaxFaults = 0
  MaxSessions = 0
  NoMachine = none
\* Only the bound on additions stops the model.
CHECK_DEADLOCK FALSE
INVARIANT ValuesReachServedMachines
