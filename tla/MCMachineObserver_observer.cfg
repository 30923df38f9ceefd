SPECIFICATION FairSpec
CONSTANTS
  m1 = m1
  m2 = m2
  none = none
  Machines <- MCMachines
  IgnoredNodes <- MCIgnoredOne
  NumSkipAfterInvalid = 2
  PublishesPerList = 1
  NoMachine = none
INVARIANTS
  RegistriesAgree
  NoUnlockedErase
  ListsDisjoint
PROPERTIES
  GoodMachineServed
  ListConverges
  StopJoins
  ImplementsServed
