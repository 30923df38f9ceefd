SPECIFICATION FairSpec
CONSTANTS
  base = base
  tool = tool
  robot = robot
  vendor = vendor
  model = model
  other = other
  foreign = foreign
  null = null
  unset = unset
  undefined = undefined
  Types <- MCTypes
  NoType = null
  Unset = unset
  Undefined = undefined
  SuperOf <- MCSuperOf
  Known <- MCKnown
  MaxFailures = 2
INVARIANTS
  KnownTypeIsSuperType
PROPERTIES
  ImplementsLookup
  SearchTerminates
