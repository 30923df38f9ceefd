SPECIFICATION Spec
CONSTANTS
  connecting = connecting
  worker = worker
  none = none
  machinery = machinery
  tools = tools
  noUri = noUri
  ConnectThread = connecting
  Workers <- MCWorkers
  NoThread = none
  Uris <- MCUris
  NoUri = noUri
  Tables <- MCTables
  MaxIndex = 2
  MaxChanges = 1
INVARIANTS
  NamespaceChangeDetected
  UnchangedTableSettles
