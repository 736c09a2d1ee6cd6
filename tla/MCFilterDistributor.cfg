CONSTANTS
  DF <- MCDF
  Filters <- MCFilters
  Messages <- MCMessages
  MaxHandle = 3
SPECIFICATION Spec
INVARIANTS
  TypeOK
  UpstreamCoversClients
PROPERTIES
  ImplementsPubSub
