CONSTANTS
  DF <- MCDF
  InitialSettings <- MCInitial
  Requests <- MCRequests
  MaxMessages = 4
SPECIFICATION ServedSpec
INVARIANTS
  TypeOK
  OneFlush
  InOrder
  RequestObeyed
PROPERTIES
  Released
  FlushDelivers
CHECK_DEADLOCK FALSE
