CONSTANTS
  DF <- MCDF
  Configs <- ChainConfigs
  ClientSettings <- OnlyPlain
  CommandSets <- MCCommandSets
  Messages <- MCMessages
  MaxHandle = 2
  MaxWire = 1
SPECIFICATION FairSpec
INVARIANT ClientsCovered
