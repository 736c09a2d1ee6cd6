CONSTANTS
  DF <- MCDF
  Configs <- SerialConfigs
  ClientSettings <- OnlyK
  CommandSets <- MCCommandSets
  Messages <- MCMessages
  MaxHandle = 2
  MaxWire = 1
SPECIFICATION FairSpec
INVARIANT NoUnwantedSurveillance
