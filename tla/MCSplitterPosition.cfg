CONSTANTS
  DF <- MCDF
  Configs <- RadarcapeConfigs
  ClientSettings <- OnlyPlain
  CommandSets <- MCCommandSets
  Messages <- MCMessages
  MaxHandle = 2
  MaxWire = 1
SPECIFICATION FairSpec
PROPERTY DispatchKeepsClients
