CONSTANTS
  DF <- MCDF
  Configs <- MCConfigs
  ClientSettings <- MCClientSettings
  CommandSets <- MCCommandSets
  Messages <- MCMessages
  MaxHandle = 2
  MaxWire = 1
SPECIFICATION FairSpec
INVARIANTS
  TypeOK
  OutputsMatchClients
  SettingsCurrent
  ClientsCovered
PROPERTIES
  RadarcapeDetected
  LabelSettles
