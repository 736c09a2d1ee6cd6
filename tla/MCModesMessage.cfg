SPECIFICATION MessageSpec
CONSTANTS
  DF <- MCDF
  Codewords <- MCCodewords
  Choices <- MCChoices
INVARIANTS ResidualIsRemainder CleanData AsReceived
