SPECIFICATION Spec
CONSTANTS
  DF = {0, 4, 5, 11, 17, 18}
  timeout_interval = 2
  NsNum = 10
  NsDen = 4
  NsPerSecond = 20
  SecondsPerDay = 3
  NanoRange = 32
  StampRange = 128
  Word = 2048
INVARIANTS TypeOK TimeKept GreenMeansGps FileCurrent
