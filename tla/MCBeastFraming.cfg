CONSTANTS
  MetadataSize = 1
  message_size <- MCsize
  Sources <- MCSources
  Resumed <- MCResumed
  MessageLists <- MCMessageLists
  Noise <- MCNoise
  NoiseLen = 6
SPECIFICATION FairSpec
INVARIANTS
  TypeOK
  ChunkIndependent
  BadBytesNotOvercounted
  RoundTrip
PROPERTY
  ParseEnds
