CONSTANTS
  Header <- MCHeader
  Size <- MCSize
  RingSize <- MCRingSize
  Streams <- MCStreams
SPECIFICATION FairSpec
INVARIANTS TypeOK Lossless InSync NilMeansComplete
PROPERTIES Terminates
