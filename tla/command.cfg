SPECIFICATION FairSpec
CONSTANTS
  PipeCapacity = 2
  ReadMax = 2
  MaxOutput = 5
  MaxCalls = 2
INVARIANTS
  NoCircularWait
  NoDescriptorLeak
  NoChildLeft
PROPERTIES
  ImplementsPromise
  CallsReturn
