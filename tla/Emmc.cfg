SPECIFICATION Spec
CONSTANTS
  Blocks = 4
  DefaultBlocks = 3
  BootBlocks = 3
  ExtCsdValues = {0, 4}
  MaxTransfer = 3
  PerDescriptor = 2
  BufferBlocks = 2
  BlockSize = 2
  Word = 16
  MaxRetry = 2
  Requests <- MCRequests
  LateAnswers = FALSE
  NoRequest = NoRequest
INVARIANTS
  InitialisedIsSelected
PROPERTIES
  
  NoSpuriousFailure
  EveryCallReturns
