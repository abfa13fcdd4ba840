SPECIFICATION Spec
CONSTANTS
  BlockSize = 2
  Inflight = 2
  AllocSize = {1, 3}
  MaxBlocks = 4
INVARIANTS WithinBlock CommandsReadWhatWasWritten FreeIsUnused
