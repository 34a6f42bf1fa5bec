SPECIFICATION CommandSpec
CONSTANTS
  OutputLimit = 1
  MaxChunks = 2
INVARIANTS TreeTerminated
\* A command ends.
CHECK_DEADLOCK FALSE
