SPECIFICATION FairSpec
CONSTANTS
  Bytes <- MCBytes
  Scripts <- MCScripts
  MaxLines = 3
  MaxChunk = 6
INVARIANTS CommandsAsSent RepliesAsWritten SessionKeepsOwn
PROPERTY CommandsReplied
CHECK_DEADLOCK FALSE
