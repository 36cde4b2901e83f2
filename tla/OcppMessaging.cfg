SPECIFICATION FairSpec
CONSTANTS
  boot = boot
  start = start
  reply = reply
  l1 = l1
  l2 = l2
  NoMessage = NoMessage
  Calls <- MCCalls
  Replies <- MCReplies
  Errors = {}
  Boots <- MCBoots
  Unbuffered <- MCBoots
  Triggered <- MCSlow
  Slow <- MCSlow
  Loops <- MCLoops
  Strict = TRUE
  MaxLosses = 2
CHECK_DEADLOCK FALSE
INVARIANTS
  BufferKeepsOrder
  OneFlushLoop
  PendingIsAnswerable
  AnswerFindsRequest
  DuplicateOnlyAfterTimeout
PROPERTIES
  ImplementsOutbox
  BufferDrains
