SPECIFICATION ConversationSpec
CONSTANTS
  MaxSends = 2
  MaxKeys = 2
  MaxToolIterations = 2
INVARIANTS
  ReplyIsItsOwn
CHECK_DEADLOCK FALSE
