SPECIFICATION FairProcessSpec
CONSTANTS
  Topics = {"assignment", "status"}
  Publishing = {"assignment"}
  ReplyTopic = "reply"
  MaxReplies = 2
PROPERTIES
  ShutdownEnds
CHECK_DEADLOCK FALSE
