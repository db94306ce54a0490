SPECIFICATION FairSpec
CONSTANTS
  a1 = a1
  assignment = assignment
  status = status
  reply = reply
  Agents = {a1}
  Coordinator = Coordinator
  Cleaner = Cleaner
  MaxLoad = 1
  MaxStarts = 2
  Topics = {assignment, status}
  Publishing = {assignment}
  ReplyTopic = reply
  MaxReplies = 2
PROPERTIES
  RefinesRegistry
  LoadCatchesUp
  ShutdownEndsOrIsStuck
CHECK_DEADLOCK FALSE
