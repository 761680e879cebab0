SPECIFICATION FairSpec
CONSTANTS
  Chats = {c1, c2}
  Tools = {t1, t2}
  Posts = {p1, p2}
  None = None
  MaxCalls = 2
  QueueSize = 1
INVARIANTS
  WaitingIsAnswerable
  EachResultOnce
  PromptClientsServed
  StreamIsComplete
PROPERTY
  ChatsEnd
\* When every chat is closed and every result posted nothing is left to do.
CHECK_DEADLOCK FALSE
