SPECIFICATION FairSpec
CONSTANTS
  Workers = {"w1", "w2"}
  Senders = {"chat"}
  Incoming <- IncomingAll
  FrameLen = 2
  Room = 3
  MaxTasks = 1
INVARIANTS TypeOK FramesWhole
PROPERTY NobodyForgotten
