SPECIFICATION Spec
CONSTANTS
  Messages <- OneMessage
  Viewers <- OneViewer
  Nodes <- OneNode
  NodeOf <- Apart
  Fresh <- OnlyA
  Limit = 1
  MaxLost = 0
INVARIANT DeliveredIsShown
