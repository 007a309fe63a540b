SPECIFICATION FairSpec
CONSTANTS
  Messages <- TwoMessages
  Viewers <- TwoViewers
  Nodes <- TwoNodes
  NodeOf <- Apart
  Fresh <- OnlyA
  Limit = 1
  MaxLost = 1
INVARIANTS TypeOK ShownIsPersisted ShownOnce SentInPublishOrder
PROPERTY PublishedIsDelivered
