CONSTANT MaxObjects = 5
SPECIFICATION FairSpec
INVARIANTS TypeOK SentInOrder
PROPERTIES BroadcastsSent ThreadEnds
CHECK_DEADLOCK FALSE
