\* Two producers pushing three elements each through a ring of capacity 2:
\* the overflow fills while the ring still holds older elements, and the
\* ring drains and refills while the overflow is non-empty.
CONSTANTS
    Producers = {p1, p2}
    Cap = 2
    MaxPerProducer = 3
SPECIFICATION Spec
PROPERTY FifoRefinement EveryPushPopped
\* Once every producer is done and the mailbox is drained, the worker thread
\* blocks in pop() for ever: that is an idle actor, not an error.
CHECK_DEADLOCK FALSE
