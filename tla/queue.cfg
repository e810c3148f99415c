SPECIFICATION FairSpec
CONSTANTS
    Producers = {p1, p2, p3}
    Consumer = main
    NoThread = none
    Capacity = 2
    Quota = 2
INVARIANTS TypeOK MutualExclusion Bounded NoLostWakeup ExactlyOnceInOrder
PROPERTIES AllDelivered FifoSpec
