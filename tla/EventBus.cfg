\* Two publishers and two streams over channels of two events, with readers
\* that owe nothing.
SPECIFICATION FairSpec
CONSTANTS
    Publishers = {p1, p2}
    Subscribers = {s1, s2}
    Buffer = 2
INVARIANTS
    NoSendOnClosed
    ClosedOnce
    MissedMeansEvicted
    NoLeakedSubscription
PROPERTIES
    PublishReturns
CHECK_DEADLOCK TRUE
