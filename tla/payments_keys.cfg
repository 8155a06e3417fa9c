\* Two calls on one key, whose appends succeed, and one on another, whose
\* appends may fail; one crash.  With fairness, for QueuedIsServed.
SPECIFICATION FairSpec
CONSTANTS
    c1 = c1
    c2 = c2
    c3 = c3
    k1 = k1
    k2 = k2
    NoCall = NoCall
    Calls = {c1, c2, c3}
    Keys = {k1, k2}
    KeyOf <- TwoKeys
    AmountOf <- Equal
    DailyLimit = 2
    LateErrors = FALSE
    BookkeepingFails = {c3}
    MaxCrashes = 1
CHECK_DEADLOCK FALSE
INVARIANTS
    NoDoublePay
PROPERTIES
    QueuedIsServed
