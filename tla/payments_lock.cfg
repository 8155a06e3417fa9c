\* Three calls on one key; nothing fails but the payments themselves.
SPECIFICATION Spec
CONSTANTS
    c1 = c1
    c2 = c2
    c3 = c3
    k1 = k1
    k2 = k2
    NoCall = NoCall
    Calls = {c1, c2, c3}
    Keys = {k1}
    KeyOf <- OneKey
    AmountOf <- Equal
    DailyLimit = 3
    LateErrors = FALSE
    BookkeepingFails = {}
    MaxCrashes = 0
CHECK_DEADLOCK FALSE
INVARIANTS
    NoDoublePay
