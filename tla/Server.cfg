SPECIFICATION FairSpec
CONSTANTS
    hello1 = hello1
    hello2 = hello2
    bye1 = bye1
    match1 = match1
    match2 = match2
    topup1 = topup1
    state1 = state1
    bad1 = bad1
    Requests = {hello1, match1, match2, topup1, state1, bad1}
    Kind <- MCKind
    Rejecting = {match1, topup1}
    MAX_ENTRIES = 1
    MaxStops = 1
INVARIANTS
    HandlersSerialized
    AnswersInOrder
    LogKeepsLatest
PROPERTIES
    RequestsSettle
CHECK_DEADLOCK FALSE
