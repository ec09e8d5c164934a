SPECIFICATION FairSpec
CONSTANTS
    hello1 = hello1
    hello2 = hello2
    bye1 = bye1
    match1 = match1
    match2 = match2
    topup1 = topup1
    state1 = state1
    bad1 = bad1
    Requests = {match1, match2}
    Kind <- MCKind
    Rejecting = {match1}
    MAX_ENTRIES = 1
    MaxStops = 0
PROPERTIES
    OthersAnswered
CHECK_DEADLOCK FALSE
