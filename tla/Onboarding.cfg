SPECIFICATION Spec
CONSTANTS
    f1 = f1
    f2 = f2
    l1 = l1
    Zero = Zero
    NoTerms = NoTerms
    Followers = {f1, f2}
    Leads = {l1}
    Amounts = {0, 1, 2}
    Terms <- MCTerms
    MaxListed = 3
    MaxFunds = 2
    Funds = 2
    Settlements <- NoSettlements
INVARIANTS
    FollowersEntitled
    ListingsAgree
    FollowerFundsKept
PROPERTIES
    TermsFixed
CHECK_DEADLOCK FALSE
