SPECIFICATION Spec
CONSTANTS
    f1 = f1
    f2 = f2
    a1 = a1
    v1 = v1
    v2 = v2
    b1 = b1
    b2 = b2
    b3 = b3
    Key = {f1, f2, a1}
    Founder = "founder"
    Admin = {"admin"}
    Holder <- MCHolder
    MaxCopies = 4
    MaxRevoked = 1
    Resolves = 1
    Expires = 2
    Windows = {1, 3}
    LastTime = 3
    MaxHeard = 2
    Voter = {v1, v2}
    Ballot = {b1, b2, b3}
    Of <- MCOf
    BallotId <- MCId
    Option = {"yes", "no"}
    Weight <- MCWeight
    Grace = 1
    Confirmations = 2
    Snapshot = {0, 1}
    MaxTip = 5
    q1 = q1
    q2 = q2
    Request = {q1, q2}
    Chains <- MCChains
    Actions <- MCActions
    Length = {0, 1, 2, 3}
    MaxSkew = 1
    GuardSkew = 1
    Block = {1, 2}
    LastDate = 3
    MaxRevocations = 1
SYMMETRY MCSymmetry
INVARIANTS TypeOK ReopenedByFounder OrderOnlyBreaksTies FinalTallyStands TallyIsOrderFree ActsAreGranted AuditUpholdsActs RepeatIsLate
PROPERTIES StrangersChangeNothing FounderChainStands ExpiryIsFinal
CHECK_DEADLOCK FALSE
