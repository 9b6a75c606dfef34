SPECIFICATION LaneSpec
CONSTANTS
    o1 = o1 o2 = o2 s1 = s1 s2 = s2 k1 = k1
    w1 = w1 w2 = w2 p1 = p1 p2 = p2 c1 = c1 c2 = c2
    TsOps = {o1, o2}
    Scenarios <- MCScenarios
    Target = o1
    Seeds = {s1, s2}
    InitSeed = s1
    Readers = {k1}
    MaxRanges = 5
    MaxQuotes = 2
    RestoreGap = 1
    NoOp = NoOp NoSeed = NoSeed NoPlan = NoPlan NoToken = NoToken Token = Token
    CdkOps = {o1, o2}
    Processes = {p1, p2}
    Workers = {w1, w2}
    Consumers = {c1, c2}
    Setups <- MCSetups
    NoOne = NoOne
    MaxResets = 1
    HOps = {o1, o2}
    Scripts <- MCScripts
    MaxAttempts = 3
    Wallets <- MCWallets
    Limits <- MCLimits
    Nets <- MCNets
    Length = 3
INVARIANTS
    SuccessIsReal OutputsPlannedOnce ReservationsAreOwned
    JournalIsExclusive CdkSuccessHappened
    ActiveGenerationInUse
    NoFalseAlarm AcceptedRunIsConsistent
    PlanFoundIfAnyExists MinimizedIsMinimal
PROPERTIES
    TerminalPhaseStands
CHECK_DEADLOCK FALSE
