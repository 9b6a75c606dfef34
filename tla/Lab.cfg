SPECIFICATION LabSpec
CONSTANTS
    r1 = r1 r2 = r2 r3 = r3 q1 = q1 q2 = q2 q3 = q3 q4 = q4 q5 = q5 m1 = m1
    a = a b = b w1 = w1 w2 = w2 w3 = w3
    c1 = c1 c2 = c2 c3 = c3 d1 = d1 b1 = b1 b2 = b2 b3 = b3
    h1 = h1 h2 = h2
    Requests = {r1, r2, r3}
    Kind <- MCKind
    Campaigns <- MCCampaigns
    MaxRules = 2
    MaxStale = 1
    NoRequest = NoRequest
    Relays = {q1, q2}
    Plans <- MCPlans
    Payments = {m1}
    ExpiresAt <- MCExpiresAt
    Unreadable = Unreadable
    Misattributed = Misattributed
    Overlap = 1
    PollAttempts = 1
    MaxEvents = 2
    Devices = {a, b}
    Workers = {w1, w2, w3}
    ZapCampaigns <- MCZapCampaigns
    DeviceOf <- MCDeviceOf
    WalletRelays = {q1, q2}
    RelayLists <- MCRelayLists
    None = None
    Nil = Nil
    DevicePair <- MCPair
    Crew <- MCCrew
    Scenarios <- MCScenarios
    Callers = {c1, c2, c3}
    DeliveryIds = {d1}
    Bills = {b1, b2, b3}
    BadBills = {b3}
    MaxOrdinal = 0
    Tours <- MCTours
    Handlers = {h1, h2}
    Sessions <- MCSessions
    RelaySeq <- MCRelaySeq
    WalletCases <- MCCases
    Scripts <- MCScripts
    OpIds = {"o1", "o2"}
    Fleets <- MCFleets
    MaxAttempts = 2
    Outcomes <- MCOutcomes
INVARIANTS
    HeldRequestsAreReordered StaleIsFromThisRun NostrOutcomeIsHonest
    NutzapCountsOnce BalanceIsNotPromised ScenariosPass SentIsOnRecord LedgerIsOfThisRun
    RepairLosesNothing PassedMeansPaidOnce GatePassedIsEarned
PROPERTIES
    HealthyMeansWhole
CHECK_DEADLOCK FALSE
