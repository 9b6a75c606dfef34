SPECIFICATION Spec
CONSTANTS
    w1 = w1  w2 = w2  r1 = r1  r2 = r2  d1 = d1  d2 = d2  p1 = p1  p2 = p2
    c1 = c1  c2 = c2  c3 = c3
    Workers = {w1, w2}
    Requests = {r1}
    Deliveries = {d1}
    Proofs = {p1}
    Commands = {c1}
    reqOf <- MCreqOf
    delOf <- MCdelOf
    proofsOf <- MCproofsOf
    Fitting = {c1}
    SingleUse = {r1}
    Nut09 = TRUE
    Nut19 = TRUE
    Checkpoints = FALSE
    MaxStarts = 2
    DuplicateSwaps = FALSE
    MaxFaults = 0
    Nobody = Nobody  NoCommand = NoCommand  NoDelivery = NoDelivery  NoPlan = NoPlan
INVARIANTS RedemptionStartsOnce
CHECK_DEADLOCK FALSE
