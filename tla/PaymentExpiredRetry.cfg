SPECIFICATION Spec
CONSTANTS
    d1 = d1  d2 = d2  r1 = r1  p1 = p1  c1 = c1  c2 = c2
    Senders = {s1, s2}
    Deliveries = {d1}
    Commands = {c1}
    reqOf <- MCreqOf
    delOf <- MCdelOf
    proofsOf <- MCproofsOf
    SingleUse = {}
    Transports <- MCTransports
    MaxAttempts = 2
    MaxInterruptions = 1
    Nobody = Nobody  NoCommand = NoCommand  NoDelivery = NoDelivery
PROPERTIES IdenticalRetryGetsReceipt
CHECK_DEADLOCK FALSE
