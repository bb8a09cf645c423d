CONSTANTS
    p = p
    q = q
    g = g
    h = h
    NoOwner = NoOwner
    Runtimes = {p, q}
    Groups = {g, h}
    Selected <- TwoGroups
    Jitter <- SecondJitters
    Ttl = 15
    Renew = 5
    ReleaseWait = 2
    JoinWait = 2
    MaxWrites = 7
    MaxFaults = 1
SPECIFICATION Spec
CHECK_DEADLOCK FALSE
INVARIANTS TtlCovers HandedOver SomeoneServes
PROPERTY LeaseFenced
