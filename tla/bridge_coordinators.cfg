SPECIFICATION Spec
CONSTANTS
    t1 = t1
    t2 = t2
    w1 = w1
    w2 = w2
    s1 = s1
    s2 = s2
    c1 = c1
    c2 = c2
    checkout1 = checkout1
    NoTask = NoTask
    Checkouts = {checkout1}
    Checkout <- OneCheckout
    Workers = {w1}
    Submitters = {s1, s2}
    Cancellers = {c1}
    Tasks = {t1}
    Mailbox = {}
    Verdicts = {"INTERRUPTED"}
    MaxRuns = 2
    Faults = {"crash", "interrupt", "probe", "validation"}
    MaxFaults = 1
INVARIANTS
    CheckoutExclusive
    OneChildPerCheckout
PROPERTIES
    RecoverySparesLiveChild
    ClaimsKept
SYMMETRY Symmetric
