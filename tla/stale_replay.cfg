SPECIFICATION Spec
CONSTANTS
    t1 = t1
    t2 = t2
    w1 = w1
    w2 = w2
    s1 = s1
    s2 = s2
    c1 = c1
    c2 = c2
    checkout1 = checkout1
    NoTask = NoTask
    Checkouts = {checkout1}
    Checkout <- OneCheckout
    Workers = {w1}
    Submitters = {s1}
    Cancellers = {}
    Tasks = {t1}
    Mailbox = {}
    Verdicts = {"SUCCESS"}
    MaxRuns = 2
    Faults = {"write"}
    MaxFaults = 1
PROPERTIES
    StaleTaskSettled
