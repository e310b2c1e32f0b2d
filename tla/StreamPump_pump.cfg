\* A transmit stream: a producer that may end, a client that may stall or go.
SPECIFICATION FairSpec
CONSTANTS
    Message = {small, large}
    small = small
    large = large
    Size <- MCSize
    PollSize = 2
    Overhead = 1
    MaxQueued = 9
    MaxPolls = 5
INVARIANTS
    TypeOK
    WakeupPending
    Bounded
    CostExact
PROPERTIES
    InOrder
    DrainGoesOn
    DoneReturns
