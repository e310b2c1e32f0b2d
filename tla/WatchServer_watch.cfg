\* Subscribe, unsubscribe, calls, lost clients, unload and reload.
SPECIFICATION FairSpec
CONSTANTS
    Conn = {c1}
    Module = {m1, m2}
    NoModule = noModule
    Kind = {k1}
    Free = free
    NoFrame = noFrame
    MaxList = 1
    MaxSubs = 2
    MaxVersion = 2
    Env = {"wedged", "factory", "change"}
CHECK_DEADLOCK FALSE
INVARIANTS
    TypeOK
    TrackedExactly
    UnloadSafe
PROPERTIES
    NeverBack
    ListConverges
    UnloadEnds
