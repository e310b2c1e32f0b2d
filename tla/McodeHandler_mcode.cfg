\* Aborts, trips, bad lines and failing handlers around user M-codes; an abort
\* returns whatever the handlers do.
SPECIFICATION FairSpec
CONSTANTS
    Job = {j1, j2, j3, j4}
    Client = {c1}
    Monitor = monitor
    Producer = producer
    Recoverer = recoverer
    NoJob = noJob
    Free = free
    Env = {"trip", "badLine", "error"}
INVARIANTS
    TypeOK
    ExitIsNoticed
PROPERTIES
    OwnResult
    AbortReachesWaited
    AbortReturns
