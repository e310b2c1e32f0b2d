\* Liveness under goroutine fairness; no symmetry.
SPECIFICATION FairSpec
CONSTANTS
    Client = {c1}
    Monitor = monitor
    Recoverer = {r1}
    Producer = {p1}
    Gen = {g1, g2}
    NoGen = noGen
    Free = free
    NoRun = noRun
    TPSize = 1
    QueueSize = 1
    TPHighWater = 1
    Kinds = {"aux"}
    Ops = {"run", "abort"}
    Env = {"refuse", "badLine"}
PROPERTIES
    RequestsReturn
    FaultRecovered
