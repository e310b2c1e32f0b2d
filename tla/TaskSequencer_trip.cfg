\* The monitor trips at any moment, racing runs and aborts.
SPECIFICATION Spec
CONSTANTS
    Client = {c1}
    Monitor = monitor
    Recoverer = {r1}
    Producer = {p1, p2}
    Gen = {g1, g2}
    NoGen = noGen
    Free = free
    NoRun = noRun
    TPSize = 1
    QueueSize = 1
    TPHighWater = 1
    Kinds = {}
    Ops = {"run", "abort"}
    Env = {"trip"}
SYMMETRY AllInterchangeable
INVARIANTS
    RestIsIdle
