\* Pause, resume and step, with M0 stops and tap cycles.
SPECIFICATION Spec
CONSTANTS
    Client = {c1}
    Monitor = monitor
    Recoverer = {r1}
    Producer = {p1, p2}
    Gen = {g1, g2, g3}
    NoGen = noGen
    Free = free
    NoRun = noRun
    TPSize = 2
    QueueSize = 1
    TPHighWater = 1
    Kinds = {"move", "m0", "tapOn", "tapOff"}
    Ops = {"run", "pause", "resume", "step"}
    Env = {"seek", "openFails"}
SYMMETRY AllInterchangeable
INVARIANTS
    TypeOK
    PausedIsResumable
    BelowHighWater
