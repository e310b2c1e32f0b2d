\* Expected violation: a resume while the sequencer is busy disarms the next M0.
SPECIFICATION Spec
CONSTANTS
    Client = {c1}
    Monitor = monitor
    Recoverer = {r1}
    Producer = {p1}
    Gen = {g1, g2, g3}
    NoGen = noGen
    Free = free
    NoRun = noRun
    TPSize = 1
    QueueSize = 1
    TPHighWater = 1
    Kinds = {"m0"}
    Ops = {"run", "pause", "resume"}
    Env = {}
SYMMETRY AllInterchangeable
INVARIANTS
    MandatoryStopArmed
