\* Two clients run and abort; lines are in error, motion and IO refuse
\* commands or stop answering.
SPECIFICATION Spec
CONSTANTS
    Client = {c1, c2}
    Monitor = monitor
    Recoverer = {r1, r2}
    Producer = {p1, p2}
    Gen = {g1, g2}
    NoGen = noGen
    Free = free
    NoRun = noRun
    TPSize = 1
    QueueSize = 1
    TPHighWater = 1
    Kinds = {"move", "aux"}
    Ops = {"run", "abort"}
    Env = {"refuse", "badLine"}
SYMMETRY AllInterchangeable
INVARIANTS
    InterpExclusive
    WaitersSignalled
    SingleSequencer
    RestIsIdle
    FaultVisible
    SequencerServes
PROPERTIES
    ErrorLatched
