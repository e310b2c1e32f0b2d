\* Expected violation: an error reported between the guard of a Run and its
\* program lets a second Run in.
SPECIFICATION Spec
CONSTANTS
    Client = {c1, c2}
    Monitor = monitor
    Recoverer = {r1}
    Producer = {p1, p2}
    Gen = {g1, g2, g3}
    NoGen = noGen
    Free = free
    NoRun = noRun
    TPSize = 1
    QueueSize = 1
    TPHighWater = 1
    Kinds = {}
    Ops = {"run", "abort"}
    Env = {"trip", "paramsFail"}
SYMMETRY AllInterchangeable
INVARIANTS
    InterpExclusive
