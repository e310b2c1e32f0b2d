SPECIFICATION Spec
CONSTANTS
    Joints = {0}
    Axes = {1, 2}
    Buttons = {0, 1}
    Pinned = {1}
    Client = {c1}
    Hal = hal
    Free = free
    None = none
    Env = {}
INVARIANT NoRunaway
