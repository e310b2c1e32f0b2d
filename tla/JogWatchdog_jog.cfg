SPECIFICATION FairSpec
CONSTANTS
    Joints = {0, 1}
    Axes = {2}
    Buttons = {0}
    Pinned = {1}
    Client = {c1}
    Hal = hal
    Free = free
    None = none
    Env = {"off"}
INVARIANTS TypeOK NoRunaway
PROPERTIES Deadman
