\* Two sessions, the second on the second connection, or one session that loses
\* its connection: to the network or a restart of the server; clears of the
\* plot, two samples through a buffer of one.
SPECIFICATION FairSpec
CONSTANTS
    MaxPending = 1
    Drop = 1
    MaxSessions = 2
    MaxConns = 2
    MaxLog = 2
    Env = {"drop", "restart", "clear"}
CHECK_DEADLOCK FALSE
INVARIANTS
    TypeOK
    ShownOnce
    Sampled
PROPERTIES
    ThreadEnds
    Reconnects
    SamplersEnd
