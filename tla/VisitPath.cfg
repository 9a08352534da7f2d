\* Two requests of any kind, edge, a replica of helloworld, two faults.
CONSTANTS
    Requests = {q1, q2}
    Backends = {h1}
    Edge = Edge
    NoServer = NoServer
    MaxFaults = 2
SPECIFICATION Spec
INVARIANTS
    CleanExitFlushes
    AcceptedIsAnswered
PROPERTIES
    ShutdownEnds
CHECK_DEADLOCK FALSE
