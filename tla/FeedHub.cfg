\* Two sessions under one fan-out, which they join, take from and leave, and
\* enough envelopes to overwrite one that is queued while another is written.
CONSTANTS
    Subjects = {s1}
    Clients = {c1, c2}
    MaxClients = 2
    MaxVersion = 2
    NoSubject = NoSubject
    NoClient = NoClient
SPECIFICATION Spec
SYMMETRY Symmetry
INVARIANTS
    TypeOK
    DrainedMeansIdle
    QueueConsistent
    NoLostWakeup
    NoLostUpdate
PROPERTIES
    NeverBackwards
    ImplementsFeed
