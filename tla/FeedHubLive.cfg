\* Without symmetry: two browsers compete for one place, an envelope of each of
\* two subjects.
CONSTANTS
    Subjects = {s1, s2}
    Clients = {c1, c2}
    MaxClients = 1
    MaxVersion = 1
    NoSubject = NoSubject
    NoClient = NoClient
SPECIFICATION FairSpec
INVARIANTS
    Admission
PROPERTIES
    GracefulExit
    ImplementsFairFeed
