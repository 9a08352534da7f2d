\* Two offenders listed of three pods; the code's deadlines scaled down to two
\* intervals for a call and two for a write, under the smallest StallSeconds
\* the assumption allows.
CONSTANTS
    TopRestarts = 2
    TopCPU = 2
    Lossy <- MCLossy
    Views <- MCViews
    ApiTimeout = 2
    ClientTimeout = 2
    WriteTimeout = 2
    StallSeconds = 2
SPECIFICATION Spec
INVARIANTS
    TypeOK
    HeartbeatFresh
    OffendersFirst
    SummariesAddUp
    OneRowUnlessTied
PROPERTIES
    Stops
CHECK_DEADLOCK FALSE
