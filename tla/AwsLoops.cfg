\* A day of eight units with two estimates, cycles of up to one unit: the act
\* tick always meets an est tick, as 24h and 1h do, and the day may begin at any
\* moment of the schedule.
CONSTANTS
    CycleTimeout = 1
    EstInterval = 4
    ActInterval = 8
    DayLength = 8
    ActualDays = 2
    MaxDay = 5
SPECIFICATION Spec
INVARIANTS
    TypeOK
    HeartbeatFresh
    NoDayMissed
CHECK_DEADLOCK FALSE
