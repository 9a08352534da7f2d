------------------------------ MODULE AwsLoops ------------------------------
(***************************************************************************)
(* runLoops of awscost (apps/awscost/main.go): one goroutine, two tickers, *)
(* an estimate cycle and an actual cycle, each under a deadline of its     *)
(* own; the heartbeat /healthz looks at; and EmitActual                    *)
(* (apps/awscost/poller.go), which asks Cost Explorer for the last         *)
(* completed days.  What an estimate cycle computes is module AwsCost.     *)
(*                                                                         *)
(* Time is counted in units of which a cycle may take CycleTimeout; a      *)
(* ticker's channel holds one tick and select picks any case that is       *)
(* ready.  Cost Explorer and the credentials are external: a call answers, *)
(* fails or hangs until the cycle's deadline.                              *)
(***************************************************************************)
EXTENDS Integers

CONSTANTS
    CycleTimeout,  \* cycleTimeout (2m)
    EstInterval,   \* ESTIMATE_INTERVAL (1h)
    ActInterval,   \* ACTUAL_INTERVAL (24h)
    DayLength,     \* a day of UTC (24h)
    ActualDays,    \* ACTUAL_DAYS (2)
    MaxDay         \* bound of the model: the last day

ASSUME LengthsAreNat ==
    {CycleTimeout, EstInterval, ActInterval, DayLength, ActualDays, MaxDay}
        \subseteq Nat
ASSUME IntervalsPositive == EstInterval > 0 /\ ActInterval > 0 /\ DayLength > 0
(* The defaults leave much room (2m, 1h, 24h, 24h and 2): two cycles fit   *)
(* into an interval, and a day is asked for long enough for one actual     *)
(* cycle to be late and to last.                                           *)
ASSUME CyclesFit ==
    /\ 2 * CycleTimeout < EstInterval /\ 2 * CycleTimeout < ActInterval
    /\ ActInterval + 2 * CycleTimeout <= ActualDays * DayLength

VARIABLES
    pc,        \* "idle" in select, "estimate", "actual" or "stopped"
    starting,  \* the first estimate and the first actual have not both run
    used,      \* time the cycle has taken
    estTick, actTick,  \* the tickers' channels
    toEst, toAct,      \* time until each ticker fires
    age,       \* time since lastTick was stored
    day, hour, \* the clock: day of UTC, and time of that day
    window,    \* the days the pending query asks for
    reported,  \* days whose cost has been emitted
    failedOn,  \* history: days on which an actual cycle failed
    term       \* the signal context is done

tickers == <<estTick, actTick, toEst, toAct>>
clock   == <<day, hour>>
costs   == <<window, reported, failedOn>>
vars    == <<pc, starting, used, tickers, age, clock, costs, term>>

StallAfter == 2 * EstInterval  \* main hands it to serveHealth

(* The completed days EmitActual asks for: up to today 00:00, exclusive.   *)
CompletedDaysOff(today) == (today - ActualDays + 1)..(today - 1)  \* mutant
CompletedDays(today)    == (today - ActualDays)..(today - 1)

Init ==
    /\ pc = "estimate" /\ starting = TRUE /\ used = 0
    /\ estTick = FALSE /\ actTick = FALSE
    /\ toEst = EstInterval /\ toAct = ActInterval
    /\ age = 0
    /\ day = 0 /\ hour \in 0..(DayLength - 1)
    /\ window = {} /\ reported = {} /\ failedOn = {}
    /\ term = FALSE

(***************************************************************************)
(* The cycles.                                                             *)
(***************************************************************************)
StartEstimateLate ==  \* mutant: no heartbeat before the work
    /\ pc = "idle" /\ estTick
    /\ estTick' = FALSE
    /\ pc' = "estimate" /\ used' = 0
    /\ UNCHANGED <<starting, actTick, toEst, toAct, age, clock, costs, term>>

StartEstimate ==
    /\ pc = "idle" /\ estTick
    /\ estTick' = FALSE
    /\ pc' = "estimate" /\ used' = 0 /\ age' = 0
    /\ UNCHANGED <<starting, actTick, toEst, toAct, clock, costs, term>>

BeginActual ==
    /\ pc' = "actual" /\ used' = 0 /\ window' = CompletedDays(day)
    /\ UNCHANGED <<toEst, toAct, age, clock, reported, failedOn, term>>

StartActual ==
    /\ pc = "idle" /\ actTick
    /\ actTick' = FALSE
    /\ BeginActual /\ UNCHANGED <<starting, estTick>>

(* An estimate ends, with an error or without; the first is followed by    *)
(* the first actual.                                                       *)
EndEstimate ==
    /\ pc = "estimate"
    /\ IF starting
       THEN /\ starting' = FALSE /\ BeginActual /\ UNCHANGED <<estTick, actTick>>
       ELSE /\ pc' = "idle" /\ used' = 0
            /\ UNCHANGED <<starting, tickers, age, clock, costs, term>>

CycleExpiredNever == FALSE  \* mutant: the cycles run under ctx alone
CycleExpired == term \/ used >= CycleTimeout

EndActual ==
    /\ pc' = "idle" /\ used' = 0 /\ window' = {}
    /\ UNCHANGED <<starting, tickers, age, clock, term>>

(* Cost Explorer answers: every group of every day is emitted.             *)
ActualAnswers ==
    /\ pc = "actual" /\ ~CycleExpired
    /\ reported' = reported \cup window /\ UNCHANGED failedOn
    /\ EndActual

(* No credentials, or the query failed: the cycle is only logged.          *)
ActualFails ==
    /\ pc = "actual"
    /\ failedOn' = failedOn \cup {day} /\ UNCHANGED reported
    /\ EndActual

(***************************************************************************)
(* The signal, and time: only the calls of a cycle take any.               *)
(***************************************************************************)
Terminate ==
    /\ pc # "stopped" /\ ~term
    /\ term' = TRUE
    /\ UNCHANGED <<pc, starting, used, tickers, age, clock, costs>>

Stop ==
    /\ pc = "idle" /\ term
    /\ pc' = "stopped"
    /\ UNCHANGED <<starting, used, tickers, age, clock, costs, term>>

Waiting ==
    \/ pc \in {"estimate", "actual"} /\ ~CycleExpired
    \/ pc = "idle" /\ ~estTick /\ ~actTick /\ ~term

Advance ==
    /\ Waiting
    /\ day < MaxDay \/ hour + 1 < DayLength
    /\ hour' = (hour + 1) % DayLength
    /\ day' = IF hour + 1 = DayLength THEN day + 1 ELSE day
    /\ age' = age + 1
    /\ used' = IF pc = "idle" THEN 0 ELSE used + 1
    /\ toEst' = IF toEst = 1 THEN EstInterval ELSE toEst - 1
    /\ toAct' = IF toAct = 1 THEN ActInterval ELSE toAct - 1
    /\ estTick' = (estTick \/ toEst = 1)
    /\ actTick' = (actTick \/ toAct = 1)
    /\ UNCHANGED <<pc, starting, costs, term>>

Next ==
    \/ StartEstimate \/ EndEstimate
    \/ StartActual \/ ActualAnswers \/ ActualFails
    \/ Terminate \/ Stop \/ Advance

Spec == Init /\ [][Next]_vars

(***************************************************************************)
(* Properties.                                                             *)
(***************************************************************************)

(* Types: a cycle within its deadline, tickers within their periods.       *)
TypeOK ==
    /\ pc \in {"idle", "estimate", "actual", "stopped"}
    /\ starting \in BOOLEAN /\ term \in BOOLEAN
    /\ estTick \in BOOLEAN /\ actTick \in BOOLEAN
    /\ toEst \in 1..EstInterval /\ toAct \in 1..ActInterval
    /\ used \in 0..CycleTimeout /\ age \in Nat
    /\ day \in 0..MaxDay /\ hour \in 0..(DayLength - 1)
    /\ window \subseteq Int /\ reported \subseteq Int /\ failedOn \subseteq Int

(* /healthz never reports a stalled loop: whichever cycles run first and   *)
(* however long their calls hang, the next estimate stores the heartbeat   *)
(* in time, with a unit left for the second that time.Unix cuts off.       *)
HeartbeatFresh == age < StallAfter

(* A completed day that has gone out of the window without being reported  *)
(* had a failed cycle on one of the days that ask for it: that a cycle     *)
(* waits for the other one and slips past midnight, so that a day of UTC   *)
(* has none, loses nothing.                                                *)
NoDayMissed ==
    pc = "idle" =>
    \A d \in 0..(day - ActualDays - 1) :
        d \in reported \/ \E late \in 1..ActualDays : d + late \in failedOn
=============================================================================
