----------------------------- MODULE AwsProofs -----------------------------
(***************************************************************************)
(* Theorems about both modules of awscost.                                 *)
(*                                                                         *)
(* AwsLoops, for every length of the intervals, the cycles and the day     *)
(* that leaves room for the cycles (CyclesFit): the heartbeat never gets   *)
(* as old as StallAfter, and no completed day is missed without a cycle    *)
(* that failed while it was asked for.  Both rest on how late a tick can   *)
(* be answered (Schedule): a cycle never outlasts the interval of its own  *)
(* ticker, so that of two ticks that wait at the same time both have just  *)
(* fired, and a tick waits for one cycle at the most.                      *)
(*                                                                         *)
(* AwsCost, for every fleet, rates and price documents: what is exported   *)
(* is what AWS charges.                                                    *)
(***************************************************************************)
EXTENDS AwsLoops, AwsCost, TLAPS

sinceEst == EstInterval - toEst
sinceAct == ActInterval - toAct

Schedule ==
    /\ starting => /\ pc = "estimate" /\ ~estTick /\ ~actTick
                   /\ sinceEst = used /\ sinceAct = used
    /\ pc = "estimate" => /\ ~estTick /\ sinceEst <= CycleTimeout + used
                          /\ actTick => sinceAct <= used
    /\ pc = "actual" => /\ ~actTick /\ used <= sinceAct /\ sinceAct <= CycleTimeout + used
                        /\ estTick => sinceEst <= used
    /\ pc = "idle" => /\ used = 0
                      /\ estTick => sinceEst <= CycleTimeout
                      /\ actTick => sinceAct <= CycleTimeout
                      /\ estTick /\ actTick => sinceEst = 0 /\ sinceAct = 0

(* The heartbeat is no older than the last tick that was answered.         *)
Heartbeat == age <= sinceEst + (IF estTick THEN EstInterval ELSE 0)

LEMMA Constants ==
  /\ CycleTimeout \in Nat /\ EstInterval \in Nat /\ ActInterval \in Nat
  /\ DayLength \in Nat /\ ActualDays \in Nat /\ MaxDay \in Nat
  /\ EstInterval > 0 /\ ActInterval > 0 /\ DayLength > 0
  /\ 2 * CycleTimeout < EstInterval /\ 2 * CycleTimeout < ActInterval
BY LengthsAreNat, IntervalsPositive, CyclesFit

(***************************************************************************)
(* Types.                                                                  *)
(***************************************************************************)
LEMMA HourTurns ==
  ASSUME hour \in 0..(DayLength - 1)
  PROVE  (hour + 1) % DayLength = IF hour + 1 = DayLength THEN 0 ELSE hour + 1
BY Constants

LEMMA ZeroIsInTime == 0 \in 0..CycleTimeout /\ \A d \in Int : CompletedDays(d) \subseteq Int
BY Constants DEF CompletedDays

LEMMA InitTyped == Init => TypeOK
<1> SUFFICES ASSUME Init PROVE TypeOK
  OBVIOUS
<1>1. used \in 0..CycleTimeout /\ day \in 0..MaxDay
  BY Constants DEF Init
<1>2. toEst \in 1..EstInterval /\ toAct \in 1..ActInterval
  BY Constants DEF Init
<1> QED
  BY <1>1, <1>2 DEF Init, TypeOK

LEMMA StepTyped == TypeOK /\ [Next]_vars => TypeOK'
<1> SUFFICES ASSUME TypeOK, [Next]_vars PROVE TypeOK'
  OBVIOUS
<1> USE Constants
<1>1. CASE StartEstimate
  BY <1>1, ZeroIsInTime DEF StartEstimate, TypeOK, clock, costs
<1>2. CASE EndEstimate
  <2>1. window' \subseteq Int /\ used' \in 0..CycleTimeout
    <3>1. day \in Int
      BY DEF TypeOK
    <3> QED
      BY <1>2, <3>1, ZeroIsInTime DEF EndEstimate, BeginActual, TypeOK, costs
  <2>2. pc' \in {"actual", "idle"} /\ starting' \in BOOLEAN
    BY <1>2 DEF EndEstimate, BeginActual, TypeOK
  <2>3. UNCHANGED <<tickers, age, clock, reported, failedOn, term>>
    BY <1>2 DEF EndEstimate, BeginActual, tickers, costs
  <2> QED
    BY <2>1, <2>2, <2>3 DEF TypeOK, tickers, clock
<1>3. CASE StartActual
  <2>1. window' \subseteq Int /\ used' \in 0..CycleTimeout
    <3>1. day \in Int
      BY DEF TypeOK
    <3> QED
      BY <1>3, <3>1, ZeroIsInTime DEF StartActual, BeginActual
  <2>2. /\ pc' = "actual" /\ actTick' = FALSE
        /\ UNCHANGED <<starting, estTick, toEst, toAct, age, clock, reported, failedOn, term>>
    BY <1>3 DEF StartActual, BeginActual
  <2> QED
    BY <2>1, <2>2 DEF TypeOK, clock
<1>4. CASE ActualAnswers
  BY <1>4 DEF ActualAnswers, EndActual, TypeOK, tickers, clock
<1>5. CASE ActualFails
  BY <1>5 DEF ActualFails, EndActual, TypeOK, tickers, clock
<1>6. CASE Terminate
  BY <1>6 DEF Terminate, TypeOK, tickers, clock, costs
<1>7. CASE Stop
  BY <1>7 DEF Stop, TypeOK, tickers, clock, costs
<1>8. CASE Advance
  BY <1>8, HourTurns DEF Advance, Waiting, CycleExpired, TypeOK, costs
<1>9. CASE UNCHANGED vars
  BY <1>9 DEF vars, TypeOK, tickers, clock, costs
<1> QED
  BY <1>1, <1>2, <1>3, <1>4, <1>5, <1>6, <1>7, <1>8, <1>9 DEF Next

(* The loop's state (runLoops, main.go:94): a cycle never runs past its    *)
(* deadline and the tickers stay within their periods.                     *)
THEOREM TypeCorrect == Spec => []TypeOK
BY InitTyped, StepTyped, PTL DEF Spec

(***************************************************************************)
(* The schedule.                                                           *)
(***************************************************************************)
LEMMA NumbersTyped ==
  ASSUME TypeOK
  PROVE  /\ used \in Nat /\ used <= CycleTimeout /\ age \in Nat
         /\ sinceEst \in Nat /\ sinceEst < EstInterval
         /\ sinceAct \in Nat /\ sinceAct < ActInterval
         /\ day \in Nat /\ hour \in Nat /\ hour < DayLength
BY Constants DEF TypeOK, sinceEst, sinceAct

(* A ticker fires, or is one unit nearer to it.                            *)
LEMMA EstTickerRuns ==
  ASSUME TypeOK, Advance
  PROVE  \/ /\ sinceEst' = sinceEst + 1
            /\ estTick' <=> estTick
         \/ /\ sinceEst' = 0 /\ sinceEst + 1 = EstInterval
            /\ estTick'
<1>1. toEst \in Nat /\ EstInterval \in Nat
  BY Constants DEF TypeOK
<1>2. CASE toEst = 1
  <2>1. estTick'
    BY <1>2 DEF Advance
  <2>2. sinceEst' = 0 /\ sinceEst + 1 = EstInterval
    BY <1>1, <1>2 DEF Advance, sinceEst
  <2> QED
    BY <2>1, <2>2
<1>3. CASE toEst # 1
  <2>1. estTick' <=> estTick
    BY <1>3 DEF Advance, TypeOK
  <2>2. sinceEst' = sinceEst + 1
    BY <1>1, <1>3 DEF Advance, sinceEst
  <2> QED
    BY <2>1, <2>2
<1> QED
  BY <1>2, <1>3

LEMMA ActTickerRuns ==
  ASSUME TypeOK, Advance
  PROVE  \/ /\ sinceAct' = sinceAct + 1
            /\ actTick' <=> actTick
         \/ /\ sinceAct' = 0 /\ sinceAct + 1 = ActInterval
            /\ actTick'
<1>1. toAct \in Nat /\ ActInterval \in Nat
  BY Constants DEF TypeOK
<1>2. CASE toAct = 1
  <2>1. actTick'
    BY <1>2 DEF Advance
  <2>2. sinceAct' = 0 /\ sinceAct + 1 = ActInterval
    BY <1>1, <1>2 DEF Advance, sinceAct
  <2> QED
    BY <2>1, <2>2
<1>3. CASE toAct # 1
  <2>1. actTick' <=> actTick
    BY <1>3 DEF Advance, TypeOK
  <2>2. sinceAct' = sinceAct + 1
    BY <1>1, <1>3 DEF Advance, sinceAct
  <2> QED
    BY <2>1, <2>2
<1> QED
  BY <1>2, <1>3

(* No ticker fires during a cycle of its own.                              *)
LEMMA AdvanceKeepsSchedule ==
  ASSUME TypeOK, Schedule, Advance
  PROVE  Schedule'
<1> USE Constants, NumbersTyped, EstTickerRuns, ActTickerRuns
<1>1. pc' = pc /\ starting' = starting
  BY DEF Advance
<1>2. CASE pc = "idle"
  <2>1. used' = 0 /\ ~estTick /\ ~actTick /\ ~starting
    BY <1>2 DEF Advance, Waiting, Schedule
  <2>2. estTick' => sinceEst' = 0
    BY <2>1
  <2>3. actTick' => sinceAct' = 0
    BY <2>1
  <2> QED
    BY <1>1, <1>2, <2>1, <2>2, <2>3 DEF Schedule
<1>3. CASE pc # "idle"
  <2>1. /\ used' = used + 1 /\ used < CycleTimeout
        /\ pc \in {"estimate", "actual"}
    BY <1>3 DEF Advance, Waiting, CycleExpired
  <2>2. CASE pc = "estimate"
    <3>1. ~estTick /\ sinceEst <= CycleTimeout + used
      BY <2>2 DEF Schedule
    <3>2. ~estTick' /\ sinceEst' = sinceEst + 1
      BY <2>1, <3>1
    <3>3. actTick' => sinceAct' <= used'
      BY <2>1, <2>2 DEF Schedule
    <3>4. starting => ~actTick' /\ sinceEst' = used' /\ sinceAct' = used'
      BY <2>1, <2>2, <3>2 DEF Schedule
    <3>5. sinceEst' <= CycleTimeout + used'
      BY <2>1, <3>1, <3>2
    <3> QED
      BY <1>1, <2>2, <3>2, <3>3, <3>4, <3>5 DEF Schedule
  <2>3. CASE pc = "actual"
    <3>1. ~actTick /\ used <= sinceAct /\ sinceAct <= CycleTimeout + used /\ ~starting
      BY <2>3 DEF Schedule
    <3>2. ~actTick' /\ sinceAct' = sinceAct + 1
      BY <2>1, <3>1
    <3>3. estTick' => sinceEst' <= used'
      BY <2>1, <2>3 DEF Schedule
    <3>4. used' <= sinceAct' /\ sinceAct' <= CycleTimeout + used'
      BY <2>1, <3>1, <3>2
    <3> QED
      BY <1>1, <2>3, <3>1, <3>2, <3>3, <3>4 DEF Schedule
  <2> QED
    BY <2>1, <2>2, <2>3
<1> QED
  BY <1>2, <1>3

LEMMA StepKeepsSchedule == TypeOK /\ Schedule /\ [Next]_vars => Schedule'
<1> SUFFICES ASSUME TypeOK, Schedule, [Next]_vars PROVE Schedule'
  OBVIOUS
<1> USE Constants, NumbersTyped
<1>1. CASE StartEstimate
  <2>1. /\ pc = "idle" /\ estTick /\ ~starting
        /\ pc' = "estimate" /\ estTick' = FALSE /\ used' = 0
        /\ UNCHANGED <<starting, actTick, toEst, toAct>>
    BY <1>1 DEF StartEstimate, Schedule
  <2>2. sinceEst' = sinceEst /\ sinceAct' = sinceAct
    BY <2>1 DEF sinceEst, sinceAct
  <2>3. sinceEst <= CycleTimeout
    BY <2>1 DEF Schedule
  <2>4. actTick => sinceAct = 0
    BY <2>1 DEF Schedule
  <2> QED
    BY <2>1, <2>2, <2>3, <2>4 DEF Schedule
<1>2. CASE EndEstimate
  <2>1. pc = "estimate" /\ used' = 0 /\ ~starting' /\ UNCHANGED <<estTick, actTick, toEst, toAct>>
    BY <1>2 DEF EndEstimate, BeginActual, tickers, TypeOK
  <2>2. sinceEst' = sinceEst /\ sinceAct' = sinceAct
    BY <2>1 DEF sinceEst, sinceAct
  <2>3. CASE starting
    <3>1. pc' = "actual" /\ ~actTick /\ ~estTick /\ sinceAct = used
      BY <1>2, <2>3 DEF EndEstimate, BeginActual, Schedule
    <3> QED
      BY <2>1, <2>2, <3>1 DEF Schedule
  <2>4. CASE ~starting
    <3>1. pc' = "idle" /\ ~estTick
      BY <1>2, <2>1, <2>4 DEF EndEstimate, Schedule
    <3>2. actTick => sinceAct <= CycleTimeout
      BY <2>1 DEF Schedule
    <3> QED
      BY <2>1, <2>2, <3>1, <3>2 DEF Schedule
  <2> QED
    BY <2>3, <2>4
<1>3. CASE StartActual
  <2>1. /\ pc = "idle" /\ actTick /\ ~starting
        /\ pc' = "actual" /\ actTick' = FALSE /\ used' = 0
        /\ UNCHANGED <<starting, estTick, toEst, toAct>>
    BY <1>3 DEF StartActual, BeginActual, Schedule
  <2>2. sinceEst' = sinceEst /\ sinceAct' = sinceAct
    BY <2>1 DEF sinceEst, sinceAct
  <2>3. sinceAct <= CycleTimeout
    BY <2>1 DEF Schedule
  <2>4. estTick => sinceEst = 0
    BY <2>1 DEF Schedule
  <2> QED
    BY <2>1, <2>2, <2>3, <2>4 DEF Schedule
<1>4. CASE ActualAnswers \/ ActualFails
  <2>1. /\ pc = "actual" /\ pc' = "idle" /\ used' = 0
        /\ UNCHANGED <<starting, estTick, actTick, toEst, toAct>>
    BY <1>4 DEF ActualAnswers, ActualFails, EndActual, tickers
  <2>2. sinceEst' = sinceEst /\ sinceAct' = sinceAct
    BY <2>1 DEF sinceEst, sinceAct
  <2>3. ~actTick /\ ~starting
    BY <2>1 DEF Schedule
  <2>4. estTick => sinceEst <= CycleTimeout
    BY <2>1 DEF Schedule
  <2> QED
    BY <2>1, <2>2, <2>3, <2>4 DEF Schedule
<1>5. CASE Stop
  BY <1>5 DEF Stop, Schedule
<1>6. CASE Terminate \/ UNCHANGED vars
  BY <1>6 DEF Terminate, vars, tickers, Schedule, sinceEst, sinceAct
<1> QED
  BY <1>1, <1>2, <1>3, <1>4, <1>5, <1>6, AdvanceKeepsSchedule DEF Next

LEMMA StepKeepsHeartbeat == TypeOK /\ Schedule /\ Heartbeat /\ [Next]_vars => Heartbeat'
<1> SUFFICES ASSUME TypeOK, Schedule, Heartbeat, [Next]_vars PROVE Heartbeat'
  OBVIOUS
<1> USE Constants, NumbersTyped
<1>1. CASE StartEstimate
  BY <1>1 DEF StartEstimate, Heartbeat, sinceEst
<1>2. CASE Advance
  <2>1. age' = age + 1 /\ age \in Nat
    BY <1>2 DEF Advance
  <2>2. CASE sinceEst' = sinceEst + 1 /\ (estTick' <=> estTick)
    BY <2>1, <2>2 DEF Heartbeat
  <2>3. CASE sinceEst' = 0 /\ sinceEst + 1 = EstInterval /\ estTick'
    <3>1. ~estTick
      <4>1. pc = "idle" => ~estTick
        BY <1>2 DEF Advance, Waiting
      <4>2. pc = "estimate" => ~estTick
        BY DEF Schedule
      <4>3. CASE pc = "actual"
        <5>1. used < CycleTimeout
          BY <1>2, <4>3 DEF Advance, Waiting, CycleExpired
        <5> QED
          BY <2>3, <4>3, <5>1 DEF Schedule
      <4> QED
        BY <1>2, <4>1, <4>2, <4>3 DEF Advance, Waiting
    <3> QED
      BY <2>1, <2>3, <3>1 DEF Heartbeat
  <2> QED
    BY <1>2, <2>2, <2>3, EstTickerRuns
<1>3. CASE UNCHANGED <<age, toEst, estTick>>
  BY <1>3 DEF Heartbeat, sinceEst
<1>4. \/ StartEstimate \/ Advance
      \/ UNCHANGED <<age, toEst, estTick>>
  BY DEF Next, EndEstimate, BeginActual, StartActual, ActualAnswers, ActualFails, EndActual,
     Terminate, Stop, vars, tickers
<1> QED
  BY <1>1, <1>2, <1>3, <1>4

LEMMA InitScheduled == Init => Schedule /\ Heartbeat
BY Constants DEF Init, Schedule, Heartbeat, sinceEst, sinceAct

(* /healthz never reports a stalled loop (main.go:87, StallAfter): a fresh *)
(* timeout per tick, "well under either interval" (main.go:96), is enough. *)
THEOREM HeartbeatIsFresh == Spec => []HeartbeatFresh
<1>1. Init => TypeOK /\ Schedule /\ Heartbeat
  BY InitTyped, InitScheduled
<1>2. (TypeOK /\ Schedule /\ Heartbeat) /\ [Next]_vars => (TypeOK /\ Schedule /\ Heartbeat)'
  BY StepTyped, StepKeepsSchedule, StepKeepsHeartbeat
<1>3. TypeOK /\ Heartbeat => HeartbeatFresh
  BY Constants, NumbersTyped DEF Heartbeat, HeartbeatFresh, StallAfter
<1> QED
  BY <1>1, <1>2, <1>3, PTL DEF Spec

(***************************************************************************)
(* The days.  Start(d) is when day d begins.                               *)
(***************************************************************************)
Start(d) == d * DayLength
Clock    == Start(day) + hour

LEMMA StartOf ==
  /\ \A d \in Nat : Start(d) \in Nat /\ Start(d + 1) = Start(d) + DayLength
  /\ \A d, e \in Nat : d <= e => Start(d) <= Start(e)
<1>1. \A d \in Nat : Start(d) \in Nat /\ Start(d + 1) = Start(d) + DayLength
  BY Constants DEF Start
<1>2. \A d, e \in Nat : d <= e => Start(d) <= Start(e)
  <2> SUFFICES ASSUME NEW d \in Nat, NEW e \in Nat, d <= e PROVE Start(d) <= Start(e)
    OBVIOUS
  <2> DEFINE k == e - d
  <2>1. k \in Nat /\ e = d + k
    OBVIOUS
  <2>2. k * DayLength \in Nat
    BY <2>1, Constants
  <2>3. (d + k) * DayLength = d * DayLength + k * DayLength
    BY <2>1, Constants
  <2>4. d * DayLength \in Nat
    BY Constants
  <2> HIDE DEF k
  <2> QED
    BY <2>1, <2>2, <2>3, <2>4 DEF Start
<1> QED
  BY <1>1, <1>2

LEMMA EarlierDay ==
  ASSUME NEW d \in Nat, NEW e \in Nat, NEW p \in Nat, NEW q \in Nat, q < DayLength,
         Start(d) + p <= Start(e) + q
  PROVE  d <= e
<1> SUFFICES ASSUME e + 1 <= d PROVE FALSE
  OBVIOUS
<1>1. Start(e + 1) <= Start(d) /\ Start(e + 1) = Start(e) + DayLength
  BY StartOf
<1>2. Start(d) \in Nat /\ Start(e) \in Nat /\ DayLength \in Nat
  BY StartOf, Constants
<1> QED
  BY <1>1, <1>2

(* An actual cycle that begins an interval after the last one did, and is  *)
(* late, and lasts, is over before ActualDays more days are.               *)
LEMMA WithinTheDays ==
  ASSUME NEW d \in Nat, NEW e \in Nat, NEW p \in Nat, NEW q \in Nat, p < DayLength,
         Start(e) + q <= Start(d) + p + ActInterval + 2 * CycleTimeout
  PROVE  e <= d + ActualDays
<1> SUFFICES ASSUME d + 1 + ActualDays <= e PROVE FALSE
  BY Constants
<1>1. d + 1 + ActualDays \in Nat /\ d + 1 \in Nat
  BY Constants
<1>2. Start(d + 1 + ActualDays) <= Start(e) /\ Start(d + 1) = Start(d) + DayLength
  BY <1>1, StartOf
<1>3. Start(d + 1 + ActualDays) = Start(d + 1) + ActualDays * DayLength
  BY Constants DEF Start
<1>4. ActualDays * DayLength \in Nat /\ ActInterval + 2 * CycleTimeout <= ActualDays * DayLength
  BY Constants, CyclesFit
<1>5. Start(d) \in Nat /\ Start(e) \in Nat /\ Start(d + 1) \in Nat
  BY <1>1, StartOf
<1> DEFINE m == ActualDays * DayLength
<1> HIDE DEF m
<1>6. m \in Nat /\ ActInterval + 2 * CycleTimeout <= m
      /\ Start(d + 1 + ActualDays) = Start(d) + DayLength + m
  BY <1>2, <1>3, <1>4 DEF m
<1> QED
  BY <1>2, <1>5, <1>6, Constants

Covered(d) == d \in reported \/ \E late \in 1..ActualDays : d + late \in failedOn

(* The last actual cycle that is over began on day d at hour p (before the *)
(* first one, the process did): every day before d is covered, and the     *)
(* next cycle is due an interval later.                                    *)
Began(d, p) ==
    /\ \A e \in 0..(d - 1) : Covered(e)
    /\ pc \in {"idle", "estimate"} =>
          Clock <= Start(d) + p + sinceAct + (IF actTick THEN ActInterval ELSE 0)
    /\ pc = "actual" =>
          /\ Clock <= Start(d) + p + sinceAct + ActInterval
          /\ \E e \in Nat, q \in Nat :
                /\ q < DayLength
                /\ Clock = Start(e) + q + used
                /\ window = CompletedDays(e)

Days == \E d \in Nat, p \in Nat : p < DayLength /\ Began(d, p)

LEMMA InitDays == Init => Days
<1> SUFFICES ASSUME Init PROVE Days
  OBVIOUS
<1>1. hour \in Nat /\ hour < DayLength /\ day = 0 /\ Start(0) \in Nat
  BY Constants, StartOf DEF Init
<1>2. Began(0, hour)
  <2>1. sinceAct = 0 /\ ~actTick /\ pc = "estimate" /\ \A e \in 0..(0 - 1) : FALSE
    BY Constants DEF Init, sinceAct
  <2>2. Clock = Start(0) + hour
    BY <1>1 DEF Clock
  <2> QED
    BY <1>1, <2>1, <2>2 DEF Began
<1> QED
  BY <1>1, <1>2 DEF Days

LEMMA ClockTyped ==
  ASSUME TypeOK
  PROVE  Clock \in Nat /\ Start(day) \in Nat
<1>1. day \in Nat /\ hour \in Nat
  BY NumbersTyped
<1>2. Start(day) \in Nat
  BY <1>1, StartOf
<1> QED
  BY <1>1, <1>2 DEF Clock

(* Time passes.                                                            *)
LEMMA ClockRuns ==
  ASSUME TypeOK, Advance
  PROVE  Clock' = Clock + 1
<1>1. day \in Nat /\ hour \in Nat /\ hour < DayLength /\ Start(day) \in Nat /\ DayLength \in Nat
  BY NumbersTyped, ClockTyped, Constants
<1>2. CASE hour + 1 = DayLength
  <2>1. hour' = 0 /\ day' = day + 1
    BY <1>2, HourTurns DEF Advance, TypeOK
  <2>2. Start(day)' = Start(day) + DayLength
    BY <1>1, <2>1, StartOf DEF Start
  <2> QED
    BY <1>1, <1>2, <2>1, <2>2 DEF Clock
<1>3. CASE hour + 1 # DayLength
  <2>1. hour' = hour + 1 /\ day' = day
    BY <1>3, HourTurns DEF Advance, TypeOK
  <2>2. Start(day)' = Start(day)
    BY <2>1 DEF Start
  <2> QED
    BY <1>1, <2>1, <2>2 DEF Clock
<1> QED
  BY <1>2, <1>3

LEMMA AdvanceKeepsDays ==
  ASSUME TypeOK, Schedule, Days, Advance
  PROVE  Days'
<1>1. PICK d \in Nat, p \in Nat : p < DayLength /\ Began(d, p)
  BY DEF Days
<1>2. /\ pc' = pc /\ UNCHANGED <<window, reported, failedOn>>
      /\ pc \in {"idle", "estimate", "actual"}
      /\ pc # "idle" => used' = used + 1 /\ used < CycleTimeout
      /\ pc = "idle" => ~actTick
  <2>1. pc' = pc /\ UNCHANGED <<window, reported, failedOn>>
    BY DEF Advance, costs
  <2>2. pc \in {"idle", "estimate", "actual"} /\ (pc = "idle" => ~actTick)
    BY DEF Advance, Waiting
  <2>3. pc # "idle" => used' = used + 1 /\ used < CycleTimeout
    BY NumbersTyped, Constants DEF Advance, Waiting, CycleExpired
  <2> QED
    BY <2>1, <2>2, <2>3
<1>3. /\ Clock' = Clock + 1 /\ Clock \in Nat /\ Start(d) \in Nat
      /\ Start(d)' = Start(d)
  BY ClockRuns, ClockTyped, StartOf DEF Start
<1>4. \A e \in 0..(d - 1) : Covered(e)'
  BY <1>1, <1>2 DEF Began, Covered
<1>5. ASSUME pc' \in {"idle", "estimate"}
      PROVE  Clock' <= Start(d) + p + sinceAct' + (IF actTick' THEN ActInterval ELSE 0)
  <2>1. Clock <= Start(d) + p + sinceAct + (IF actTick THEN ActInterval ELSE 0)
    BY <1>1, <1>2, <1>5 DEF Began
  <2>2. CASE sinceAct' = sinceAct + 1 /\ (actTick' <=> actTick)
    BY <1>3, <2>1, <2>2, NumbersTyped, Constants
  <2>3. CASE sinceAct' = 0 /\ sinceAct + 1 = ActInterval /\ actTick'
    <3>1. ~actTick
      <4>1. CASE pc = "estimate"
        BY <1>2, <2>3, <4>1, NumbersTyped, Constants DEF Schedule
      <4> QED
        BY <1>2, <1>5, <4>1
    <3> QED
      BY <1>3, <2>1, <2>3, <3>1, NumbersTyped, Constants
  <2> QED
    BY <2>2, <2>3, ActTickerRuns
<1>6. ASSUME pc' = "actual"
      PROVE  /\ Clock' <= Start(d) + p + sinceAct' + ActInterval
             /\ \E e \in Nat, q \in Nat :
                    /\ q < DayLength
                    /\ Clock' = Start(e) + q + used'
                    /\ window' = CompletedDays(e)
  <2>1. pc = "actual" /\ Clock <= Start(d) + p + sinceAct + ActInterval
    BY <1>1, <1>2, <1>6 DEF Began
  <2>2. sinceAct' = sinceAct + 1
    <3>1. Schedule'
      BY AdvanceKeepsSchedule
    <3>2. ~actTick'
      BY <1>6, <3>1 DEF Schedule
    <3> QED
      BY <3>2, ActTickerRuns
  <2>3. Clock' <= Start(d) + p + sinceAct' + ActInterval
    BY <1>3, <2>1, <2>2, NumbersTyped, Constants
  <2>4. PICK e \in Nat, q \in Nat :
          q < DayLength /\ Clock = Start(e) + q + used /\ window = CompletedDays(e)
    BY <1>1, <2>1 DEF Began
  <2>5. Start(e) \in Nat
    BY StartOf
  <2>6. Clock' = Start(e) + q + used'
    BY <1>2, <1>3, <2>1, <2>4, <2>5, NumbersTyped
  <2> QED
    BY <1>2, <2>3, <2>4, <2>6
<1>7. Began(d, p)'
  BY <1>4, <1>5, <1>6 DEF Began, Start, CompletedDays
<1> QED
  BY <1>1, <1>7 DEF Days

(* An actual cycle begins: it asks for the completed days of today.        *)
LEMMA BeginKeepsDays ==
  ASSUME TypeOK, Schedule, Days, StartActual \/ (EndEstimate /\ starting)
  PROVE  Days'
<1>1. PICK d \in Nat, p \in Nat : p < DayLength /\ Began(d, p)
  BY DEF Days
<1>2. /\ pc \in {"idle", "estimate"} /\ pc' = "actual" /\ used' = 0
      /\ window' = CompletedDays(day) /\ UNCHANGED <<toAct, day, hour, reported, failedOn>>
  BY DEF StartActual, EndEstimate, BeginActual, clock
<1>3. Clock' = Clock /\ sinceAct' = sinceAct
  BY <1>2 DEF Clock, Start, sinceAct
<1>4. /\ day \in Nat /\ hour \in Nat /\ hour < DayLength /\ Clock = Start(day) + hour
      /\ Clock \in Nat /\ Start(day) \in Nat /\ Start(d) \in Nat
  BY NumbersTyped, ClockTyped, StartOf DEF Clock
<1>5. \A e \in 0..(d - 1) : Covered(e)'
  BY <1>1, <1>2 DEF Began, Covered
<1>6. Clock <= Start(d) + p + sinceAct + (IF actTick THEN ActInterval ELSE 0)
  BY <1>1, <1>2 DEF Began
<1>7. Clock <= Start(d) + p + sinceAct + ActInterval
  BY <1>4, <1>6, NumbersTyped, Constants
<1>8. Clock' = Start(day) + hour + used'
  BY <1>2, <1>3, <1>4
<1>9. Began(d, p)'
  BY <1>2, <1>3, <1>4, <1>5, <1>7, <1>8 DEF Began, Start, CompletedDays
<1> QED
  BY <1>1, <1>9 DEF Days

(* It ends: every day before the one it began on is covered, by what it    *)
(* has reported or by its failure on a day that still asks for them.       *)
LEMMA EndKeepsDays ==
  ASSUME TypeOK, Schedule, Days, ActualAnswers \/ ActualFails
  PROVE  Days'
<1>1. PICK d \in Nat, p \in Nat : p < DayLength /\ Began(d, p)
  BY DEF Days
<1>2. /\ pc = "actual" /\ pc' = "idle" /\ UNCHANGED <<toAct, actTick, day, hour>>
      /\ \/ reported' = reported \cup window /\ failedOn' = failedOn
         \/ failedOn' = failedOn \cup {day} /\ reported' = reported
  BY DEF ActualAnswers, ActualFails, EndActual, tickers, clock
<1>3. PICK e \in Nat, q \in Nat :
        q < DayLength /\ Clock = Start(e) + q + used /\ window = CompletedDays(e)
  BY <1>1, <1>2 DEF Began
<1>4. Clock' = Clock /\ sinceAct' = sinceAct
  BY <1>2 DEF Clock, Start, sinceAct
<1>5. used <= sinceAct /\ sinceAct <= CycleTimeout + used /\ ~actTick
  BY <1>2 DEF Schedule
<1>6. /\ day \in Nat /\ hour \in Nat /\ hour < DayLength /\ Clock = Start(day) + hour
      /\ Clock \in Nat /\ Start(day) \in Nat /\ Start(d) \in Nat /\ Start(e) \in Nat
  BY NumbersTyped, ClockTyped, StartOf DEF Clock
<1>7. Clock <= Start(d) + p + ActInterval + 2 * CycleTimeout
  <2>1. Clock <= Start(d) + p + sinceAct + ActInterval
    BY <1>1, <1>2 DEF Began
  <2> QED
    BY <1>5, <1>6, <2>1, NumbersTyped, Constants
<1>8. e <= d + ActualDays
  <2>1. Start(e) + q <= Start(d) + p + ActInterval + 2 * CycleTimeout
    BY <1>3, <1>6, <1>7, NumbersTyped, Constants
  <2> QED
    BY <1>1, <2>1, WithinTheDays
<1>9. day <= d + ActualDays
  <2>1. Start(day) + hour <= Start(d) + p + ActInterval + 2 * CycleTimeout
    BY <1>6, <1>7
  <2> QED
    BY <1>1, <1>6, <2>1, WithinTheDays
<1>10. e <= day
  <2>1. Start(e) + q <= Start(day) + hour
    BY <1>3, <1>6, NumbersTyped
  <2> QED
    BY <1>6, <2>1, EarlierDay
<1>11. ASSUME NEW x \in 0..(e - 1) PROVE Covered(x)'
  <2>1. CASE x < d
    <3>1. Covered(x)
      BY <1>1, <2>1 DEF Began
    <3> QED
      BY <1>2, <3>1 DEF Covered
  <2>2. CASE d <= x
    <3>1. CASE reported' = reported \cup window
      <4>1. x \in CompletedDays(e)
        BY <1>8, <2>2, Constants DEF CompletedDays
      <4> QED
        BY <1>3, <3>1, <4>1 DEF Covered
    <3>2. CASE failedOn' = failedOn \cup {day}
      <4>1. day - x \in 1..ActualDays /\ x + (day - x) = day
        BY <1>6, <1>9, <1>10, <2>2, Constants
      <4> QED
        BY <3>2, <4>1 DEF Covered
    <3> QED
      BY <1>2, <3>1, <3>2
  <2> QED
    BY <2>1, <2>2
<1>12. Clock' <= Start(e) + q + sinceAct' + (IF actTick' THEN ActInterval ELSE 0)
  <2>1. ~actTick'
    BY <1>2, <1>5
  <2> QED
    BY <1>3, <1>4, <1>5, <1>6, <2>1, NumbersTyped
<1>13. Began(e, q)'
  BY <1>2, <1>11, <1>12 DEF Began, Start
<1> QED
  BY <1>3, <1>13 DEF Days

LEMMA StepKeepsDays == TypeOK /\ Schedule /\ Days /\ [Next]_vars => Days'
<1> SUFFICES ASSUME TypeOK, Schedule, Days, [Next]_vars PROVE Days'
  OBVIOUS
<1>1. CASE \/ StartEstimate \/ Terminate \/ Stop
           \/ EndEstimate /\ ~starting
           \/ UNCHANGED vars
  <2>1. /\ pc' \in {"idle", "estimate"} => pc \in {"idle", "estimate"}
        /\ pc' = "actual" => pc = "actual" /\ used' = used
        /\ UNCHANGED <<toAct, actTick, day, hour, window, reported, failedOn>>
    BY <1>1 DEF StartEstimate, Terminate, Stop, EndEstimate, vars, tickers, clock, costs
  <2>2. Clock' = Clock /\ sinceAct' = sinceAct
    BY <2>1 DEF Clock, Start, sinceAct
  <2>3. PICK d \in Nat, p \in Nat : p < DayLength /\ Began(d, p)
    BY DEF Days
  <2>4. Began(d, p)'
    BY <2>1, <2>2, <2>3 DEF Began, Covered, Start, CompletedDays
  <2> QED
    BY <2>3, <2>4 DEF Days
<1> QED
  BY <1>1, BeginKeepsDays, EndKeepsDays, AdvanceKeepsDays DEF Next

(* No completed day is missed (EmitActual, poller.go:181) but for a cycle  *)
(* that failed on one of the days that ask for it.                         *)
THEOREM NoneMissed == Spec => []NoDayMissed
<1>1. Init => TypeOK /\ Schedule /\ Days
  BY InitTyped, InitScheduled, InitDays
<1>2. (TypeOK /\ Schedule /\ Days) /\ [Next]_vars => (TypeOK /\ Schedule /\ Days)'
  BY StepTyped, StepKeepsSchedule, StepKeepsDays
<1>3. TypeOK /\ Schedule /\ Days => NoDayMissed
  <2> SUFFICES ASSUME TypeOK, Schedule, Days, pc = "idle",
                      NEW x \in 0..(day - ActualDays - 1)
               PROVE  Covered(x)
    BY DEF NoDayMissed, Covered
  <2>1. PICK d \in Nat, p \in Nat : p < DayLength /\ Began(d, p)
    BY DEF Days
  <2>2. Clock <= Start(d) + p + sinceAct + (IF actTick THEN ActInterval ELSE 0)
    BY <2>1 DEF Began
  <2>3. actTick => sinceAct <= CycleTimeout
    BY DEF Schedule
  <2>4. Clock \in Nat /\ Start(d) \in Nat /\ Clock = Start(day) + hour
        /\ day \in Nat /\ hour \in Nat
    BY NumbersTyped, ClockTyped, StartOf DEF Clock
  <2>5. Clock <= Start(d) + p + ActInterval + 2 * CycleTimeout
    BY <2>2, <2>3, <2>4, NumbersTyped, Constants
  <2>6. day <= d + ActualDays
    BY <2>1, <2>4, <2>5, WithinTheDays
  <2>7. x \in 0..(d - 1)
    BY <2>4, <2>6, Constants
  <2> QED
    BY <2>1, <2>7 DEF Began
<1> QED
  BY <1>1, <1>2, <1>3, PTL DEF Spec

(***************************************************************************)
(* The estimate cycle: whatever AWS answers and whatever fails, what is    *)
(* exported is priced by the book (AtBook), whose entries are prices that  *)
(* AWS quoted for their type (BookIsQuoted) and are never replaced: the    *)
(* one price per type that NeverGuessed asks for is the book's.            *)
(***************************************************************************)
BookIsQuoted == \A t \in DOMAIN book : book[t] \in Quoted(t)

AtBook ==
    \A s \in DOMAIN gauges : Needs(s) \subseteq DOMAIN book /\ gauges[s] = Value(s, book)

LEMMA OverDomain ==
  ASSUME NEW f, NEW g
  PROVE  /\ DOMAIN Over(f, g) = DOMAIN f \cup DOMAIN g
         /\ \A x \in DOMAIN f : Over(f, g)[x] = f[x]
         /\ \A x \in DOMAIN g \ DOMAIN f : Over(f, g)[x] = g[x]
BY DEF Over

LEMMA NothingIsEmpty == DOMAIN Nothing = {}
BY DEF Nothing

LEMMA LookupsAreTypes ==
  ASSUME CostTypeOK, NEW vols, DOMAIN vols \subseteq Volumes
  PROVE  Lookups(vols) \subseteq Types
<1>1. DOMAIN listed \subseteq Instances
  BY DEF CostTypeOK
<1>2. \A i \in DOMAIN listed : InstanceType[i] \in Types
  BY <1>1, TypesAreAskedFor DEF Types
<1>3. \A v \in DOMAIN vols : VolumeType[v] \in Types
  BY TypesAreAskedFor DEF Types
<1> QED
  BY <1>2, <1>3 DEF Lookups

(* A fetch is an error or a price AWS quotes for the type that was asked.  *)
LEMMA FetchedIsQuoted ==
  ASSUME NEW t, NEW price \in Fetched(t), price # NoPrice
  PROVE  price \in Quoted(t)
<1>1. PICK list \in PriceLists[t] \ {<<>>} : price \in parseOnDemandUSD(Head(list))
  BY DEF Fetched
<1>2. price \in Head(list) \ {Blank, Garbled}
  BY <1>1 DEF parseOnDemandUSD
<1> QED
  BY <1>2 DEF Quoted

LEMMA EnsureLearns ==
  ASSUME NEW t \in todo, Ensure(t)
  PROVE  \/ book' = book
         \/ /\ DOMAIN book' = DOMAIN book \cup {t}
            /\ book'[t] \in Quoted(t)
            /\ \A x \in DOMAIN book : book'[x] = book[x]
<1>1. CASE Known(t)
  BY <1>1 DEF Ensure
<1>2. CASE ~Known(t)
  <2>1. PICK price \in Fetched(t) :
          book' = IF price = NoPrice THEN book ELSE Over(book, [x \in {t} |-> price])
    BY <1>2 DEF Ensure
  <2>2. CASE price = NoPrice
    BY <2>1, <2>2
  <2>3. CASE price # NoPrice
    <3>1. price \in Quoted(t)
      BY <2>3, FetchedIsQuoted
    <3> DEFINE one == [x \in {t} |-> price]
    <3>2. DOMAIN one = {t} /\ one[t] = price /\ t \notin DOMAIN book
      BY <1>2 DEF Known
    <3>3. book' = Over(book, one)
      BY <2>1, <2>3
    <3> HIDE DEF one
    <3>4. /\ DOMAIN Over(book, one) = DOMAIN book \cup DOMAIN one
          /\ \A x \in DOMAIN book : Over(book, one)[x] = book[x]
          /\ \A x \in DOMAIN one \ DOMAIN book : Over(book, one)[x] = one[x]
      BY OverDomain
    <3>5. Over(book, one)[t] \in Quoted(t)
      BY <3>1, <3>2, <3>4
    <3> QED
      BY <3>2, <3>3, <3>4, <3>5
  <2> QED
    BY <2>2, <2>3
<1> QED
  BY <1>1, <1>2

LEMMA SamplesAreSeries == DOMAIN Samples \subseteq Series
BY DEF Samples

LEMMA InitCost == CostInit => CostTypeOK /\ BookIsQuoted /\ AtBook
BY NothingIsEmpty DEF CostInit, CostTypeOK, BookIsQuoted, AtBook, States

LEMMA StepTypedCost == CostTypeOK /\ [CostNext]_costVars => CostTypeOK'
<1> SUFFICES ASSUME CostTypeOK, [CostNext]_costVars PROVE CostTypeOK'
  OBVIOUS
<1>1. CASE Change
  <2>1. UNCHANGED <<step, listed, disks, todo, book, gauges>>
    BY <1>1 DEF Change, cycle
  <2>2. fleet' \in [Instances -> States] /\ address' \subseteq Instances
        /\ attached' \in [Volumes -> SUBSET Instances]
    <3>1. ASSUME NEW i \in Instances, NEW s \in States, NEW a \in BOOLEAN,
                 fleet' = [fleet EXCEPT ![i] = s],
                 address' = IF a /\ s # "gone" THEN address \cup {i} ELSE address \ {i},
                 attached' = [v \in Volumes |-> IF s = "gone" THEN attached[v] \ {i}
                                                ELSE attached[v]]
          PROVE  /\ fleet' \in [Instances -> States] /\ address' \subseteq Instances
                 /\ attached' \in [Volumes -> SUBSET Instances]
      BY <3>1 DEF CostTypeOK
    <3>2. ASSUME NEW v \in Volumes, NEW on \in SUBSET {i \in Instances : fleet[i] # "gone"},
                 attached' = [attached EXCEPT ![v] = on], UNCHANGED <<fleet, address>>
          PROVE  /\ fleet' \in [Instances -> States] /\ address' \subseteq Instances
                 /\ attached' \in [Volumes -> SUBSET Instances]
      BY <3>2 DEF CostTypeOK
    <3> QED
      BY <1>1, <3>1, <3>2 DEF Change
  <2> QED
    BY <2>1, <2>2 DEF CostTypeOK
<1>2. CASE Begin \/ CredentialsUsable \/ EndPrices
  BY <1>2 DEF Begin, CredentialsUsable, EndPrices, CostTypeOK, aws
<1>3. CASE CredentialsFail \/ DescribeFails
  BY <1>3, NothingIsEmpty DEF CredentialsFail, DescribeFails, GiveUp, CostTypeOK, aws
<1>4. CASE DescribeInstances
  BY <1>4 DEF DescribeInstances, CostTypeOK, aws
<1>5. CASE DescribeVolumes
  <2>1. DOMAIN disks' = Volumes /\ todo' = Lookups(disks')
    BY <1>5 DEF DescribeVolumes, CostTypeOK
  <2>2. todo' \subseteq Types
    BY <2>1, LookupsAreTypes
  <2> QED
    BY <1>5, <2>1, <2>2 DEF DescribeVolumes, CostTypeOK, aws
<1>6. ASSUME NEW t \in todo, Ensure(t) PROVE CostTypeOK'
  <2>1. DOMAIN book' \subseteq Types
    BY <1>6, EnsureLearns DEF CostTypeOK
  <2> QED
    BY <1>6, <2>1 DEF Ensure, CostTypeOK, aws
<1>7. CASE Emit
  <2>1. DOMAIN gauges' \subseteq Series
    BY <1>7, OverDomain, SamplesAreSeries DEF Emit, CostTypeOK
  <2> QED
    BY <1>7, <2>1, NothingIsEmpty DEF Emit, CostTypeOK, aws
<1>8. CASE UNCHANGED costVars
  BY <1>8 DEF costVars, aws, cycle, CostTypeOK
<1> QED
  BY <1>1, <1>2, <1>3, <1>4, <1>5, <1>6, <1>7, <1>8 DEF CostNext

(* The book only grows, by quoted prices.                                  *)
LEMMA StepKeepsBook ==
  ASSUME [CostNext]_costVars, BookIsQuoted
  PROVE  /\ BookIsQuoted'
         /\ DOMAIN book \subseteq DOMAIN book'
         /\ \A t \in DOMAIN book : book'[t] = book[t]
<1>1. CASE book' = book
  BY <1>1 DEF BookIsQuoted, Quoted
<1>2. ASSUME NEW t \in todo, Ensure(t)
      PROVE  /\ BookIsQuoted'
             /\ DOMAIN book \subseteq DOMAIN book'
             /\ \A x \in DOMAIN book : book'[x] = book[x]
  <2>1. CASE book' = book
    BY <2>1, <1>1
  <2>2. CASE book' # book
    <3>1. /\ DOMAIN book' = DOMAIN book \cup {t}
          /\ book'[t] \in Quoted(t)
          /\ \A x \in DOMAIN book : book'[x] = book[x]
      BY <1>2, <2>2, EnsureLearns
    <3> QED
      BY <3>1 DEF BookIsQuoted, Quoted
  <2> QED
    BY <2>1, <2>2
<1> QED
  BY <1>1, <1>2
  DEF CostNext, Change, Begin, CredentialsFail, CredentialsUsable, DescribeInstances,
      DescribeVolumes, DescribeFails, GiveUp, EndPrices, Emit, costVars

(* A value depends on no other price than that of the type it needs.       *)
LEMMA ValueNeeds ==
  ASSUME NEW s, NEW p, NEW q, \A t \in Needs(s) : p[t] = q[t]
  PROVE  Value(s, p) = Value(s, q)
<1>1. CASE s.part = "compute"
  BY <1>1 DEF Needs, Value
<1>2. CASE s.part = "public_ipv4"
  BY <1>2 DEF Value
<1>3. CASE s.part # "compute" /\ s.part # "public_ipv4"
  BY <1>3 DEF Needs, Value
<1> QED
  BY <1>1, <1>2, <1>3

(* A sample is the value of its series at the prices of the book.          *)
LEMMA SampleIsValue ==
  ASSUME CostTypeOK, NEW s, s.id \in DOMAIN listed, s.state = listed[s.id].state,
         s.part \in DOMAIN Sample(s.id)
  PROVE  Needs(s) \subseteq DOMAIN book /\ Sample(s.id)[s.part] = Value(s, book)
<1> DEFINE i == s.id
           part == s.part
           Right(x) == Needs(s) \subseteq DOMAIN book /\ x = Value(s, book)
           c == compute(i)
           d == storage(i)
           a == publicIPv4(i)
<1>1. DOMAIN c \subseteq {"compute"} /\ DOMAIN a \subseteq {"public_ipv4"}
  BY NothingIsEmpty DEF compute, publicIPv4
<1>2. DOMAIN d = {v \in volumesOf(i) : Known(VolumeType[v])}
  BY DEF storage
<1>3. DOMAIN d \subseteq Volumes
  BY <1>2 DEF volumesOf, CostTypeOK
<1>4. part \in DOMAIN c => Right(c[part])
  <2> SUFFICES ASSUME part \in DOMAIN c PROVE Right(c[part])
    OBVIOUS
  <2>1. part = "compute"
    BY <1>1
  <2>2. CASE listed[i].state # "running"
    BY <2>1, <2>2 DEF compute, Value, Needs
  <2>3. CASE listed[i].state = "running"
    <3>1. Known(InstanceType[i])
      BY <2>3, NothingIsEmpty DEF compute
    <3>2. c[part] = daily(book[InstanceType[i]])
      BY <2>1, <2>3, <3>1 DEF compute
    <3> QED
      BY <2>1, <2>3, <3>1, <3>2 DEF Value, Needs, Known
  <2> QED
    BY <2>2, <2>3
<1>5. part \in DOMAIN d => Right(d[part])
  <2> SUFFICES ASSUME part \in DOMAIN d PROVE Right(d[part])
    OBVIOUS
  <2>1. part # "compute" /\ part # "public_ipv4"
    BY <1>3, PartsAreNoVolumes
  <2>2. d[part] = 24 * book[VolumeType[part]] * Size[part] /\ Known(VolumeType[part])
    BY <1>2 DEF storage
  <2> QED
    BY <2>1, <2>2 DEF Value, Needs, Known
<1>6. part \in DOMAIN a => Right(a[part])
  BY <1>1, NothingIsEmpty DEF publicIPv4, Value, Needs
<1>7. Sample(i) = Over(c, Over(d, a))
  BY DEF Sample
<1> HIDE DEF c, d, a, Right
<1> DEFINE rest == Over(d, a)
<1>8. /\ DOMAIN rest = DOMAIN d \cup DOMAIN a
      /\ \A x \in DOMAIN d : rest[x] = d[x]
      /\ \A x \in DOMAIN a \ DOMAIN d : rest[x] = a[x]
  BY OverDomain
<1>9. Sample(i) = Over(c, rest)
  BY <1>7
<1> HIDE DEF rest
<1>10. /\ DOMAIN Sample(i) = DOMAIN c \cup DOMAIN rest
       /\ \A x \in DOMAIN c : Sample(i)[x] = c[x]
       /\ \A x \in DOMAIN rest \ DOMAIN c : Sample(i)[x] = rest[x]
  <2>1. /\ DOMAIN Over(c, rest) = DOMAIN c \cup DOMAIN rest
        /\ \A x \in DOMAIN c : Over(c, rest)[x] = c[x]
        /\ \A x \in DOMAIN rest \ DOMAIN c : Over(c, rest)[x] = rest[x]
    BY OverDomain
  <2> QED
    BY <1>9, <2>1
<1>11. \/ part \in DOMAIN c /\ Sample(i)[part] = c[part]
       \/ part \in DOMAIN d /\ Sample(i)[part] = d[part]
       \/ part \in DOMAIN a /\ Sample(i)[part] = a[part]
  BY <1>8, <1>10
<1>12. Right(Sample(i)[part])
  BY <1>4, <1>5, <1>6, <1>11
<1> QED
  BY <1>12 DEF Right

LEMMA StepStaysAtBook ==
  CostTypeOK /\ BookIsQuoted /\ AtBook /\ [CostNext]_costVars => AtBook'
<1> SUFFICES ASSUME CostTypeOK, BookIsQuoted, AtBook, [CostNext]_costVars,
                    NEW s \in DOMAIN gauges'
             PROVE  Needs(s) \subseteq DOMAIN book' /\ gauges'[s] = Value(s, book')
  BY DEF AtBook, Needs, Value, daily
<1>1. DOMAIN book \subseteq DOMAIN book' /\ \A t \in DOMAIN book : book'[t] = book[t]
  BY StepKeepsBook
<1>2. ASSUME Needs(s) \subseteq DOMAIN book, gauges'[s] = Value(s, book)
      PROVE  Needs(s) \subseteq DOMAIN book' /\ gauges'[s] = Value(s, book')
  <2>1. \A t \in Needs(s) : book[t] = book'[t]
    BY <1>1, <1>2
  <2>2. Value(s, book) = Value(s, book')
    BY <2>1, ValueNeeds
  <2> QED
    BY <1>1, <1>2, <2>2
<1>3. CASE gauges' = gauges
  BY <1>2, <1>3 DEF AtBook
<1>4. CASE Emit
  <2>1. gauges' = Over(Samples, gauges)
    BY <1>4 DEF Emit
  <2>2. /\ DOMAIN Over(Samples, gauges) = DOMAIN Samples \cup DOMAIN gauges
        /\ \A x \in DOMAIN Samples : Over(Samples, gauges)[x] = Samples[x]
        /\ \A x \in DOMAIN gauges \ DOMAIN Samples : Over(Samples, gauges)[x] = gauges[x]
    BY OverDomain
  <2>3. CASE s \in DOMAIN Samples
    <3>1. /\ s.id \in DOMAIN listed /\ s.state = listed[s.id].state
          /\ s.part \in DOMAIN Sample(s.id)
          /\ Samples[s] = Sample(s.id)[s.part]
      BY <2>3 DEF Samples
    <3>2. gauges'[s] = Samples[s]
      BY <2>1, <2>2, <2>3
    <3>3. Needs(s) \subseteq DOMAIN book /\ Samples[s] = Value(s, book)
      BY <3>1, SampleIsValue
    <3> QED
      BY <1>2, <3>2, <3>3
  <2>4. CASE s \notin DOMAIN Samples
    <3>1. s \in DOMAIN gauges /\ gauges'[s] = gauges[s]
      BY <2>1, <2>2, <2>4
    <3> QED
      BY <1>2, <3>1 DEF AtBook
  <2> QED
    BY <2>3, <2>4
<1> QED
  BY <1>3, <1>4
  DEF CostNext, Change, Begin, CredentialsFail, CredentialsUsable, DescribeInstances,
      DescribeVolumes, DescribeFails, GiveUp, Ensure, EndPrices, costVars

(* The one price per type is what the book says of the types in use.       *)
LEMMA BookIsNoGuess ==
  BookIsQuoted /\ AtBook /\ CostTypeOK => NeverGuessed
<1> SUFFICES ASSUME BookIsQuoted, AtBook, CostTypeOK PROVE NeverGuessed
  OBVIOUS
<1> DEFINE price == [t \in Priced |-> book[t]]
<1>1. Priced \subseteq DOMAIN book
  BY DEF Priced, AtBook
<1>2. \A t \in Priced : t \in Types /\ book[t] \in Quoted(t)
  BY <1>1 DEF BookIsQuoted, CostTypeOK
<1>3. price \in [Priced -> UNION {Quoted(t) : t \in Types}]
  BY <1>2
<1>4. \A t \in Priced : price[t] \in Quoted(t)
  BY <1>2
<1>5. ASSUME NEW s \in DOMAIN gauges PROVE gauges[s] = Value(s, price)
  <2>1. \A t \in Needs(s) : book[t] = price[t]
    BY DEF Priced
  <2> HIDE DEF price
  <2>2. Value(s, book) = Value(s, price)
    BY <2>1, ValueNeeds
  <2> QED
    BY <2>2 DEF AtBook
<1> HIDE DEF price
<1> QED
  BY <1>3, <1>4, <1>5 DEF NeverGuessed

(* The types of an estimate cycle (EmitEstimated, poller.go:161), which    *)
(* estimates when ensurePrices has tried every lookup (poller.go:249-260). *)
THEOREM CostTypeCorrect == CostSpec => []CostTypeOK
BY InitCost, StepTypedCost, PTL DEF CostSpec

(* No exported value is a guess (Compute, estimate.go:73): for any price   *)
(* lists AWS may answer with, whatever fails and however the fleet         *)
(* changes, all of them are valued at one price per type, which AWS quotes *)
(* for that type.                                                          *)
THEOREM NoGuesses == CostSpec => []NeverGuessed
<1>1. BookIsQuoted /\ [CostNext]_costVars => BookIsQuoted'
  BY StepKeepsBook
<1> QED
  BY <1>1, InitCost, StepTypedCost, StepStaysAtBook, BookIsNoGuess, PTL DEF CostSpec
=============================================================================
