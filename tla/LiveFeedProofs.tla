--------------------------- MODULE LiveFeedProofs ---------------------------
(***************************************************************************)
(* For any number of replicas, keys, records and restarts: a replica that  *)
(* has read a topic to its end has the newest record of every key that it  *)
(* does not drop (ReplicasAgree).                                          *)
(*                                                                         *)
(* Compaction takes only superseded records (Compacted) and a reader only  *)
(* passes what compaction has left, so what a replica has passed is in its *)
(* state, or superseded, or dropped (Relays); and what is in the state of  *)
(* a subject are records of that subject (Sorted).                         *)
(***************************************************************************)
EXTENDS LiveFeed, WellFoundedInduction, TLAPS

Record == [key : Keys \cup {NoKey}, json : BOOLEAN, time : Nat]

Typed ==
    /\ log \in [Topics -> Seq(Record)]
    /\ deleted \in [Topics -> SUBSET Nat]
    /\ now \in Nat
    /\ offset \in [Replicas -> [Topics -> Nat]]
    /\ state \in [Replicas -> [Subjects -> SUBSET Nat]]
    /\ \A r \in Replicas, t \in Topics : offset[r][t] <= Len(log[t])

Compacted ==
    \A t \in Topics : \A i \in deleted[t] : i \in DOMAIN log[t] /\ Superseded(t, i)

Sorted ==
    \A r \in Replicas, s \in Subjects : \A i \in state[r][s] :
        i \in DOMAIN log[s[1]] /\ SubjectOf(s[1], log[s[1]][i]) = s

Relays ==
    \A r \in Replicas, t \in Topics : \A i \in DOMAIN log[t] :
        i <= offset[r][t] /\ ~Superseded(t, i) /\ ~Dropped(t, log[t][i]) =>
            i \in state[r][SubjectOf(t, log[t][i])]

IInv == Typed /\ Compacted /\ Sorted /\ Relays

(***************************************************************************)
(* Least and greatest of a set of positions.                               *)
(***************************************************************************)
Less == {p \in Nat \X Nat : p[1] < p[2]}

LEMMA LessWellFounded == IsWellFoundedOn(Less, Nat)
<1>1. Less = OpToRel(<, Nat)
  BY DEF Less, OpToRel
<1> QED
  BY <1>1, NatLessThanWellFounded

LEMMA MinIsLeast ==
  ASSUME NEW S \in SUBSET Nat, S # {}
  PROVE  Min(S) \in S /\ \A m \in S : Min(S) <= m
<1>1. PICK n \in S : \A m \in S : ~(<<m, n>> \in Less)
  BY LessWellFounded, WFMin
<1>2. \A m \in S : n <= m
  <2> SUFFICES ASSUME NEW m \in S PROVE n <= m
    OBVIOUS
  <2>1. n \in Nat /\ m \in Nat /\ ~(m < n)
    BY <1>1 DEF Less
  <2> QED
    BY <2>1
<1> QED
  BY <1>2 DEF Min

LEMMA MaxIsGreatest ==
  ASSUME NEW S \in SUBSET Nat, NEW i \in S, \A j \in S : j <= i
  PROVE  Max(S) = i
<1>1. \A j \in S : (\A y \in S : j >= y) => j = i
  OBVIOUS
<1>2. \A y \in S : i >= y
  OBVIOUS
<1> QED
  BY <1>1, <1>2 DEF Max

(* A record's subject is one, and tells its key.                           *)
LEMMA SubjectTellsKey ==
  ASSUME NEW t \in Topics, NEW rec \in Record
  PROVE  /\ SubjectOf(t, rec) \in Subjects /\ SubjectOf(t, rec)[1] = t
         /\ \A other \in Record :
                SubjectOf(t, other) = SubjectOf(t, rec) => other.key = rec.key
BY NoKeyIsNoKey DEF SubjectOf, Subjects, Record

LEMMA InitEstablishes == Init => IInv
<1> SUFFICES ASSUME Init PROVE IInv
  OBVIOUS
<1>1. Typed
  BY DEF Init, Typed, Subjects
<1>2. Compacted /\ Sorted /\ Relays
  BY DEF Init, Compacted, Sorted, Relays, Subjects
<1> QED
  BY <1>1, <1>2 DEF IInv

(***************************************************************************)
(* Kafka's steps.                                                          *)
(***************************************************************************)
LEMMA WritePreserves ==
  ASSUME IInv, NEW t \in Topics, Write(t)
  PROVE  IInv'
<1>1. PICK rec \in Record : log' = [log EXCEPT ![t] = Append(@, rec)]
  BY DEF Write, Record, IInv, Typed
<1>2. UNCHANGED <<deleted, now, offset, state>>
  BY DEF Write, wsfeed
<1>3. /\ log' \in [Topics -> Seq(Record)]
      /\ \A u \in Topics :
            /\ Len(log[u]) <= Len(log'[u]) /\ Len(log[u]) \in Nat
            /\ DOMAIN log[u] = 1..Len(log[u]) /\ DOMAIN log'[u] = 1..Len(log'[u])
            /\ \A i \in DOMAIN log[u] : log'[u][i] = log[u][i]
  BY <1>1 DEF IInv, Typed
<1>4. Typed'
  BY <1>2, <1>3 DEF IInv, Typed
<1>5. \A u \in Topics, i \in Nat :
        i \in DOMAIN log[u] /\ Superseded(u, i) => Superseded(u, i)'
  BY <1>3 DEF Superseded
<1>6. Compacted'
  <2>1. ASSUME NEW u \in Topics, NEW i \in deleted[u]
        PROVE  i \in DOMAIN log'[u] /\ Superseded(u, i)'
    BY <1>2, <1>3, <1>5, <2>1 DEF IInv, Typed, Compacted
  <2> QED
    BY <1>2, <2>1 DEF Compacted
<1>7. Sorted'
  <2>1. ASSUME NEW r \in Replicas, NEW s \in Subjects, NEW i \in state[r][s]
        PROVE  i \in DOMAIN log'[s[1]] /\ SubjectOf(s[1], log'[s[1]][i]) = s
    BY <1>3, <2>1 DEF IInv, Sorted, Subjects
  <2> QED
    BY <1>2, <2>1 DEF Sorted, SubjectOf
<1>8. Relays'
  <2>1. ASSUME NEW r \in Replicas, NEW u \in Topics, NEW i \in DOMAIN log'[u],
               i <= offset[r][u], ~Superseded(u, i)', ~Dropped(u, log'[u][i])
        PROVE  i \in state[r][SubjectOf(u, log'[u][i])]
    <3>1. i \in Nat /\ i \in DOMAIN log[u] /\ log'[u][i] = log[u][i]
      BY <1>3, <2>1 DEF IInv, Typed
    <3>2. ~Superseded(u, i)
      BY <1>5, <2>1, <3>1
    <3> QED
      BY <2>1, <3>1, <3>2 DEF IInv, Relays
  <2> QED
    BY <1>2, <2>1 DEF Relays, Dropped, SubjectOf
<1> QED
  BY <1>4, <1>6, <1>7, <1>8 DEF IInv

LEMMA CompactPreserves ==
  ASSUME IInv, NEW t \in Topics, Compact(t)
  PROVE  IInv'
<1>1. PICK i \in DOMAIN log[t] \ deleted[t] :
        Superseded(t, i) /\ deleted' = [deleted EXCEPT ![t] = @ \cup {i}]
  BY DEF Compact
<1>2. UNCHANGED <<log, now, offset, state>>
  BY DEF Compact, wsfeed
<1>3. i \in Nat
  BY <1>1 DEF IInv, Typed
<1>4. Typed'
  BY <1>1, <1>2, <1>3 DEF IInv, Typed
<1>5. Compacted'
  BY <1>1, <1>2 DEF IInv, Typed, Compacted, Superseded
<1>6. Sorted' /\ Relays'
  BY <1>2 DEF IInv, Sorted, Relays, SubjectOf, Superseded, Dropped
<1> QED
  BY <1>4, <1>5, <1>6 DEF IInv

(***************************************************************************)
(* The consumer passes the least record that is left: the ones before it   *)
(* are deleted, hence superseded.                                          *)
(***************************************************************************)
LEMMA ConsumePreserves ==
  ASSUME IInv, NEW r \in Replicas, NEW t \in Topics, Consume(r, t)
  PROVE  IInv'
<1> DEFINE left == {j \in DOMAIN log[t] \ deleted[t] : j > offset[r][t]}
           i    == Min(left)
           rec  == log[t][i]
           sub  == SubjectOf(t, rec)
<1>1. /\ left # {}
      /\ offset' = [offset EXCEPT ![r][t] = i]
      /\ state' = IF Dropped(t, rec) THEN state
                  ELSE [state EXCEPT ![r][sub] = @ \cup {i}]
      /\ UNCHANGED <<log, deleted, now>>
  BY DEF Consume, kafka
<1>2. log[t] \in Seq(Record) /\ DOMAIN log[t] = 1..Len(log[t]) /\ Len(log[t]) \in Nat
  BY DEF IInv, Typed
<1>3. i \in left /\ \A j \in left : i <= j
  <2>1. left \in SUBSET Nat
    BY <1>2
  <2> HIDE DEF left
  <2> QED
    BY <1>1, <2>1, MinIsLeast
<1>4. i \in Nat /\ i \in DOMAIN log[t] /\ i > offset[r][t] /\ rec \in Record
  <2> HIDE DEF i
  <2> QED
    BY <1>2, <1>3
<1>5. sub \in Subjects /\ sub[1] = t
  <2> HIDE DEF i
  <2> QED
    BY <1>4, SubjectTellsKey
<1>6. \A q \in Replicas, u \in Topics :
        offset'[q][u] = IF q = r /\ u = t THEN i ELSE offset[q][u]
  BY <1>1, <1>4 DEF IInv, Typed
<1>7. \A q \in Replicas, s \in Subjects :
        /\ state[q][s] \subseteq state'[q][s]
        /\ state'[q][s] \subseteq state[q][s] \cup
              (IF q = r /\ s = sub THEN {i} ELSE {})
        /\ ~Dropped(t, rec) => i \in state'[r][sub]
  <2> HIDE DEF i, rec, sub
  <2> QED
    BY <1>1, <1>5 DEF IInv, Typed
<1> HIDE DEF i, rec, sub
<1>8. Typed'
  <2>1. offset' \in [Replicas -> [Topics -> Nat]]
    BY <1>1, <1>4 DEF IInv, Typed
  <2>2. state' \in [Replicas -> [Subjects -> SUBSET Nat]]
    BY <1>1, <1>4, <1>5 DEF IInv, Typed
  <2>3. ASSUME NEW q \in Replicas, NEW u \in Topics PROVE offset'[q][u] <= Len(log[u])
    <3>1. i <= Len(log[t])
      BY <1>2, <1>4
    <3> QED
      BY <1>6, <2>3, <3>1 DEF IInv, Typed
  <2> QED
    BY <1>1, <2>1, <2>2, <2>3 DEF IInv, Typed
<1>9. Compacted'
  BY <1>1 DEF IInv, Compacted, Superseded
<1>10. Sorted'
  <2>1. ASSUME NEW q \in Replicas, NEW s \in Subjects, NEW j \in state'[q][s]
        PROVE  j \in DOMAIN log[s[1]] /\ SubjectOf(s[1], log[s[1]][j]) = s
    <3>1. CASE j \in state[q][s]
      BY <3>1 DEF IInv, Sorted
    <3>2. CASE s = sub /\ j = i
      BY <1>4, <1>5, <3>2 DEF sub, rec
    <3> QED
      BY <1>7, <2>1, <3>1, <3>2
  <2> QED
    BY <1>1, <2>1 DEF Sorted, SubjectOf
<1>11. Relays'
  <2>1. ASSUME NEW q \in Replicas, NEW u \in Topics, NEW j \in DOMAIN log[u],
               j <= offset'[q][u], ~Superseded(u, j), ~Dropped(u, log[u][j])
        PROVE  j \in state'[q][SubjectOf(u, log[u][j])]
    <3>1. log[u][j] \in Record /\ j \in Nat /\ SubjectOf(u, log[u][j]) \in Subjects
      BY SubjectTellsKey DEF IInv, Typed
    <3>2. CASE j <= offset[q][u]
      BY <1>7, <2>1, <3>1, <3>2 DEF IInv, Relays
    <3>3. CASE ~(j <= offset[q][u])
      <4>1. q = r /\ u = t /\ j <= i /\ j > offset[r][t]
        BY <1>4, <1>6, <2>1, <3>1, <3>3 DEF IInv, Typed
      <4>2. j \notin deleted[t]
        BY <2>1, <4>1 DEF IInv, Compacted
      <4>3. j = i
        BY <1>3, <1>4, <3>1, <4>1, <4>2
      <4> QED
        <5>1. log[u][j] = rec /\ SubjectOf(u, log[u][j]) = sub
          BY <4>1, <4>3 DEF sub, rec
        <5>2. ~Dropped(t, rec)
          BY <2>1, <4>1, <5>1
        <5> QED
          BY <1>5, <1>7, <4>1, <4>3, <5>1, <5>2
    <3> QED
      BY <3>2, <3>3
  <2> QED
    BY <1>1, <2>1 DEF Relays, Superseded, Dropped, SubjectOf
<1> QED
  BY <1>8, <1>9, <1>10, <1>11 DEF IInv

LEMMA RestartPreserves ==
  ASSUME IInv, NEW r \in Replicas, Restart(r)
  PROVE  IInv'
<1>1. /\ UNCHANGED <<log, deleted, now>>
      /\ offset' = [offset EXCEPT ![r] = [t \in Topics |-> 0]]
      /\ state' = [state EXCEPT ![r] = [s \in Subjects |-> {}]]
  BY DEF Restart, FirstOffset, kafka
<1>2. Typed'
  BY <1>1 DEF IInv, Typed
<1>3. Compacted'
  BY <1>1 DEF IInv, Compacted, Superseded
<1>4. Sorted'
  BY <1>1 DEF IInv, Typed, Sorted, SubjectOf
<1>5. Relays'
  <2>1. ASSUME NEW q \in Replicas, NEW t \in Topics, NEW i \in DOMAIN log[t],
               i <= offset'[q][t], ~Superseded(t, i), ~Dropped(t, log[t][i])
        PROVE  i \in state'[q][SubjectOf(t, log[t][i])]
    <3>1. i \in 1..Len(log[t])
      BY DEF IInv, Typed
    <3>2. q # r
      BY <1>1, <2>1, <3>1 DEF IInv, Typed
    <3> QED
      BY <1>1, <2>1, <3>2 DEF IInv, Typed, Relays
  <2> QED
    BY <1>1, <2>1 DEF Relays, Superseded, Dropped, SubjectOf
<1> QED
  BY <1>2, <1>3, <1>4, <1>5 DEF IInv

LEMMA StepPreserves == IInv /\ [Next]_vars => IInv'
<1> SUFFICES ASSUME IInv, [Next]_vars PROVE IInv'
  OBVIOUS
<1>1. CASE Tick
  BY <1>1 DEF Tick, kafka, wsfeed, IInv, Typed, Compacted, Sorted, Relays,
     Superseded, Dropped, SubjectOf
<1>2. CASE \/ \E r \in Replicas : Connect(r)
           \/ \E s \in Subjects : Message(s)
           \/ Disconnect \/ Sweep \/ UNCHANGED vars
  <2>1. UNCHANGED <<log, deleted, now, offset, state>>
    BY <1>2 DEF Connect, Message, Disconnect, Sweep, vars, kafka, wsfeed
  <2> QED
    BY <2>1 DEF IInv, Typed, Compacted, Sorted, Relays, Superseded, Dropped, SubjectOf
<1> QED
  BY <1>1, <1>2, WritePreserves, CompactPreserves, ConsumePreserves, RestartPreserves
  DEF Next

(* The inductive invariant of topics, replicas and the page.               *)
THEOREM Invariant == Spec => []IInv
  BY InitEstablishes, StepPreserves, PTL DEF Spec

(* ReplicasAgree for any number of replicas, keys, records and restarts.   *)
THEOREM EveryReplicaAgrees == Spec => []ReplicasAgree
<1>1. IInv => ReplicasAgree
  <2> SUFFICES ASSUME IInv, NEW r \in Replicas, NEW t \in Topics, AtEnd(r, t),
                      NEW i \in DOMAIN log[t],
                      ~Superseded(t, i), ~Dropped(t, log[t][i])
               PROVE  Latest(r, SubjectOf(t, log[t][i])) = i
    BY DEF ReplicasAgree
  <2> DEFINE s == SubjectOf(t, log[t][i])
  <2>1. log[t][i] \in Record /\ i \in Nat
    BY DEF IInv, Typed
  <2>2. s \in Subjects /\ s[1] = t
    BY <2>1, SubjectTellsKey
  <2>3. i \in state[r][s]
    BY DEF AtEnd, IInv, Compacted, Relays
  <2>4. ASSUME NEW j \in state[r][s] PROVE j <= i
    <3>1. j \in DOMAIN log[t] /\ SubjectOf(t, log[t][j]) = s
      BY <2>2, <2>4 DEF IInv, Sorted
    <3>2. j \in Nat /\ log[t][j] \in Record
      BY <3>1 DEF IInv, Typed
    <3>3. log[t][j].key = log[t][i].key
      BY <2>1, <3>1, <3>2, SubjectTellsKey
    <3> QED
      BY <2>1, <3>1, <3>2, <3>3 DEF Superseded
  <2>5. state[r][s] \in SUBSET Nat
    BY <2>2 DEF IInv, Typed
  <2> HIDE DEF s
  <2>6. Latest(r, s) = i
    BY <2>3, <2>4, <2>5, MaxIsGreatest DEF Latest
  <2> QED
    BY <2>6 DEF s
<1> QED
  BY <1>1, Invariant, PTL

(***************************************************************************)
(* What the session carries and the page shows are positions of the log:   *)
(* a snapshot and a message come out of a replica's state (Sorted), and    *)
(* the log only grows.                                                     *)
(***************************************************************************)
Positions(s) == {0} \cup DOMAIN log[s[1]]

Shown ==
    /\ conn \in Replicas \cup {Offline}
    /\ base \in [Subjects -> Nat] /\ sent \in [Subjects -> Nat]
    /\ row \in [Subjects -> Nat]
    /\ \A s \in Subjects :
        base[s] \in Positions(s) /\ sent[s] \in Positions(s) /\ row[s] \in Positions(s)
    /\ now \in 0..MaxNow /\ faults \in 0..MaxFaults

Passed == \A r \in Replicas, s \in Subjects : state[r][s] \subseteq 1..offset[r][s[1]]

LEMMA MaxIsThere ==
  ASSUME NEW n \in Nat, NEW S \in SUBSET (1..n), S # {}
  PROVE  Max(S) \in S
<1> DEFINE T == {k \in 0..n : n - k \in S}
<1>1. \A j \in S : n - j \in T /\ n - (n - j) = j
  <2> SUFFICES ASSUME NEW j \in S PROVE n - j \in T /\ n - (n - j) = j
    OBVIOUS
  <2>1. n - j \in 0..n /\ n - (n - j) = j
    OBVIOUS
  <2> QED
    BY <2>1
<1>2. \A k \in T : k \in Nat /\ n - k \in S
  OBVIOUS
<1> HIDE DEF T
<1>3. T \in SUBSET Nat /\ T # {}
  BY <1>1, <1>2
<1>4. Min(T) \in T /\ \A m \in T : Min(T) <= m
  BY <1>3, MinIsLeast
<1>5. PICK k \in T : \A m \in T : k <= m
  BY <1>4
<1>6. k \in Nat /\ n - k \in S
  BY <1>2
<1>7. \A j \in S : j <= n - k
  <2> SUFFICES ASSUME NEW j \in S PROVE j <= n - k
    OBVIOUS
  <2>1. k <= n - j /\ j \in Nat
    BY <1>1, <1>5
  <2> QED
    BY <1>6, <2>1
<1> QED
  BY <1>6, <1>7, MaxIsGreatest

(* The log grows, so that a position stays one.                            *)
LEMMA PositionsStay ==
  ASSUME IInv, [Next]_vars
  PROVE  \A s \in Subjects : Positions(s) \subseteq Positions(s)'
<1>1. CASE \E t \in Topics : Write(t)
  <2>1. PICK t \in Topics, rec \in Record : log' = [log EXCEPT ![t] = Append(@, rec)]
    BY <1>1 DEF Write, Record, IInv, Typed
  <2>2. \A u \in Topics : DOMAIN log[u] \subseteq DOMAIN log'[u]
    BY <2>1 DEF IInv, Typed
  <2> QED
    BY <2>2 DEF Positions, Subjects
<1>2. CASE log' = log
  BY <1>2 DEF Positions
<1>3. (\E t \in Topics : Write(t)) \/ log' = log
  BY DEF Next, Compact, Tick, Consume, Restart, Connect, Disconnect, Message, Sweep,
     kafka, vars
<1> QED
  BY <1>1, <1>2, <1>3

LEMMA StepPasses == IInv /\ Passed /\ [Next]_vars => Passed'
<1> SUFFICES ASSUME IInv, Passed, [Next]_vars PROVE Passed'
  OBVIOUS
<1>1. CASE UNCHANGED wsfeed
  BY <1>1 DEF Passed, wsfeed
<1>2. ASSUME NEW r \in Replicas, Restart(r) PROVE Passed'
  BY <1>2 DEF Restart, FirstOffset, IInv, Typed, Passed, Subjects
<1>3. ASSUME NEW r \in Replicas, NEW t \in Topics, Consume(r, t) PROVE Passed'
  <2> DEFINE left == {j \in DOMAIN log[t] \ deleted[t] : j > offset[r][t]}
             i    == Min(left)
             sub  == SubjectOf(t, log[t][i])
  <2>1. /\ left # {}
        /\ offset' = [offset EXCEPT ![r][t] = i]
        /\ state' = IF Dropped(t, log[t][i]) THEN state
                    ELSE [state EXCEPT ![r][sub] = @ \cup {i}]
    BY <1>3 DEF Consume
  <2>2. left \in SUBSET Nat
    BY DEF IInv, Typed
  <2>3. i \in left
    <3> HIDE DEF left
    <3> QED
      BY <2>1, <2>2, MinIsLeast
  <2>4. i \in Nat /\ i > offset[r][t] /\ log[t][i] \in Record
    <3> HIDE DEF i
    <3> QED
      BY <2>2, <2>3 DEF IInv, Typed
  <2>5. sub \in Subjects /\ sub[1] = t
    BY <2>4, SubjectTellsKey
  <2> HIDE DEF i, sub, left
  <2>6. SUFFICES ASSUME NEW q \in Replicas, NEW s \in Subjects, NEW j \in state'[q][s]
                 PROVE  j \in 1..offset'[q][s[1]]
    BY DEF Passed
  <2>7. s[1] \in Topics /\ offset[q][s[1]] \in Nat
    BY DEF IInv, Typed, Subjects
  <2>8. offset'[q][s[1]] = IF q = r /\ s[1] = t THEN i ELSE offset[q][s[1]]
    BY <2>1, <2>4, <2>7 DEF IInv, Typed
  <2>9. j \in state[q][s] \/ (q = r /\ s = sub /\ j = i)
    BY <2>1, <2>5, <2>6 DEF IInv, Typed
  <2>10. CASE j \in state[q][s]
    BY <2>4, <2>7, <2>8, <2>10 DEF Passed
  <2>11. CASE q = r /\ s = sub /\ j = i
    <3>1. i >= 1
      BY <2>4 DEF IInv, Typed
    <3> QED
      BY <2>4, <2>5, <2>8, <2>11, <3>1
  <2> QED
    BY <2>9, <2>10, <2>11
<1> QED
  BY <1>1, <1>2, <1>3
  DEF Next, Write, Compact, Tick, Connect, Disconnect, Message, Sweep, vars

LEMMA InitShows == Init => Shown
<1> SUFFICES ASSUME Init PROVE Shown
  OBVIOUS
<1>1. now \in 0..MaxNow /\ faults \in 0..MaxFaults
  BY BoundsAreNat DEF Init
<1> QED
  BY <1>1 DEF Init, Shown, NoVersions, Positions

LEMMA StepShows == IInv /\ Shown /\ [Next]_vars => Shown'
<1> SUFFICES ASSUME IInv, Shown, [Next]_vars PROVE Shown'
  OBVIOUS
<1>1. now' \in 0..MaxNow /\ faults' \in 0..MaxFaults
  <2>1. CASE Tick
    BY <2>1, BoundsAreNat DEF Tick, Shown
  <2>2. CASE faults < MaxFaults /\ faults' = faults + 1 /\ now' = now
    BY <2>2, BoundsAreNat DEF Shown
  <2>3. CASE now' = now /\ faults' = faults
    BY <2>3 DEF Shown
  <2> QED
    BY <2>1, <2>2, <2>3
    DEF Next, Write, Compact, Consume, Restart, Connect, Disconnect, Message, Sweep, vars
<1>2. \A s \in Subjects : Positions(s) \subseteq Positions(s)' /\ 0 \in Positions(s)'
  BY PositionsStay DEF Positions
<1>3. \A r \in Replicas, s \in Subjects :
        state[r][s] \subseteq Positions(s) /\ state[r][s] \subseteq Nat
  BY DEF IInv, Typed, Sorted, Positions
<1>4. CASE UNCHANGED <<session, row>>
  BY <1>1, <1>2, <1>4 DEF Shown, session
<1>5. CASE Hangup /\ row' = row
  BY <1>1, <1>2, <1>5 DEF Shown, Hangup, NoVersions
<1>6. ASSUME NEW r \in Replicas, Connect(r) PROVE Shown'
  <2>1. \A s \in Subjects : Latest(r, s) \in Positions(s) /\ Latest(r, s) \in Nat
    <3> SUFFICES ASSUME NEW s \in Subjects
                 PROVE  Latest(r, s) \in Positions(s) /\ Latest(r, s) \in Nat
      OBVIOUS
    <3>1. CASE state[r][s] = {}
      BY <3>1 DEF Latest, Positions
    <3>2. CASE state[r][s] # {}
      <4>1. Len(log[s[1]]) \in Nat /\ DOMAIN log[s[1]] = 1..Len(log[s[1]])
        BY DEF IInv, Typed, Subjects
      <4>2. state[r][s] \subseteq 1..Len(log[s[1]])
        BY <4>1 DEF IInv, Sorted
      <4>3. Max(state[r][s]) \in state[r][s]
        BY <3>2, <4>1, <4>2, MaxIsThere
      <4> QED
        BY <1>3, <3>2, <4>3 DEF Latest
    <3> QED
      BY <3>1, <3>2
  <2>2. /\ conn' = r /\ sent' = NoVersions /\ row' = row
        /\ base' = [s \in Subjects |-> Latest(r, s)]
    BY <1>6 DEF Connect
  <2>3. base' \in [Subjects -> Nat] /\ sent' \in [Subjects -> Nat]
        /\ row' \in [Subjects -> Nat]
    BY <2>1, <2>2 DEF NoVersions, Shown
  <2>4. ASSUME NEW s \in Subjects
        PROVE  base'[s] \in Positions(s)' /\ sent'[s] \in Positions(s)'
               /\ row'[s] \in Positions(s)'
    BY <1>2, <2>1, <2>2 DEF NoVersions, Shown
  <2> QED
    BY <1>1, <2>2, <2>3, <2>4 DEF Shown
<1>7. ASSUME NEW s \in Subjects, Message(s) PROVE Shown'
  <2>1. PICK v \in state[conn][s] :
          /\ sent' = [sent EXCEPT ![s] = v]
          /\ row' = [row EXCEPT ![s] = IF isStale(s, v) THEN 0 ELSE v]
    BY <1>7 DEF Message
  <2>2. v \in Positions(s) /\ v \in Nat /\ conn' = conn /\ base' = base
    BY <1>3, <1>7 DEF Message, Shown
  <2>3. sent' \in [Subjects -> Nat] /\ row' \in [Subjects -> Nat]
    BY <2>1, <2>2 DEF Shown
  <2>4. \A u \in Subjects : sent'[u] \in Positions(u)' /\ row'[u] \in Positions(u)'
    BY <1>2, <2>1, <2>2 DEF Shown
  <2> QED
    BY <1>1, <1>2, <2>2, <2>3, <2>4 DEF Shown
<1>8. CASE Sweep
  BY <1>1, <1>2, <1>8 DEF Sweep, Shown, session
<1>9. CASE Disconnect
  BY <1>5, <1>9 DEF Disconnect
<1>10. ASSUME NEW r \in Replicas, Restart(r) PROVE Shown'
  BY <1>4, <1>5, <1>10 DEF Restart
<1>11. ASSUME NEW t \in Topics, Write(t) \/ Compact(t) PROVE Shown'
  BY <1>4, <1>11 DEF Write, Compact
<1>12. ASSUME NEW r \in Replicas, NEW t \in Topics, Consume(r, t) PROVE Shown'
  BY <1>4, <1>12 DEF Consume
<1>13. CASE Tick \/ UNCHANGED vars
  BY <1>4, <1>13 DEF Tick, vars
<1> QED
  BY <1>6, <1>7, <1>8, <1>9, <1>10, <1>11, <1>12, <1>13 DEF Next

(* The types of the topics, the replicas (consumeClusterInfo, main.go:266) *)
(* and the page (ws.onmessage, app.js): a replica holds no version it has  *)
(* not read, and the page no version that was never written.               *)
THEOREM TypeCorrect == Spec => []TypeOK
<1>1. Init => IInv /\ Shown /\ Passed
  BY InitEstablishes, InitShows DEF Init, Passed
<1>2. (IInv /\ Shown /\ Passed) /\ [Next]_vars => (IInv /\ Shown /\ Passed)'
  BY StepPreserves, StepShows, StepPasses
<1>3. IInv /\ Shown /\ Passed => TypeOK
  <2> SUFFICES ASSUME IInv, Shown, Passed PROVE TypeOK
    OBVIOUS
  <2>1. \A t \in Topics : deleted[t] \subseteq DOMAIN log[t]
    BY DEF IInv, Compacted
  <2>2. \A r \in Replicas, s \in Subjects : state[r][s] \subseteq 1..offset[r][s[1]]
    BY DEF Passed
  <2> QED
    BY <2>1, <2>2 DEF Shown, Positions, TypeOK
<1> QED
  BY <1>1, <1>2, <1>3, PTL DEF Spec

=============================================================================
