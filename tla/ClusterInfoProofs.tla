-------------------------- MODULE ClusterInfoProofs --------------------------
(***************************************************************************)
(* Proofs about ClusterInfo: the heartbeat is always young enough, for     *)
(* every choice of the deadlines that leaves room for a call and a write;  *)
(* and what a poll writes is made of what it read, for every list the API  *)
(* may give: the worst offenders come first, the numbers add up, and the   *)
(* order of the list decides nothing but ties.                             *)
(***************************************************************************)
EXTENDS ClusterInfo, FunctionTheorems, FiniteSetTheorems, WellFoundedInduction, TLAPS

(* What a poll's clock obeys at each phase: no tick is waiting only in the *)
(* interval in which the poll began, a call is within its deadline, and a  *)
(* write that began within it is within its own.                           *)
Clocks ==
    /\ ~tick => age = 0
    /\ phase = "call" => age <= Longest
    /\ phase = "write" => since <= age /\ age <= since + WriteTimeout
    /\ age <= 1 \/ age <= Longest + WriteTimeout

IInv == TypeOK /\ Clocks

(* The bounds in the form the arithmetic needs.                            *)
LEMMA Bounds ==
    /\ ApiTimeout \in Nat /\ ClientTimeout \in Nat /\ WriteTimeout \in Nat
    /\ StallSeconds \in Nat /\ StallSeconds > 0
    /\ Longest \in Nat /\ ApiTimeout <= Longest /\ ClientTimeout <= Longest
    /\ Longest + WriteTimeout <= 2 * StallSeconds
BY TimeoutsAreNat, TimeoutsLeaveRoom DEF Longest

LEMMA CallsCount == \A a : Calls(a) \in 1..3
BY DEF Calls

LEMMA InitInv == Init => IInv
<1> SUFFICES ASSUME Init PROVE IInv
    OBVIOUS
<1>1. TypeOK
    <2>1. call \in 1..Calls(aspect)
        <3>1. Calls(aspect) \in 1..3
            BY CallsCount
        <3> QED BY <3>1 DEF Init
    <2>2. aspect \in Aspects
        BY DEF Init, Aspects
    <2>3. failed \in BOOLEAN /\ tick \in BOOLEAN /\ term \in BOOLEAN
        BY DEF Init
    <2> QED BY <2>1, <2>2, <2>3, Bounds DEF Init, TypeOK
<1>2. Clocks
    BY Bounds DEF Init, Clocks
<1> QED BY <1>1, <1>2 DEF IInv

(* A poll that ends keeps the age and leaves the call and the write.       *)
LEMMA EndPollInv == IInv /\ EndPoll => IInv'
<1> SUFFICES ASSUME IInv, EndPoll PROVE IInv'
    OBVIOUS
<1>1. TypeOK'
    <2>1. call' \in 1..Calls(aspect)'
        <3>1. Calls(aspect) \in 1..3
            BY CallsCount
        <3> QED BY <3>1 DEF EndPoll
    <2>2. failed' \in BOOLEAN /\ tick' \in BOOLEAN /\ term' \in BOOLEAN
        BY DEF IInv, TypeOK, EndPoll
    <2> QED BY <2>1, <2>2, Bounds DEF IInv, TypeOK, EndPoll
<1>2. Clocks'
    BY DEF IInv, TypeOK, Clocks, EndPoll
<1> QED BY <1>1, <1>2 DEF IInv

(* A further call of the same poll is one the aspect has.                  *)
LEMMA NextCallInv ==
    ASSUME NEW ok \in BOOLEAN, IInv, phase = "call", call < Calls(aspect), NextCall(ok)
    PROVE  IInv'
<1>1. TypeOK'
    <2>1. call' \in 1..Calls(aspect)'
        BY CallsCount DEF IInv, TypeOK, NextCall
    <2>2. failed' \in BOOLEAN
        BY DEF NextCall, IInv, TypeOK
    <2> QED BY <2>1, <2>2 DEF IInv, TypeOK, NextCall
<1>2. Clocks'
    BY DEF IInv, Clocks, NextCall
<1> QED BY <1>1, <1>2 DEF IInv

LEMMA StepInv == IInv /\ [Next]_vars => IInv'
<1> SUFFICES ASSUME IInv, [Next]_vars PROVE IInv'
    OBVIOUS
<1>1. ASSUME NEW a \in Aspects, Poll(a) PROVE IInv'
    <2>1. TypeOK'
        <3>1. call' \in 1..Calls(aspect)'
            <4>1. Calls(a) \in 1..3
                BY CallsCount
            <4> QED BY <1>1, <4>1 DEF Poll
        <3>2. failed' \in BOOLEAN /\ tick' \in BOOLEAN /\ term' \in BOOLEAN
            BY <1>1 DEF IInv, TypeOK, Poll
        <3> QED BY <1>1, <3>1, <3>2 DEF IInv, TypeOK, Poll
    <2>2. Clocks'
        BY <1>1, Bounds DEF Clocks, Poll
    <2> QED BY <2>1, <2>2 DEF IInv
<1>2. CASE CallFails
    <2>1. CASE FailureCanWait
        <3>1. call < Calls(aspect)
            BY <2>1 DEF FailureCanWait, Calls
        <3> QED BY <1>2, <2>1, <3>1, NextCallInv DEF CallFails
    <2>2. CASE ~FailureCanWait
        BY <1>2, <2>2, EndPollInv DEF CallFails
    <2> QED BY <2>1, <2>2
<1>3. CASE CallAnswers
    BY <1>3, NextCallInv DEF CallAnswers
<1>4. CASE LastCallAnswers
    <2>1. CASE EndPoll
        BY <2>1, EndPollInv
    <2>2. CASE /\ phase' = "write" /\ since' = age
               /\ UNCHANGED <<aspect, call, failed, tick, term, age, frac>>
        <3>1. phase = "call"
            BY <1>4 DEF LastCallAnswers
        <3>2. TypeOK'
            BY <2>2, <3>1, Bounds DEF IInv, TypeOK, Clocks
        <3>3. Clocks'
            BY <2>2, <3>1, Bounds DEF IInv, TypeOK, Clocks
        <3> QED BY <3>2, <3>3 DEF IInv
    <2> QED BY <1>4, <2>1, <2>2 DEF LastCallAnswers
<1>5. CASE Written
    BY <1>5, EndPollInv DEF Written
<1>6. CASE Terminate
    <2>1. TypeOK'
        BY <1>6 DEF IInv, TypeOK, Terminate, pollVars
    <2>2. Clocks'
        BY <1>6 DEF IInv, Clocks, Terminate, pollVars
    <2> QED BY <2>1, <2>2 DEF IInv
<1>7. CASE Stop
    <2>1. TypeOK'
        BY <1>7 DEF IInv, TypeOK, Stop, pollVars
    <2>2. Clocks'
        BY <1>7 DEF IInv, Clocks, Stop, pollVars
    <2> QED BY <2>1, <2>2 DEF IInv
<1>8. CASE Advance
    <2>1. TypeOK'
        BY <1>8 DEF IInv, TypeOK, Advance, pollVars
    <2>2. CASE phase = "call" /\ ~CallExpired
        <3>1. age + 1 <= Longest
            BY <2>2, Bounds DEF CallExpired, IInv, TypeOK
        <3> QED BY <1>8, <2>1, <2>2, <3>1, Bounds
            DEF IInv, TypeOK, Clocks, Advance, pollVars
    <2>3. CASE phase = "write" /\ ~WriteExpired
        <3>1. age + 1 <= since + WriteTimeout /\ since <= Longest
            BY <2>3, Bounds DEF WriteExpired, IInv, TypeOK
        <3> QED BY <1>8, <2>1, <2>3, <3>1, Bounds
            DEF IInv, TypeOK, Clocks, Advance, pollVars
    <2>4. CASE phase = "idle" /\ ~tick
        BY <1>8, <2>1, <2>4, Bounds DEF IInv, Clocks, Advance, pollVars
    <2> QED BY <1>8, <2>2, <2>3, <2>4 DEF Advance, Waiting
<1>9. CASE UNCHANGED vars
    BY <1>9 DEF IInv, TypeOK, Clocks, vars, pollVars
<1> QED BY <1>1, <1>2, <1>3, <1>4, <1>5, <1>6, <1>7, <1>8, <1>9 DEF Next

(* The inductive invariant holds in every reachable state.                 *)
THEOREM Inductive == Spec => []IInv
<1> QED BY InitInv, StepInv, PTL DEF Spec

(* A poll is always at one of its calls and on a clock that its deadlines  *)
(* bound.                                                                  *)
THEOREM TypeCorrect == Spec => []TypeOK
<1>1. IInv => TypeOK
    BY DEF IInv
<1> QED BY <1>1, Inductive, PTL

(* serveHealth never reports a stalled loop while the deadlines of poll    *)
(* hold, however the API and Kafka hang: for every choice of deadlines     *)
(* whose sum stays within StallSeconds, the code's 5s, 5s, 4s and 30s      *)
(* among them.                                                             *)
THEOREM HeartbeatIsFresh == Spec => []HeartbeatFresh
<1>1. IInv => HeartbeatFresh
    <2> SUFFICES ASSUME IInv PROVE (age + frac) \div 2 <= StallSeconds
        BY DEF HeartbeatFresh
    <2>1. age <= 2 * StallSeconds
        BY Bounds DEF IInv, TypeOK, Clocks
    <2>2. age + frac \in Nat /\ age + frac <= 2 * StallSeconds + 1
        BY <2>1, Bounds DEF IInv, TypeOK
    <2> QED BY <2>2, Bounds
<1> QED BY <1>1, Inductive, PTL

(***************************************************************************)
(* Orders and sums.                                                        *)
(***************************************************************************)
LEMMA SizeOf ==
    ASSUME NEW S, IsFiniteSet(S)
    PROVE  Cardinality(S) \in Nat
BY FS_CardinalityType

LEMMA Prefix ==
    ASSUME NEW n \in Nat
    PROVE  IsFiniteSet(1..n) /\ Cardinality(1..n) = n
BY FS_Interval

LEMMA BijectionSize ==
    ASSUME NEW S, NEW T, IsFiniteSet(S), NEW f \in Bijection(S, T)
    PROVE  IsFiniteSet(T) /\ Cardinality(T) = Cardinality(S)
BY FS_Bijection, Fun_ExistsBij

(* An order that sort.Slice may leave has every index once, in the order   *)
(* of the ranks.                                                           *)
LEMMA SortedHasAll ==
    ASSUME NEW D, IsFiniteSet(D), NEW rank, DOMAIN rank = D, NEW p \in Sorted(rank)
    PROVE  /\ Cardinality(D) \in Nat /\ p \in [1..Cardinality(D) -> D]
           /\ \A j, k \in 1..Cardinality(D) : p[j] = p[k] => j = k
           /\ \A x \in D : \E k \in 1..Cardinality(D) : p[k] = x
           /\ \A j, k \in 1..Cardinality(D) : j < k => rank[p[j]] <= rank[p[k]]
<1>1. Cardinality(D) \in Nat
    BY SizeOf
<1>2. p \in Bijection(1..Cardinality(D), D)
    BY DEF Sorted
<1>3. /\ p \in [1..Cardinality(D) -> D]
      /\ \A j, k \in 1..Cardinality(D) : p[j] = p[k] => j = k
      /\ \A x \in D : \E k \in 1..Cardinality(D) : p[k] = x
    BY <1>2 DEF Bijection, Injection, IsInjective, Surjection
<1>4. \A j, k \in 1..Cardinality(D) : j < k => rank[p[j]] <= rank[p[k]]
    BY <1>3 DEF Sorted
<1> QED BY <1>1, <1>3, <1>4

LEMMA TotalIsNat ==
    ASSUME NEW D, IsFiniteSet(D), NEW f \in [D -> Nat]
    PROVE  IsFiniteSet(Units(f)) /\ Total(f) \in Nat
<1> DEFINE Of == [x \in D |-> {x} \X (1..f[x])]
           All == {Of[x] : x \in D}
<1>1. All = {{x} \X (1..f[x]) : x \in DOMAIN f}
    OBVIOUS
<1>2. Of \in Surjection(D, All)
    BY Fun_IsSurj
<1>3. IsFiniteSet(All)
    BY <1>2, FS_Surjection
<1>4. \A T \in All : IsFiniteSet(T)
    <2> SUFFICES ASSUME NEW x \in D PROVE IsFiniteSet({x} \X (1..f[x]))
        OBVIOUS
    <2>1. IsFiniteSet({x}) /\ IsFiniteSet(1..f[x])
        BY FS_Singleton, Prefix
    <2> QED BY <2>1, FS_Product
<1> HIDE DEF All, Of
<1>5. IsFiniteSet(UNION All)
    BY <1>3, <1>4, FS_UNION
<1> QED BY <1>1, <1>5, SizeOf DEF Units, Total

LEMMA ListOf ==
    ASSUME NEW items, NEW v \in Seq(items)
    PROVE  /\ Len(v) \in Nat /\ DOMAIN v = 1..Len(v)
           /\ IsFiniteSet(DOMAIN v) /\ Cardinality(DOMAIN v) = Len(v)
           /\ \A i \in DOMAIN v : v[i] \in items
BY Prefix

LEMMA ListingIsFinite ==
    ASSUME NEW items, NEW v \in Listing(items)
    PROVE  /\ Len(v) \in Nat /\ DOMAIN v = 1..Len(v)
           /\ IsFiniteSet(DOMAIN v) /\ Cardinality(DOMAIN v) = Len(v)
           /\ \A i \in DOMAIN v : v[i] \in items
           /\ \A i, j \in DOMAIN v : i # j => v[i].name # v[j].name
BY ListOf DEF Listing

(***************************************************************************)
(* The lists of offenders.                                                 *)
(***************************************************************************)
(* L is what is left of the indices K of the list v after it was sorted by *)
(* the rank, which is the descending measure m, and cut to n.              *)
CutTo(items, v, K, m, rank, n, p, L) ==
    /\ v \in Listing(items) /\ K \subseteq DOMAIN v /\ L \subseteq DOMAIN v /\ n \in Nat
    /\ m \in [DOMAIN v -> Nat] /\ \A i \in DOMAIN v \ K : m[i] = 0
    /\ DOMAIN rank = K /\ \A i \in K : rank[i] = -m[i]
    /\ p \in Sorted(rank)
    /\ \A i \in DOMAIN v : i \in L <=> \E k \in Upto(p, n) : v[p[k]].name = v[i].name

LEMMA TopIsWorst ==
    ASSUME NEW items, NEW v, NEW K, NEW m, NEW rank, NEW n, NEW p, NEW L,
           CutTo(items, v, K, m, rank, n, p, L), NEW i \in DOMAIN v \ L
    PROVE  /\ \A j \in L : m[i] <= m[j]
           /\ Cardinality(L) < n => m[i] = 0
<1> USE DEF CutTo
<1> DEFINE N == Cardinality(K)
<1>1. IsFiniteSet(K)
    BY ListingIsFinite, FS_Subset
<1>2. /\ N \in Nat /\ p \in [1..N -> K]
      /\ \A j, k \in 1..N : p[j] = p[k] => j = k
      /\ \A x \in K : \E k \in 1..N : p[k] = x
      /\ \A j, k \in 1..N : j < k => rank[p[j]] <= rank[p[k]]
    BY <1>1, SortedHasAll
<1>3. \A j, k \in 1..N : j < k => m[p[k]] <= m[p[j]]
    <2> SUFFICES ASSUME NEW j \in 1..N, NEW k \in 1..N, j < k PROVE m[p[k]] <= m[p[j]]
        OBVIOUS
    <2>1. p[j] \in K /\ p[k] \in K /\ m[p[j]] \in Nat /\ m[p[k]] \in Nat
        BY <1>2
    <2>2. rank[p[j]] <= rank[p[k]]
        BY <1>2
    <2> QED BY <2>1, <2>2
<1> HIDE DEF N
<1>4. Upto(p, n) = {k \in 1..N : k <= n}
    BY <1>2 DEF Upto
<1>5. \A j \in L : \E k \in Upto(p, n) : j = p[k]
    <2> SUFFICES ASSUME NEW j \in L PROVE \E k \in Upto(p, n) : j = p[k]
        OBVIOUS
    <2>1. PICK k \in Upto(p, n) : v[p[k]].name = v[j].name
        OBVIOUS
    <2>2. p[k] \in DOMAIN v /\ j \in DOMAIN v
        BY <1>2, <1>4
    <2> QED BY <2>1, <2>2, ListingIsFinite
<1>6. \A k \in Upto(p, n) : p[k] \in L
    BY <1>2, <1>4
<1>7. CASE i \notin K
    <2>1. m[i] = 0
        BY <1>7
    <2>2. \A j \in L : m[j] \in Nat
        OBVIOUS
    <2> QED BY <2>1, <2>2
<1>8. CASE i \in K
    <2>1. PICK l \in 1..N : p[l] = i
        BY <1>2, <1>8
    <2>2. n < l
        <3> SUFFICES ASSUME l <= n PROVE FALSE
            BY <1>2
        <3>1. l \in Upto(p, n)
            BY <1>4
        <3> QED BY <1>6, <2>1, <3>1
    <2>3. \A j \in L : m[i] <= m[j]
        <3> SUFFICES ASSUME NEW j \in L PROVE m[i] <= m[j]
            OBVIOUS
        <3>1. PICK k \in Upto(p, n) : j = p[k]
            BY <1>5
        <3> QED BY <1>2, <1>3, <1>4, <2>1, <2>2, <3>1
    <2>4. Cardinality(L) = n
        <3>1. Upto(p, n) = 1..n
            BY <1>2, <1>4, <2>2
        <3> DEFINE f == [k \in 1..n |-> p[k]]
        <3>2. f \in Bijection(1..n, L)
            <4>1. f \in [1..n -> L]
                BY <1>6, <3>1
            <4>2. \A j, k \in 1..n : f[j] = f[k] => j = k
                BY <1>2, <1>4, <3>1
            <4>3. \A j \in L : \E k \in 1..n : f[k] = j
                BY <1>5, <3>1
            <4> QED BY <4>1, <4>2, <4>3, Fun_IsBij
        <3> QED BY <3>2, Prefix, BijectionSize
    <2> QED BY <2>3, <2>4
<1> QED BY <1>7, <1>8

(* What a write publishes is made of what the API listed for its aspect.   *)
Viewed ==
    phase = "write" =>
        /\ view \in Views[aspect] /\ message \in Summaries(aspect, view, ~failed)
        /\ aspect = "cilium-policies" => ~failed

LEMMA InitViewed == Init => Viewed
BY DEF Init, Viewed

LEMMA StepViewed == Viewed /\ [Next]_vars => Viewed'
<1> SUFFICES ASSUME Viewed, [Next]_vars PROVE Viewed'
    OBVIOUS
<1>1. CASE LastCallAnswers
    <2>1. CASE EndPoll
        BY <2>1 DEF EndPoll, Viewed
    <2>2. CASE \E v \in Views[aspect] :
                 /\ view' = v
                 /\ message' \in Summaries(aspect, v, ~failed)
                 /\ UNCHANGED <<aspect, failed>>
                 /\ ~(failed /\ aspect = "cilium-policies")
        <3>1. Summaries(aspect, view, ~failed)' = Summaries(aspect, view', ~failed)
            BY <2>2 DEF Summaries
        <3> QED BY <2>2, <3>1 DEF Viewed
    <2> QED BY <1>1, <2>1, <2>2 DEF LastCallAnswers
<1>2. CASE phase' # "write"
    BY <1>2 DEF Viewed
<1>3. CASE phase' = phase /\ UNCHANGED <<aspect, view, message, failed>>
    <2>1. Summaries(aspect, view, ~failed)' = Summaries(aspect, view, ~failed)
        BY <1>3 DEF Summaries
    <2> QED BY <1>3, <2>1 DEF Viewed
<1>4. \/ LastCallAnswers \/ phase' # "write"
      \/ phase' = phase /\ UNCHANGED <<aspect, view, message, failed>>
    <2>1. CASE CallFails \/ CallAnswers
        BY <2>1 DEF CallFails, CallAnswers, NextCall, EndPoll
    <2>2. CASE ~(CallFails \/ CallAnswers)
        BY <2>2 DEF Next, Poll, Written, EndPoll, Terminate, Stop, Advance, vars, pollVars
    <2> QED BY <2>1, <2>2
<1> QED BY <1>1, <1>2, <1>3, <1>4

(* The body a poll writes (main.go:197-219) is made of what the API listed *)
(* for the aspect the poll picked, in this poll: nothing of an earlier one *)
(* and nothing of another aspect is left in it.                            *)
THEOREM WritesWhatItRead == Spec => []Viewed
<1> QED BY InitViewed, StepViewed, PTL DEF Spec

LEMMA TopsTyped == TopRestarts \in Nat /\ TopCPU \in Nat
BY TopsAreNat

LEMMA CPUIsNat ==
    ASSUME NEW it \in Item("pod-metrics")
    PROVE  CPU(it) \in Nat /\ Mem(it) \in Nat
<1> DEFINE c == it.containers
<1>1. c \in Seq([cpu : Nat, mem : Nat])
    BY DEF Item
<1> HIDE DEF c
<1>2. IsFiniteSet(DOMAIN c) /\ \A i \in DOMAIN c : c[i].cpu \in Nat /\ c[i].mem \in Nat
    <2> DEFINE Usage == [cpu : Nat, mem : Nat]
    <2>1. \A u \in Usage : u.cpu \in Nat /\ u.mem \in Nat
        OBVIOUS
    <2> HIDE DEF Usage
    <2>2. IsFiniteSet(DOMAIN c) /\ \A i \in DOMAIN c : c[i] \in Usage
        BY <1>1, ListOf DEF Usage
    <2> QED BY <2>1, <2>2
<1>3. /\ [i \in DOMAIN c |-> quantityMilli(c[i].cpu)] \in [DOMAIN c -> Nat]
      /\ [i \in DOMAIN c |-> quantityMiB(c[i].mem)] \in [DOMAIN c -> Nat]
    BY <1>2 DEF quantityMilli, quantityMiB
<1>4. /\ Total([i \in DOMAIN c |-> quantityMilli(c[i].cpu)]) \in Nat
      /\ Total([i \in DOMAIN c |-> quantityMiB(c[i].mem)]) \in Nat
    BY <1>2, <1>3, TotalIsNat
<1> QED BY <1>4 DEF CPU, Mem, c

LEMMA RestartedIsNat ==
    ASSUME NEW pod \in Item("restarts")
    PROVE  Restarted(pod) \in Nat
<1>1. pod.containers \in Seq(Nat)
    BY DEF Item
<1> DEFINE c == pod.containers
<1>2. IsFiniteSet(DOMAIN c) /\ c \in [DOMAIN c -> Nat]
    BY <1>1, Prefix
<1> HIDE DEF c
<1>3. Total(c) \in Nat
    BY <1>2, TotalIsNat
<1> QED BY <1>3 DEF Restarted, c

(* From such a list to the property: top has the names of L.               *)
LEMMA CutIsWorst ==
    ASSUME NEW items, NEW K, NEW m, NEW rank, NEW n, NEW p,
           view \in Listing(items), K \subseteq DOMAIN view, n \in Nat,
           m \in [DOMAIN view -> Nat], \A i \in DOMAIN view \ K : m[i] = 0,
           DOMAIN rank = K, \A i \in K : rank[i] = -m[i], p \in Sorted(rank),
           DOMAIN message.top = Upto(p, n),
           \A k \in Upto(p, n) : message.top[k].pod = view[p[k]].name
    PROVE  LET leftOut == {i \in DOMAIN view :
                             ~ \E j \in DOMAIN message.top : message.top[j].pod = view[i].name}
           IN  \A i \in leftOut :
                 /\ \A j \in DOMAIN view \ leftOut : m[i] <= m[j]
                 /\ Cardinality(DOMAIN view \ leftOut) < n => m[i] = 0
<1> DEFINE leftOut == {i \in DOMAIN view :
                         ~ \E j \in DOMAIN message.top : message.top[j].pod = view[i].name}
           L == DOMAIN view \ leftOut
<1>1. /\ L \subseteq DOMAIN view
      /\ \A i \in DOMAIN view :
            i \in L <=> \E k \in Upto(p, n) : view[p[k]].name = view[i].name
    OBVIOUS
<1>2. \A i \in leftOut : i \in DOMAIN view \ L
    OBVIOUS
<1> HIDE DEF L, leftOut
<1>3. CutTo(items, view, K, m, rank, n, p, L)
    BY <1>1 DEF CutTo
<1>4. \A i \in leftOut : /\ \A j \in L : m[i] <= m[j]
                         /\ Cardinality(L) < n => m[i] = 0
    BY <1>2, <1>3, TopIsWorst
<1> QED BY <1>4 DEF leftOut, L

LEMMA RestartsFirst ==
    ASSUME view \in Listing(Item("restarts")), message \in Restarts(view)
    PROVE  Worst(message.top, TopRestarts, Restarted)
<1> DEFINE K == Offenders(view)
           m == [i \in DOMAIN view |-> Restarted(view[i])]
           rank == [i \in K |-> -m[i]]
<1>1. K \subseteq DOMAIN view /\ m \in [DOMAIN view -> Nat]
    BY ListingIsFinite, RestartedIsNat DEF Offenders
<1>2. \A i \in DOMAIN view \ K : m[i] = 0
    BY <1>1 DEF Offenders
<1>3. DOMAIN rank = K /\ \A i \in K : rank[i] = -m[i]
    OBVIOUS
<1>4. PICK p \in Sorted([i \in K |-> -Restarted(view[i])]) :
        message = [total |-> Total([i \in DOMAIN view |-> Restarted(view[i])]),
                   top |-> [k \in Upto(p, TopRestarts) |->
                       [pod |-> view[p[k]].name, restarts |-> Restarted(view[p[k]])]]]
    BY Zenon DEF Restarts
<1>5. p \in Sorted(rank)
    <2>1. rank = [i \in K |-> -Restarted(view[i])]
        BY <1>1
    <2> QED BY <2>1
<1>6. /\ DOMAIN message.top = Upto(p, TopRestarts)
      /\ \A k \in Upto(p, TopRestarts) : message.top[k].pod = view[p[k]].name
    BY <1>4
<1>7. \A i \in DOMAIN view : m[i] = Restarted(view[i])
    OBVIOUS
<1> HIDE DEF K, m, rank
<1> DEFINE leftOut == {i \in DOMAIN view :
                         ~ \E j \in DOMAIN message.top : message.top[j].pod = view[i].name}
<1>8. \A i \in leftOut :
        /\ \A j \in DOMAIN view \ leftOut : m[i] <= m[j]
        /\ Cardinality(DOMAIN view \ leftOut) < TopRestarts => m[i] = 0
    BY <1>1, <1>2, <1>3, <1>5, <1>6, TopsTyped, CutIsWorst
<1> QED BY <1>7, <1>8 DEF Worst

LEMMA PodMetricsFirst ==
    ASSUME view \in Listing(Item("pod-metrics")), message \in PodMetrics(view)
    PROVE  Worst(message.top, TopCPU, CPU)
<1> DEFINE K == DOMAIN view
           m == [i \in DOMAIN view |-> CPU(view[i])]
           rank == [i \in K |-> -m[i]]
<1>1. K \subseteq DOMAIN view /\ m \in [DOMAIN view -> Nat]
    BY ListingIsFinite, CPUIsNat
<1>2. \A i \in DOMAIN view \ K : m[i] = 0
    OBVIOUS
<1>3. DOMAIN rank = K /\ \A i \in K : rank[i] = -m[i]
    OBVIOUS
<1>4. PICK p \in Sorted([i \in K |-> -CPU(view[i])]) :
        message = [top |-> [k \in Upto(p, TopCPU) |->
            [pod |-> view[p[k]].name, cpu |-> CPU(view[p[k]]), mem |-> Mem(view[p[k]])]]]
    BY Zenon DEF PodMetrics
<1>5. p \in Sorted(rank)
    <2>1. rank = [i \in K |-> -CPU(view[i])]
        BY <1>1
    <2> QED BY <2>1
<1>6. /\ DOMAIN message.top = Upto(p, TopCPU)
      /\ \A k \in Upto(p, TopCPU) : message.top[k].pod = view[p[k]].name
    BY <1>4
<1>7. \A i \in DOMAIN view : m[i] = CPU(view[i])
    OBVIOUS
<1> HIDE DEF m, rank
<1> DEFINE leftOut == {i \in DOMAIN view :
                         ~ \E j \in DOMAIN message.top : message.top[j].pod = view[i].name}
<1>8. \A i \in leftOut :
        /\ \A j \in DOMAIN view \ leftOut : m[i] <= m[j]
        /\ Cardinality(DOMAIN view \ leftOut) < TopCPU => m[i] = 0
    BY <1>1, <1>2, <1>3, <1>5, <1>6, TopsTyped, CutIsWorst
<1> QED BY <1>7, <1>8 DEF Worst

(* The aspects of which the API lists items of one kind.                   *)
LEMMA Listings ==
    ASSUME NEW a \in Aspects \ {"versions", "cilium-policies"}, NEW v \in Views[a]
    PROVE  v \in Listing(Item(a))
BY ViewsAreListings

(* aspectRestarts (main.go:306-309) and aspectPodMetrics (main.go:498-501) *)
(* sort before they cut: nothing that is worse is left out of the top.     *)
THEOREM WorstAreListed == Spec => []OffendersFirst
<1>1. Viewed => OffendersFirst
    <2> SUFFICES ASSUME Viewed, phase = "write" PROVE OffendersFirst
        BY DEF OffendersFirst
    <2>1. view \in Views[aspect] /\ message \in Summaries(aspect, view, ~failed)
        BY DEF Viewed
    <2>2. CASE aspect = "restarts"
        <3>1. view \in Listing(Item("restarts")) /\ message \in Restarts(view)
            BY <2>1, <2>2, Listings DEF Summaries, Aspects
        <3> QED BY <2>2, <3>1, RestartsFirst DEF OffendersFirst
    <2>3. CASE aspect = "pod-metrics"
        <3>1. view \in Listing(Item("pod-metrics")) /\ message \in PodMetrics(view)
            BY <2>1, <2>3, Listings DEF Summaries, Aspects
        <3> QED BY <2>3, <3>1, PodMetricsFirst DEF OffendersFirst
    <2> QED BY <2>2, <2>3 DEF OffendersFirst
<1> QED BY <1>1, WritesWhatItRead, PTL

(***************************************************************************)
(* What adds up.                                                           *)
(***************************************************************************)
LEMMA Parts ==
    ASSUME NEW S, IsFiniteSet(S), NEW T \in SUBSET S
    PROVE  /\ IsFiniteSet(T) /\ IsFiniteSet(S \ T)
           /\ Cardinality(S) \in Nat /\ Cardinality(T) \in Nat /\ Cardinality(S \ T) \in Nat
           /\ Cardinality(S \ T) + Cardinality(T) = Cardinality(S)
<1>1. IsFiniteSet(T) /\ IsFiniteSet(S \ T)
    BY FS_Subset
<1>2. Cardinality(S) \in Nat /\ Cardinality(T) \in Nat /\ Cardinality(S \ T) \in Nat
    BY <1>1, SizeOf
<1>3. S \cap T = T
    OBVIOUS
<1>4. Cardinality(S \ T) = Cardinality(S) - Cardinality(T)
    BY <1>3, FS_Difference
<1> QED BY <1>1, <1>2, <1>4

LEMMA SortedLength ==
    ASSUME NEW D, IsFiniteSet(D), NEW rank, DOMAIN rank = D, NEW p \in Sorted(rank),
           NEW s, DOMAIN s = DOMAIN p
    PROVE  Len(s) = Cardinality(D)
<1>1. Cardinality(D) \in Nat /\ DOMAIN p = 1..Cardinality(D)
    BY SortedHasAll
<1>2. DOMAIN s = 1..Cardinality(D)
    BY <1>1
<1> QED BY <1>1, <1>2

(* The sorted names of the items with an index in K are all of them.       *)
LEMMA SortedNamesAreAll ==
    ASSUME NEW items, NEW v \in Listing(items), NEW K \in SUBSET DOMAIN v,
           NEW names \in SortedNames(v, K)
    PROVE  /\ Len(names) = Cardinality(K)
           /\ \A i \in DOMAIN v : Contains(names, v[i].name) <=> i \in K
<1> DEFINE rank == [i \in K |-> v[i].name]
<1>1. IsFiniteSet(K) /\ DOMAIN rank = K
    BY ListingIsFinite, FS_Subset
<1>2. PICK p \in Sorted(rank) : names = [k \in DOMAIN p |-> v[p[k]].name]
    BY Zenon DEF SortedNames
<1> HIDE DEF rank
<1>3. /\ Cardinality(K) \in Nat /\ p \in [1..Cardinality(K) -> K]
      /\ \A x \in K : \E k \in 1..Cardinality(K) : p[k] = x
    BY <1>1, SortedHasAll
<1>4. Len(names) = Cardinality(K)
    BY <1>2, <1>3
<1>5. ASSUME NEW i \in DOMAIN v
      PROVE  Contains(names, v[i].name) <=> i \in K
    <2>1. CASE i \in K
        <3>1. PICK k \in 1..Cardinality(K) : p[k] = i
            BY <1>3, <2>1
        <3>2. names[k] = v[i].name
            BY <1>2, <1>3, <3>1
        <3> QED BY <1>4, <2>1, <3>2 DEF Contains
    <2>2. ASSUME Contains(names, v[i].name) PROVE i \in K
        <3>1. PICK k \in 1..Cardinality(K) : names[k] = v[i].name
            BY <1>4, <2>2 DEF Contains
        <3>2. names[k] = v[p[k]].name /\ p[k] \in K /\ p[k] \in DOMAIN v
            BY <1>2, <1>3
        <3>3. p[k] = i
            BY <3>1, <3>2, ListingIsFinite
        <3> QED BY <3>2, <3>3
    <2> QED BY <2>1, <2>2
<1> QED BY <1>4, <1>5

LEMMA DeploymentsAddUp ==
    ASSUME view \in Listing(Item("deployments")), message \in Deployments(view)
    PROVE  /\ message.ready + Len(message.notReady) = message.total
           /\ \A i \in DOMAIN view :
                Contains(message.notReady, view[i].name) <=>
                IF view[i].replicas = NoReplicas THEN view[i].ready = 0
                ELSE view[i].replicas > view[i].ready
<1> DEFINE K == Short(view)
<1>1. K \subseteq DOMAIN view
    BY DEF Short
<1>2. PICK names \in SortedNames(view, K) :
        message = [total |-> Len(view), ready |-> Cardinality(DOMAIN view \ K),
                   notReady |-> names]
    BY Zenon DEF Deployments
<1>3. ASSUME NEW i \in DOMAIN view
      PROVE  i \in K <=> IF view[i].replicas = NoReplicas THEN view[i].ready = 0
                         ELSE view[i].replicas > view[i].ready
    <2>1. view[i] \in Item("deployments")
        BY ListingIsFinite
    <2>2. view[i].ready \in Nat /\ view[i].replicas \in Nat \cup {NoReplicas}
        BY <2>1 DEF Item
    <2> QED BY <2>2 DEF Short, Wanted, NoReplicas
<1> HIDE DEF K
<1>4. /\ Len(names) = Cardinality(K)
      /\ \A i \in DOMAIN view : Contains(names, view[i].name) <=> i \in K
    BY <1>1, SortedNamesAreAll
<1>5. Cardinality(DOMAIN view \ K) + Cardinality(K) = Len(view)
    BY <1>1, ListingIsFinite, Parts
<1> QED BY <1>2, <1>3, <1>4, <1>5

LEMMA PeersFinite ==
    ASSUME NEW v \in Listing(Item("cilium-bgp"))
    PROVE  IsFiniteSet(Peers(v))
<1> DEFINE T == [addr : 0..9, state : STRING]
           In(i) == {{<<i, j>>} \X DOMAIN v[i].instances[j] : j \in DOMAIN v[i].instances}
           All == {UNION In(i) : i \in DOMAIN v}
<1>1. ASSUME NEW i \in DOMAIN v
      PROVE  IsFiniteSet(UNION In(i))
    <2>1. v[i] \in Item("cilium-bgp")
        BY ListingIsFinite
    <2>2. v[i].instances \in Seq(Seq(T))
        BY <2>1 DEF Item
    <2> HIDE DEF T
    <2>3. /\ IsFiniteSet(DOMAIN v[i].instances)
          /\ \A j \in DOMAIN v[i].instances : v[i].instances[j] \in Seq(T)
        BY <2>2, ListOf
    <2>4. \A j \in DOMAIN v[i].instances : IsFiniteSet(DOMAIN v[i].instances[j])
        BY <2>3, ListOf
    <2>5. \A S \in In(i) : IsFiniteSet(S)
        <3> SUFFICES ASSUME NEW j \in DOMAIN v[i].instances
                     PROVE  IsFiniteSet({<<i, j>>} \X DOMAIN v[i].instances[j])
            OBVIOUS
        <3>1. IsFiniteSet({<<i, j>>}) /\ IsFiniteSet(DOMAIN v[i].instances[j])
            BY <2>4, FS_Singleton
        <3> QED BY <3>1, FS_Product
    <2> DEFINE f == [j \in DOMAIN v[i].instances |-> {<<i, j>>} \X DOMAIN v[i].instances[j]]
    <2>6. f \in Surjection(DOMAIN v[i].instances, In(i))
        BY Fun_IsSurj
    <2> HIDE DEF In, f
    <2>7. IsFiniteSet(In(i))
        BY <2>3, <2>6, FS_Surjection
    <2> QED BY <2>5, <2>7, FS_UNION
<1> HIDE DEF In
<1> DEFINE g == [i \in DOMAIN v |-> UNION In(i)]
<1>2. g \in Surjection(DOMAIN v, All)
    BY Fun_IsSurj
<1>3. IsFiniteSet(DOMAIN v)
    BY ListingIsFinite
<1>4. \A S \in All : IsFiniteSet(S)
    BY <1>1
<1> HIDE DEF All, g
<1>5. IsFiniteSet(All)
    BY <1>2, <1>3, FS_Surjection
<1>6. IsFiniteSet(UNION All)
    BY <1>4, <1>5, FS_UNION
<1> QED BY <1>6 DEF Peers, All, In

LEMMA PeersAddUp ==
    ASSUME view \in Listing(Item("cilium-bgp")), message \in CiliumBGP(view)
    PROVE  message.established + Len(message.down) = message.peers
<1> DEFINE peer(x) == view[x[1][1]].instances[x[1][2]][x[2]]
           up == {x \in Peers(view) : peer(x).state = "established"}
           rank == [x \in Peers(view) \ up |-> 10 * view[x[1][1]].name + peer(x).addr]
<1>1. PICK p \in Sorted(rank) :
        message = [peers |-> Cardinality(Peers(view)), established |-> Cardinality(up),
                   down |-> [k \in DOMAIN p |->
                     <<view[p[k][1][1]].name, peer(p[k]).addr, peer(p[k]).state>>]]
    BY Zenon DEF CiliumBGP
<1>2. up \subseteq Peers(view) /\ DOMAIN rank = Peers(view) \ up
    OBVIOUS
<1>3. DOMAIN message.down = DOMAIN p
    BY <1>1
<1>4. message.peers = Cardinality(Peers(view)) /\ message.established = Cardinality(up)
    BY <1>1
<1> HIDE DEF up, rank
<1>5. /\ Cardinality(Peers(view) \ up) + Cardinality(up) = Cardinality(Peers(view))
      /\ IsFiniteSet(Peers(view) \ up)
      /\ Cardinality(Peers(view) \ up) \in Nat /\ Cardinality(up) \in Nat
    BY <1>2, PeersFinite, Parts
<1>6. Len(message.down) = Cardinality(Peers(view) \ up)
    BY <1>2, <1>3, <1>5, SortedLength
<1> QED BY <1>4, <1>5, <1>6

LEMMA CutBelow ==
    ASSUME NEW milli \in Nat
    PROVE  10 * CutCores(milli) <= milli /\ milli < 10 * CutCores(milli) + 20
BY DEF CutCores

LEMMA CapacityAddsUp ==
    ASSUME view \in Listing(Item("capacity")), message \in Capacity(view)
    PROVE  LET milli == Total([i \in DOMAIN view |-> view[i].milli])
           IN  10 * message.cpu <= milli /\ milli < 10 * message.cpu + 20
<1> DEFINE milli == Total([i \in DOMAIN view |-> view[i].milli])
<1>1. [i \in DOMAIN view |-> view[i].milli] \in [DOMAIN view -> Nat]
    <2> SUFFICES ASSUME NEW i \in DOMAIN view PROVE view[i].milli \in Nat
        OBVIOUS
    <2>1. view[i] \in Item("capacity")
        BY ListingIsFinite
    <2> QED BY <2>1 DEF Item
<1>2. milli \in Nat
    <2> DEFINE f == [i \in DOMAIN view |-> view[i].milli]
    <2>1. f \in [DOMAIN view -> Nat]
        BY <1>1
    <2> HIDE DEF f
    <2>2. Total(f) \in Nat
        BY <2>1, ListingIsFinite, TotalIsNat
    <2> QED BY <2>2 DEF f
<1>3. message.cpu = CutCores(milli)
    BY DEF Capacity
<1> HIDE DEF milli
<1>4. 10 * message.cpu <= milli /\ milli < 10 * message.cpu + 20
    BY <1>2, <1>3, CutBelow
<1> QED BY <1>4 DEF milli

LEMMA PodsAddUp ==
    ASSUME view \in Listing(Item("pods")), message \in Pods(view)
    PROVE  message.total - Cardinality({i \in DOMAIN view : view[i].phase = "Unknown"}) =
           message.running + message.pending + message.succeeded + message.failed
<1> DEFINE In(f) == {i \in DOMAIN view : view[i].phase = f}
           A1 == DOMAIN view \ In("Unknown")
           A2 == A1 \ In("Running")
           A3 == A2 \ In("Pending")
           A4 == A3 \ In("Succeeded")
<1>1. /\ message.total = Len(view)
      /\ message.running = Cardinality(In("Running"))
      /\ message.pending = Cardinality(In("Pending"))
      /\ message.succeeded = Cardinality(In("Succeeded"))
      /\ message.failed = Cardinality(In("Failed"))
    BY DEF Pods
<1>2. \A i \in DOMAIN view : view[i].phase \in PodPhases
    <2>1. \A i \in DOMAIN view : view[i] \in Item("pods")
        BY ListingIsFinite
    <2> QED BY <2>1 DEF Item
<1>3. /\ In("Unknown") \subseteq DOMAIN view
      /\ In("Running") \subseteq A1 /\ In("Pending") \subseteq A2
      /\ In("Succeeded") \subseteq A3 /\ A4 = In("Failed")
    BY <1>2 DEF PodPhases
<1>4. IsFiniteSet(DOMAIN view) /\ Cardinality(DOMAIN view) = Len(view)
    BY ListingIsFinite
<1> HIDE DEF In, A1, A2, A3, A4
<1>5. /\ IsFiniteSet(A1) /\ Cardinality(A1) \in Nat /\ Cardinality(In("Unknown")) \in Nat
      /\ Cardinality(A1) + Cardinality(In("Unknown")) = Len(view)
    BY <1>3, <1>4, Parts DEF A1
<1>6. /\ IsFiniteSet(A2) /\ Cardinality(A2) \in Nat /\ Cardinality(In("Running")) \in Nat
      /\ Cardinality(A2) + Cardinality(In("Running")) = Cardinality(A1)
    BY <1>3, <1>5, Parts DEF A2
<1>7. /\ IsFiniteSet(A3) /\ Cardinality(A3) \in Nat /\ Cardinality(In("Pending")) \in Nat
      /\ Cardinality(A3) + Cardinality(In("Pending")) = Cardinality(A2)
    BY <1>3, <1>6, Parts DEF A3
<1>8. /\ Cardinality(A4) \in Nat /\ Cardinality(In("Succeeded")) \in Nat
      /\ Cardinality(A4) + Cardinality(In("Succeeded")) = Cardinality(A3)
    BY <1>3, <1>7, Parts DEF A4
<1>9. Len(view) - Cardinality(In("Unknown")) =
      message.running + message.pending + message.succeeded + message.failed
    BY <1>1, <1>3, <1>5, <1>6, <1>7, <1>8
<1> QED BY <1>1, <1>9 DEF In

(* The sizes of the classes of a finite set add up to its size: number the *)
(* members of each class, and the units of the sum are the members.        *)
LEMMA ClassesAddUp ==
    ASSUME NEW D, IsFiniteSet(D), NEW class, NEW size,
           DOMAIN size = {class[i] : i \in D},
           \A t \in DOMAIN size : size[t] = Cardinality({i \in D : class[i] = t})
    PROVE  Total(size) = Cardinality(D)
<1> DEFINE Members(t) == {i \in D : class[i] = t}
           number == [t \in DOMAIN size |-> CHOOSE g : g \in Bijection(1..size[t], Members(t))]
           h == [u \in Units(size) |-> number[u[1]][u[2]]]
<1>1. ASSUME NEW t \in DOMAIN size
      PROVE  size[t] \in Nat /\ number[t] \in Bijection(1..size[t], Members(t))
    <2>1. IsFiniteSet(Members(t))
        BY FS_Subset
    <2>2. size[t] \in Nat /\ ExistsBijection(1..size[t], Members(t))
        BY <2>1, FS_CardinalityType
    <2>3. \E g : g \in Bijection(1..size[t], Members(t))
        BY <2>2, Fun_ExistsBij
    <2> QED BY <2>2, <2>3, Zenon
<1>2. /\ \A t : Members(t) \subseteq D
      /\ \A t : \A i \in Members(t) : class[i] = t
      /\ \A i \in D : i \in Members(class[i])
    OBVIOUS
<1> HIDE DEF number, Members
<1>3. ASSUME NEW t \in DOMAIN size
      PROVE  /\ \A k \in 1..size[t] : number[t][k] \in Members(t)
             /\ \A j, k \in 1..size[t] : number[t][j] = number[t][k] => j = k
             /\ \A i \in Members(t) : \E k \in 1..size[t] : number[t][k] = i
    BY <1>1 DEF Bijection, Injection, IsInjective, Surjection
<1>4. \A u : u \in Units(size) <=>
               u = <<u[1], u[2]>> /\ u[1] \in DOMAIN size /\ u[2] \in 1..size[u[1]]
    BY DEF Units
<1>5. h \in [Units(size) -> D]
    BY <1>3, <1>2, <1>4
<1>6. ASSUME NEW u \in Units(size), NEW w \in Units(size), h[u] = h[w]
      PROVE  u = w
    <2>1. h[u] \in Members(u[1]) /\ h[w] \in Members(w[1])
        BY <1>3, <1>4
    <2>2. u[1] = w[1]
        BY <1>2, <1>6, <2>1
    <2>3. u[2] = w[2]
        BY <1>3, <1>6, <1>4, <2>2
    <2> QED BY <1>4, <2>2, <2>3
<1>7. ASSUME NEW i \in D
      PROVE  \E u \in Units(size) : h[u] = i
    <2>1. class[i] \in DOMAIN size /\ i \in Members(class[i])
        BY <1>2
    <2>2. PICK k \in 1..size[class[i]] : number[class[i]][k] = i
        BY <1>3, <2>1
    <2>3. <<class[i], k>> \in Units(size)
        BY <1>4, <2>1
    <2> QED BY <2>2, <2>3
<1> HIDE DEF h
<1>8. h \in Bijection(Units(size), D)
    BY <1>5, <1>6, <1>7, Fun_IsBij
<1>9. IsFiniteSet(Units(size))
    <2>1. IsFiniteSet(DOMAIN size)
        <3> DEFINE c == [i \in D |-> class[i]]
        <3>1. c \in Surjection(D, DOMAIN size)
            BY Fun_IsSurj
        <3> HIDE DEF c
        <3> QED BY <3>1, FS_Surjection
    <2> QED BY <1>8, FS_Injection DEF Bijection
<1> QED BY <1>8, <1>9, BijectionSize DEF Total

LEMMA ServicesAddUp ==
    ASSUME view \in Listing(Item("services")), message \in Services(view)
    PROVE  /\ message.total = Total(message.byType)
           /\ message.loadbalancers # <<>> => "LoadBalancer" \in DOMAIN message.byType
<1> DEFINE ip(v) == view[v[1]].ingress[v[2]]
           rank == [v \in VIPs(view) |-> ip(v)]
<1>1. PICK p \in Sorted(rank) :
        message = [total |-> Len(view), byType |-> ByType(view),
                   loadbalancers |-> [k \in DOMAIN p |->
                      [svc |-> view[p[k][1]].name, ip |-> ip(p[k])]]]
    BY Zenon DEF Services
<1>2. /\ message.total = Len(view) /\ message.byType = ByType(view)
      /\ message.loadbalancers = [k \in DOMAIN p |->
                      [svc |-> view[p[k][1]].name, ip |-> ip(p[k])]]
    BY <1>1
<1>3. Total(ByType(view)) = Len(view)
    <2> DEFINE class == [i \in DOMAIN view |-> view[i].type]
               size == ByType(view)
               D == DOMAIN view
    <2>1. /\ DOMAIN size = {class[i] : i \in D}
          /\ \A t \in DOMAIN size : size[t] = Cardinality({i \in D : class[i] = t})
        <3>1. \A t : {i \in D : class[i] = t} = {i \in D : view[i].type = t}
            OBVIOUS
        <3> QED BY <3>1 DEF ByType
    <2>2. IsFiniteSet(D) /\ Cardinality(D) = Len(view)
        BY ListingIsFinite
    <2> HIDE DEF class, size, D
    <2>3. Total(size) = Cardinality(D)
        BY <2>1, <2>2, ClassesAddUp
    <2> QED BY <2>2, <2>3 DEF size
<1>4. ASSUME "LoadBalancer" \notin DOMAIN ByType(view)
      PROVE  message.loadbalancers = <<>>
    <2>1. VIPs(view) = {}
        BY <1>4 DEF VIPs, ByType
    <2>2. IsFiniteSet({}) /\ Cardinality({}) = 0
        BY FS_EmptySet
    <2>3. DOMAIN rank = {}
        BY <2>1
    <2> HIDE DEF rank
    <2>4. p \in [1..0 -> {}]
        BY <2>2, <2>3, SortedHasAll
    <2>5. DOMAIN p = {}
        BY <2>4
    <2> QED BY <1>2, <2>5
<1> QED BY <1>2, <1>3, <1>4

(* What is published adds up: aspectDeployments (main.go:345-359),         *)
(* aspectServices (main.go:370-383), aspectCiliumBGP (main.go:513-541),    *)
(* aspectPods (main.go:255-265) and aspectCapacity (main.go:316-335), for  *)
(* every list the API may give; aspectCiliumPolicies (main.go:617-624)     *)
(* publishes nothing of which one half was not answered.                   *)
THEOREM SummariesAgree == Spec => []SummariesAddUp
<1>1. Viewed => SummariesAddUp
    <2> SUFFICES ASSUME Viewed, phase = "write" PROVE SummariesAddUp
        BY DEF SummariesAddUp
    <2>1. view \in Views[aspect] /\ message \in Summaries(aspect, view, ~failed)
        BY DEF Viewed
    <2>2. CASE aspect = "deployments"
        <3>1. view \in Listing(Item("deployments")) /\ message \in Deployments(view)
            BY <2>1, <2>2, Listings DEF Summaries, Aspects
        <3> QED BY <2>2, <3>1, DeploymentsAddUp DEF SummariesAddUp
    <2>3. CASE aspect = "cilium-bgp"
        <3>1. view \in Listing(Item("cilium-bgp")) /\ message \in CiliumBGP(view)
            BY <2>1, <2>3, Listings DEF Summaries, Aspects
        <3> QED BY <2>3, <3>1, PeersAddUp DEF SummariesAddUp
    <2>4. CASE aspect = "pods"
        <3>1. view \in Listing(Item("pods")) /\ message \in Pods(view)
            BY <2>1, <2>4, Listings DEF Summaries, Aspects
        <3> QED BY <2>4, <3>1, PodsAddUp DEF SummariesAddUp
    <2>5. CASE aspect = "services"
        <3>1. view \in Listing(Item("services")) /\ message \in Services(view)
            BY <2>1, <2>5, Listings DEF Summaries, Aspects
        <3> QED BY <2>5, <3>1, ServicesAddUp DEF SummariesAddUp
    <2>6. CASE aspect = "capacity"
        <3>1. view \in Listing(Item("capacity")) /\ message \in Capacity(view)
            BY <2>1, <2>6, Listings DEF Summaries, Aspects
        <3> QED BY <2>6, <3>1, CapacityAddsUp DEF SummariesAddUp
    <2>7. CASE aspect = "cilium-policies"
        <3>1. message \in CiliumPolicies(view.cnp, view.ccnp) /\ ~failed
            BY <2>1, <2>7 DEF Summaries, Viewed
        <3> QED BY <2>7, <3>1 DEF SummariesAddUp, CiliumPolicies
    <2>8. CASE aspect \notin {"deployments", "cilium-bgp", "pods", "services", "capacity",
                              "cilium-policies"}
        BY <2>8 DEF SummariesAddUp
    <2> QED BY <2>2, <2>3, <2>4, <2>5, <2>6, <2>7, <2>8
<1> QED BY <1>1, WritesWhatItRead, PTL

(***************************************************************************)
(* The order of the items.                                                 *)
(***************************************************************************)
(* r takes the items of v to where they stand in w.                        *)
Moved(v, w, r) ==
    /\ r \in Bijection(DOMAIN v, DOMAIN w)
    /\ \A i \in DOMAIN v : w[r[i]] = v[i]

(* Two lists of the same items.                                            *)
Alike(items, v, w) ==
    v \in Listing(items) /\ w \in Listing(items) /\ \E r : Moved(v, w, r)

LEMMA BijectionIs ==
    ASSUME NEW S, NEW T, NEW f
    PROVE  f \in Bijection(S, T) <=>
             /\ f \in [S -> T]
             /\ \A x, y \in S : f[x] = f[y] => x = y
             /\ \A t \in T : \E x \in S : f[x] = t
BY DEF Bijection, Injection, IsInjective, Surjection

LEMMA ArrangedAlike ==
    ASSUME NEW items, NEW v \in Listing(items), NEW w \in Arrangements(v)
    PROVE  Alike(items, v, w) /\ Alike(items, w, v)
<1>1. PICK p \in Bijection(DOMAIN v, DOMAIN v) : w = [i \in DOMAIN v |-> v[p[i]]]
    BY Zenon DEF Arrangements
<1>2. /\ p \in [DOMAIN v -> DOMAIN v]
      /\ \A i, j \in DOMAIN v : p[i] = p[j] => i = j
      /\ \A j \in DOMAIN v : \E i \in DOMAIN v : p[i] = j
    BY BijectionIs
<1>3. DOMAIN w = DOMAIN v /\ \A i \in DOMAIN v : w[i] = v[p[i]]
    BY <1>1
<1>4. w \in Listing(items)
    <2>1. \A i \in DOMAIN v : w[i] \in items
        BY <1>2, <1>3, ListingIsFinite
    <2>2. w \in Seq(items)
        BY <1>1, <2>1, ListingIsFinite
    <2>3. \A i, j \in DOMAIN w : i # j => w[i].name # w[j].name
        <3> SUFFICES ASSUME NEW i \in DOMAIN w, NEW j \in DOMAIN w, i # j
                     PROVE  w[i].name # w[j].name
            OBVIOUS
        <3>1. p[i] \in DOMAIN v /\ p[j] \in DOMAIN v /\ p[i] # p[j]
            BY <1>2, <1>3
        <3>2. v[p[i]].name # v[p[j]].name
            BY <3>1, ListingIsFinite
        <3> QED BY <1>3, <3>2
    <2> QED BY <2>2, <2>3 DEF Listing
<1>5. Moved(w, v, p)
    BY <1>3 DEF Moved
<1> DEFINE r == [j \in DOMAIN v |-> CHOOSE i \in DOMAIN v : p[i] = j]
<1>6. \A j \in DOMAIN v : r[j] \in DOMAIN v /\ p[r[j]] = j
    BY <1>2
<1>7. DOMAIN r = DOMAIN v
    OBVIOUS
<1>8. r = [j \in DOMAIN v |-> r[j]]
    OBVIOUS
<1> HIDE DEF r
<1>9. Moved(v, w, r)
    <2>1. r \in [DOMAIN v -> DOMAIN w]
        BY <1>3, <1>6, <1>8
    <2>2. \A i, j \in DOMAIN v : r[i] = r[j] => i = j
        BY <1>6
    <2>3. \A t \in DOMAIN w : \E x \in DOMAIN v : r[x] = t
        BY <1>2, <1>3, <1>6
    <2>4. \A i \in DOMAIN v : w[r[i]] = v[i]
        BY <1>3, <1>6
    <2> QED BY <2>1, <2>2, <2>3, <2>4, BijectionIs DEF Moved
<1> QED BY <1>4, <1>5, <1>9 DEF Alike

(* g takes what v has appended to what w has appended.                     *)
LEMMA SortedMoved ==
    ASSUME NEW D, NEW E, IsFiniteSet(D), NEW g \in Bijection(D, E),
           NEW rank, NEW other, DOMAIN rank = D, DOMAIN other = E,
           \A x \in D : other[g[x]] = rank[x], NEW p \in Sorted(rank)
    PROVE  /\ DOMAIN p = 1..Cardinality(D) /\ \A k \in DOMAIN p : p[k] \in D
           /\ [k \in DOMAIN p |-> g[p[k]]] \in Sorted(other)
<1> DEFINE q == [k \in DOMAIN p |-> g[p[k]]]
           N == Cardinality(D)
<1>1. Cardinality(E) = N
    BY BijectionSize
<1>2. /\ g \in [D -> E]
      /\ \A x, y \in D : g[x] = g[y] => x = y
      /\ \A t \in E : \E x \in D : g[x] = t
    BY BijectionIs
<1>3. /\ N \in Nat /\ p \in [1..N -> D]
      /\ \A j, k \in 1..N : p[j] = p[k] => j = k
      /\ \A x \in D : \E k \in 1..N : p[k] = x
      /\ \A j, k \in 1..N : j < k => rank[p[j]] <= rank[p[k]]
    BY SortedHasAll
<1> HIDE DEF N
<1>4. DOMAIN p = 1..N /\ \A k \in 1..N : p[k] \in D
    BY <1>3
<1>5. q \in Bijection(1..N, E)
    <2>1. q \in [1..N -> E]
        BY <1>2, <1>4
    <2>2. \A j, k \in 1..N : q[j] = q[k] => j = k
        BY <1>2, <1>3, <1>4
    <2>3. \A t \in E : \E k \in 1..N : q[k] = t
        BY <1>2, <1>3, <1>4
    <2> HIDE DEF q
    <2> QED BY <2>1, <2>2, <2>3, BijectionIs
<1>6. \A j, k \in DOMAIN q : j < k => other[q[j]] <= other[q[k]]
    BY <1>3, <1>4
<1> HIDE DEF q
<1>7. q \in Sorted(other)
    BY <1>1, <1>5, <1>6 DEF Sorted
<1> QED BY <1>4, <1>7 DEF q, N

LEMMA RestrictedMove ==
    ASSUME NEW D, NEW E, NEW r \in Bijection(D, E), NEW K \in SUBSET D, NEW L \in SUBSET E,
           \A i \in D : i \in K <=> r[i] \in L
    PROVE  [i \in K |-> r[i]] \in Bijection(K, L)
<1>1. /\ r \in [D -> E]
      /\ \A x, y \in D : r[x] = r[y] => x = y
      /\ \A t \in E : \E x \in D : r[x] = t
    BY BijectionIs
<1> DEFINE g == [i \in K |-> r[i]]
<1>2. /\ g \in [K -> L]
      /\ \A x, y \in K : g[x] = g[y] => x = y
      /\ \A t \in L : \E x \in K : g[x] = t
    BY <1>1
<1> HIDE DEF g
<1> QED BY <1>2, BijectionIs DEF g

(* A sum does not depend on the order of its terms.                        *)
LEMMA TotalMoved ==
    ASSUME NEW D, IsFiniteSet(D), NEW E, NEW r \in Bijection(D, E),
           NEW f \in [D -> Nat], NEW h, DOMAIN h = E,
           \A i \in D : h[r[i]] = f[i]
    PROVE  Total(h) = Total(f)
<1> DEFINE g == [u \in Units(f) |-> <<r[u[1]], u[2]>>]
<1>1. /\ r \in [D -> E]
      /\ \A x, y \in D : r[x] = r[y] => x = y
      /\ \A t \in E : \E x \in D : r[x] = t
    BY BijectionIs
<1>2. /\ \A u : u \in Units(f) <=> u = <<u[1], u[2]>> /\ u[1] \in D /\ u[2] \in 1..f[u[1]]
      /\ \A u : u \in Units(h) <=> u = <<u[1], u[2]>> /\ u[1] \in E /\ u[2] \in 1..h[u[1]]
    BY DEF Units
<1>3. /\ g \in [Units(f) -> Units(h)]
      /\ \A x, y \in Units(f) : g[x] = g[y] => x = y
    BY <1>1, <1>2
<1>4. ASSUME NEW t \in Units(h)
      PROVE  \E x \in Units(f) : g[x] = t
    <2>1. PICK i \in D : r[i] = t[1]
        BY <1>1, <1>2
    <2>2. <<i, t[2]>> \in Units(f)
        BY <1>2, <2>1
    <2> QED BY <1>2, <2>1, <2>2
<1> HIDE DEF g
<1>5. g \in Bijection(Units(f), Units(h))
    BY <1>3, <1>4, BijectionIs
<1>6. IsFiniteSet(Units(f))
    BY TotalIsNat
<1> QED BY <1>5, <1>6, BijectionSize DEF Total

LEMMA NamesMoved ==
    ASSUME NEW items, NEW v \in Listing(items), NEW w, NEW r, Moved(v, w, r),
           NEW K \in SUBSET DOMAIN v, NEW L \in SUBSET DOMAIN w,
           \A i \in DOMAIN v : i \in K <=> r[i] \in L,
           NEW names \in SortedNames(v, K)
    PROVE  names \in SortedNames(w, L)
<1> DEFINE rank == [i \in K |-> v[i].name]
           other == [i \in L |-> w[i].name]
           g == [i \in K |-> r[i]]
<1>1. PICK p \in Sorted(rank) : names = [k \in DOMAIN p |-> v[p[k]].name]
    BY Zenon DEF SortedNames
<1>2. r \in Bijection(DOMAIN v, DOMAIN w) /\ \A i \in DOMAIN v : w[r[i]] = v[i]
    BY DEF Moved
<1>3. g \in Bijection(K, L)
    BY <1>2, RestrictedMove
<1>4. IsFiniteSet(K)
    BY ListingIsFinite, FS_Subset
<1>5. DOMAIN rank = K /\ DOMAIN other = L
    OBVIOUS
<1>6. \A i \in K : g[i] = r[i] /\ g[i] \in L
    BY <1>3, BijectionIs
<1>7. \A i \in K : other[g[i]] = rank[i]
    BY <1>2, <1>6
<1> DEFINE q == [k \in DOMAIN p |-> g[p[k]]]
<1> HIDE DEF rank, other, g
<1>8. q \in Sorted(other) /\ \A k \in DOMAIN p : p[k] \in K
    BY <1>3, <1>4, <1>5, <1>7, SortedMoved
<1>9. names = [k \in DOMAIN q |-> w[q[k]].name]
    BY <1>1, <1>2, <1>6, <1>8
<1> HIDE DEF q
<1> QED BY Zenon, <1>8, <1>9 DEF SortedNames, other

(* A list and its moved copy are as long.                                  *)
LEMMA AsLong ==
    ASSUME NEW items, NEW v \in Listing(items), NEW w \in Listing(items),
           NEW r, Moved(v, w, r)
    PROVE  Len(v) = Len(w) /\ DOMAIN v = DOMAIN w
<1>1. Cardinality(DOMAIN v) = Cardinality(DOMAIN w)
    BY ListingIsFinite, BijectionSize DEF Moved
<1> QED BY <1>1, ListingIsFinite

(* The items with a property are as many in both.                          *)
LEMMA AsMany ==
    ASSUME NEW items, NEW v \in Listing(items), NEW w, NEW r, Moved(v, w, r),
           NEW K \in SUBSET DOMAIN v, NEW L \in SUBSET DOMAIN w,
           \A i \in DOMAIN v : i \in K <=> r[i] \in L
    PROVE  Cardinality(K) = Cardinality(L)
<1>1. [i \in K |-> r[i]] \in Bijection(K, L)
    BY RestrictedMove DEF Moved
<1>2. IsFiniteSet(K)
    BY ListingIsFinite, FS_Subset
<1> QED BY <1>1, <1>2, BijectionSize

LEMMA MovedInto ==
    ASSUME NEW v, NEW w, NEW r, Moved(v, w, r)
    PROVE  \A i \in DOMAIN v : r[i] \in DOMAIN w /\ w[r[i]] = v[i]
BY BijectionIs DEF Moved

LEMMA NamespacesMoved ==
    ASSUME NEW items, NEW v, NEW w, Alike(items, v, w)
    PROVE  Namespaces(v) \subseteq Namespaces(w)
<1>1. PICK r : Moved(v, w, r)
    BY DEF Alike
<1>2. Len(v) = Len(w)
    BY <1>1, AsLong DEF Alike
<1>3. \A i \in DOMAIN v : i \in DOMAIN v <=> r[i] \in DOMAIN w
    BY <1>1, MovedInto
<1>4. \A names \in SortedNames(v, DOMAIN v) : names \in SortedNames(w, DOMAIN w)
    BY <1>1, <1>3, NamesMoved DEF Alike
<1>5. \A names \in SortedNames(v, DOMAIN v) :
        [count |-> Len(v), names |-> names] \in Namespaces(w)
    BY Zenon, <1>2, <1>4 DEF Namespaces
<1> QED BY Zenon, <1>5 DEF Namespaces

LEMMA NodesMoved ==
    ASSUME NEW items, NEW v, NEW w, Alike(items, v, w)
    PROVE  Nodes(v) \subseteq Nodes(w)
<1> DEFINE Ready(l) == {i \in DOMAIN l : <<"Ready", "True">> \in l[i].conditions}
           Body(l, names) == [total |-> Len(l), ready |-> Cardinality(Ready(l)), names |-> names]
<1>1. PICK r : Moved(v, w, r)
    BY DEF Alike
<1>2. Len(v) = Len(w)
    BY <1>1, AsLong DEF Alike
<1>3. \A i \in DOMAIN v : i \in DOMAIN v <=> r[i] \in DOMAIN w
    BY <1>1, MovedInto
<1>4. \A names \in SortedNames(v, DOMAIN v) : names \in SortedNames(w, DOMAIN w)
    BY <1>1, <1>3, NamesMoved DEF Alike
<1>5. \A i \in DOMAIN v : i \in Ready(v) <=> r[i] \in Ready(w)
    BY <1>1, MovedInto
<1>6. Cardinality(Ready(v)) = Cardinality(Ready(w))
    <2> Ready(v) \in SUBSET DOMAIN v /\ Ready(w) \in SUBSET DOMAIN w
        OBVIOUS
    <2> HIDE DEF Ready
    <2> QED BY <1>1, <1>5, AsMany DEF Alike
<1>7. \A names : Body(v, names) = Body(w, names)
    BY <1>2, <1>6
<1>8. /\ Nodes(v) = {Body(v, names) : names \in SortedNames(v, DOMAIN v)}
      /\ Nodes(w) = {Body(w, names) : names \in SortedNames(w, DOMAIN w)}
    BY Zenon DEF Nodes
<1> HIDE DEF Body
<1> QED BY Zenon, <1>4, <1>7, <1>8

InPhase(l, f) == {i \in DOMAIN l : l[i].phase = f}

LEMMA PhasesMoved ==
    ASSUME NEW items, NEW v, NEW w, Alike(items, v, w), NEW f
    PROVE  Cardinality(InPhase(v, f)) = Cardinality(InPhase(w, f))
<1>1. PICK r : Moved(v, w, r)
    BY DEF Alike
<1>2. \A i \in DOMAIN v : i \in InPhase(v, f) <=> r[i] \in InPhase(w, f)
    BY <1>1, MovedInto DEF InPhase
<1>3. InPhase(v, f) \in SUBSET DOMAIN v /\ InPhase(w, f) \in SUBSET DOMAIN w
    BY DEF InPhase
<1> QED BY <1>1, <1>2, <1>3, AsMany DEF Alike

LEMMA PodsMoved ==
    ASSUME NEW items, NEW v, NEW w, Alike(items, v, w)
    PROVE  Pods(v) \subseteq Pods(w)
<1> DEFINE In(l, f) == Cardinality(InPhase(l, f))
           Body(l) == [total |-> Len(l), running |-> In(l, "Running"),
                       pending |-> In(l, "Pending"), succeeded |-> In(l, "Succeeded"),
                       failed |-> In(l, "Failed")]
<1>1. Len(v) = Len(w)
    BY AsLong DEF Alike
<1>2. \A f : In(v, f) = In(w, f)
    BY PhasesMoved
<1>3. Pods(v) = {Body(v)} /\ Pods(w) = {Body(w)}
    BY Zenon DEF Pods, InPhase
<1> HIDE DEF In
<1>4. Body(v) = Body(w)
    BY <1>1, <1>2
<1> QED BY <1>3, <1>4

(* A sum over the items, of a number that an item alone determines.        *)
LEMMA SumMoved ==
    ASSUME NEW items, NEW v, NEW w, Alike(items, v, w),
           NEW f \in [DOMAIN v -> Nat], NEW h, DOMAIN h = DOMAIN w,
           \A i \in DOMAIN v, j \in DOMAIN w : v[i] = w[j] => f[i] = h[j]
    PROVE  Total(f) = Total(h)
<1>1. PICK r : Moved(v, w, r)
    BY DEF Alike
<1>2. \A i \in DOMAIN v : h[r[i]] = f[i]
    BY <1>1, MovedInto
<1> QED BY <1>1, <1>2, ListingIsFinite, TotalMoved DEF Moved, Alike

LEMMA CapacityMoved ==
    ASSUME NEW v, NEW w, Alike(Item("capacity"), v, w)
    PROVE  Capacity(v) \subseteq Capacity(w)
<1> DEFINE milli(l) == [i \in DOMAIN l |-> l[i].milli]
           mib(l) == [i \in DOMAIN l |-> l[i].mib]
           allocMilli(l) == [i \in DOMAIN l |-> l[i].allocMilli]
           allocMib(l) == [i \in DOMAIN l |-> l[i].allocMib]
           Body(l) == [cpu |-> CutCores(Total(milli(l))), memory |-> CutGiB(Total(mib(l))),
                       allocCPU |-> CutCores(Total(allocMilli(l))),
                       allocMemory |-> CutGiB(Total(allocMib(l)))]
<1>1. \A i \in DOMAIN v : /\ v[i].milli \in Nat /\ v[i].mib \in Nat
                          /\ v[i].allocMilli \in Nat /\ v[i].allocMib \in Nat
    <2> SUFFICES ASSUME NEW i \in DOMAIN v
                 PROVE  /\ v[i].milli \in Nat /\ v[i].mib \in Nat
                        /\ v[i].allocMilli \in Nat /\ v[i].allocMib \in Nat
        OBVIOUS
    <2>1. v[i] \in Item("capacity")
        BY ListingIsFinite DEF Alike
    <2> QED BY <2>1 DEF Item
<1>2. Total(milli(v)) = Total(milli(w))
    <2>1. milli(v) \in [DOMAIN v -> Nat] /\ DOMAIN milli(w) = DOMAIN w
        BY <1>1
    <2>2. \A i \in DOMAIN v, j \in DOMAIN w : v[i] = w[j] => milli(v)[i] = milli(w)[j]
        OBVIOUS
    <2> HIDE DEF milli
    <2> QED BY <2>1, <2>2, SumMoved
<1>3. Total(mib(v)) = Total(mib(w))
    <2>1. mib(v) \in [DOMAIN v -> Nat] /\ DOMAIN mib(w) = DOMAIN w
        BY <1>1
    <2>2. \A i \in DOMAIN v, j \in DOMAIN w : v[i] = w[j] => mib(v)[i] = mib(w)[j]
        OBVIOUS
    <2> HIDE DEF mib
    <2> QED BY <2>1, <2>2, SumMoved
<1>4. Total(allocMilli(v)) = Total(allocMilli(w))
    <2>1. allocMilli(v) \in [DOMAIN v -> Nat] /\ DOMAIN allocMilli(w) = DOMAIN w
        BY <1>1
    <2>2. \A i \in DOMAIN v, j \in DOMAIN w :
            v[i] = w[j] => allocMilli(v)[i] = allocMilli(w)[j]
        OBVIOUS
    <2> HIDE DEF allocMilli
    <2> QED BY <2>1, <2>2, SumMoved
<1>5. Total(allocMib(v)) = Total(allocMib(w))
    <2>1. allocMib(v) \in [DOMAIN v -> Nat] /\ DOMAIN allocMib(w) = DOMAIN w
        BY <1>1
    <2>2. \A i \in DOMAIN v, j \in DOMAIN w :
            v[i] = w[j] => allocMib(v)[i] = allocMib(w)[j]
        OBVIOUS
    <2> HIDE DEF allocMib
    <2> QED BY <2>1, <2>2, SumMoved
<1>6. Capacity(v) = {Body(v)} /\ Capacity(w) = {Body(w)}
    BY DEF Capacity
<1> HIDE DEF milli, mib, allocMilli, allocMib
<1>7. Body(v) = Body(w)
    BY <1>2, <1>3, <1>4, <1>5
<1> HIDE DEF Body
<1> QED BY <1>6, <1>7

LEMMA PVCsMoved ==
    ASSUME NEW v, NEW w, Alike(Item("pvcs"), v, w)
    PROVE  PVCs(v) \subseteq PVCs(w)
<1> DEFINE In(l, f) == Cardinality(InPhase(l, f))
           mib(l) == [i \in DOMAIN l |-> l[i].mib]
           Body(l) == [total |-> Len(l), bound |-> In(l, "Bound"),
                       pending |-> In(l, "Pending"), requested |-> CutGiB(Total(mib(l)))]
<1>1. Len(v) = Len(w)
    BY AsLong DEF Alike
<1>2. \A f : In(v, f) = In(w, f)
    BY PhasesMoved
<1>3. Total(mib(v)) = Total(mib(w))
    <2>1. ASSUME NEW i \in DOMAIN v PROVE v[i].mib \in Nat
        <3>1. v[i] \in Item("pvcs")
            BY ListingIsFinite DEF Alike
        <3> QED BY <3>1 DEF Item
    <2>2. mib(v) \in [DOMAIN v -> Nat] /\ DOMAIN mib(w) = DOMAIN w
        BY <2>1
    <2>3. \A i \in DOMAIN v, j \in DOMAIN w : v[i] = w[j] => mib(v)[i] = mib(w)[j]
        OBVIOUS
    <2> HIDE DEF mib
    <2> QED BY <2>2, <2>3, SumMoved
<1>4. PVCs(v) = {Body(v)} /\ PVCs(w) = {Body(w)}
    BY Zenon DEF PVCs, InPhase
<1> HIDE DEF In, mib
<1>5. Body(v) = Body(w)
    BY <1>1, <1>2, <1>3
<1> QED BY <1>4, <1>5

LEMMA DeploymentsMoved ==
    ASSUME NEW items, NEW v, NEW w, Alike(items, v, w)
    PROVE  Deployments(v) \subseteq Deployments(w)
<1> DEFINE Ready(l) == DOMAIN l \ Short(l)
           Body(l, names) == [total |-> Len(l), ready |-> Cardinality(Ready(l)),
                              notReady |-> names]
<1>1. PICK r : Moved(v, w, r)
    BY DEF Alike
<1>2. Len(v) = Len(w)
    BY <1>1, AsLong DEF Alike
<1>3. \A i \in DOMAIN v : i \in Short(v) <=> r[i] \in Short(w)
    BY <1>1, MovedInto DEF Short
<1>4. Short(v) \in SUBSET DOMAIN v /\ Short(w) \in SUBSET DOMAIN w
    BY DEF Short
<1>5. \A names \in SortedNames(v, Short(v)) : names \in SortedNames(w, Short(w))
    BY <1>1, <1>3, <1>4, NamesMoved DEF Alike
<1>6. Cardinality(Ready(v)) = Cardinality(Ready(w))
    <2> Ready(v) \in SUBSET DOMAIN v /\ Ready(w) \in SUBSET DOMAIN w
        OBVIOUS
    <2>1. \A i \in DOMAIN v : i \in Ready(v) <=> r[i] \in Ready(w)
        BY <1>1, <1>3, MovedInto
    <2> HIDE DEF Ready
    <2> QED BY <1>1, <2>1, AsMany DEF Alike
<1>7. \A names : Body(v, names) = Body(w, names)
    BY <1>2, <1>6
<1>8. /\ Deployments(v) = {Body(v, names) : names \in SortedNames(v, Short(v))}
      /\ Deployments(w) = {Body(w, names) : names \in SortedNames(w, Short(w))}
    BY Zenon DEF Deployments
<1> HIDE DEF Body
<1> QED BY Zenon, <1>5, <1>7, <1>8

(* An order of some items of v is an order of the same items of w.         *)
LEMMA RankedMoved ==
    ASSUME NEW items, NEW v \in Listing(items), NEW w, NEW r, Moved(v, w, r),
           NEW K \in SUBSET DOMAIN v, NEW L \in SUBSET DOMAIN w,
           \A i \in DOMAIN v : i \in K <=> r[i] \in L,
           NEW rank, NEW other, DOMAIN rank = K, DOMAIN other = L,
           \A i \in K, j \in L : v[i] = w[j] => rank[i] = other[j],
           NEW p \in Sorted(rank)
    PROVE  \E q \in Sorted(other) :
             /\ DOMAIN q = DOMAIN p
             /\ \A k \in DOMAIN p : p[k] \in K /\ q[k] \in L /\ w[q[k]] = v[p[k]]
<1> DEFINE g == [i \in K |-> r[i]]
           q == [k \in DOMAIN p |-> g[p[k]]]
<1>1. g \in Bijection(K, L)
    BY RestrictedMove DEF Moved
<1>2. \A i \in K : g[i] \in L /\ w[g[i]] = v[i]
    BY MovedInto
<1>3. IsFiniteSet(K)
    BY ListingIsFinite, FS_Subset
<1> HIDE DEF g
<1>4. q \in Sorted(other) /\ \A k \in DOMAIN p : p[k] \in K
    BY <1>1, <1>2, <1>3, SortedMoved
<1>5. DOMAIN q = DOMAIN p /\ \A k \in DOMAIN p : q[k] = g[p[k]]
    OBVIOUS
<1> HIDE DEF q
<1> QED BY <1>2, <1>4, <1>5

LEMMA RestartsMoved ==
    ASSUME NEW v, NEW w, Alike(Item("restarts"), v, w)
    PROVE  Restarts(v) \subseteq Restarts(w)
<1> DEFINE sums(l) == [i \in DOMAIN l |-> Restarted(l[i])]
           rank(l) == [i \in Offenders(l) |-> -Restarted(l[i])]
           Top(l, p) == [k \in Upto(p, TopRestarts) |->
                            [pod |-> l[p[k]].name, restarts |-> Restarted(l[p[k]])]]
           Body(l, p) == [total |-> Total(sums(l)), top |-> Top(l, p)]
<1>1. PICK r : Moved(v, w, r)
    BY DEF Alike
<1>2. Total(sums(v)) = Total(sums(w))
    <2>1. \A i \in DOMAIN v : Restarted(v[i]) \in Nat
        BY ListingIsFinite, RestartedIsNat DEF Alike
    <2>2. sums(v) \in [DOMAIN v -> Nat] /\ DOMAIN sums(w) = DOMAIN w
        BY <2>1
    <2>3. \A i \in DOMAIN v, j \in DOMAIN w : v[i] = w[j] => sums(v)[i] = sums(w)[j]
        OBVIOUS
    <2> HIDE DEF sums
    <2> QED BY <2>2, <2>3, SumMoved
<1>3. /\ Offenders(v) \in SUBSET DOMAIN v /\ Offenders(w) \in SUBSET DOMAIN w
      /\ \A i \in DOMAIN v : i \in Offenders(v) <=> r[i] \in Offenders(w)
    BY <1>1, MovedInto DEF Offenders
<1>4. /\ DOMAIN rank(v) = Offenders(v) /\ DOMAIN rank(w) = Offenders(w)
      /\ \A i \in Offenders(v), j \in Offenders(w) : v[i] = w[j] => rank(v)[i] = rank(w)[j]
    OBVIOUS
<1>5. /\ Restarts(v) = {Body(v, p) : p \in Sorted(rank(v))}
      /\ Restarts(w) = {Body(w, p) : p \in Sorted(rank(w))}
    BY Zenon DEF Restarts
<1> HIDE DEF rank, sums
<1>6. ASSUME NEW p \in Sorted(rank(v))
      PROVE  \E q \in Sorted(rank(w)) : Body(v, p) = Body(w, q)
    <2>1. PICK q \in Sorted(rank(w)) :
             /\ DOMAIN q = DOMAIN p
             /\ \A k \in DOMAIN p : w[q[k]] = v[p[k]]
        BY <1>1, <1>3, <1>4, RankedMoved DEF Alike
    <2>2. Upto(p, TopRestarts) = Upto(q, TopRestarts) /\ Upto(p, TopRestarts) \subseteq DOMAIN p
        BY <2>1 DEF Upto
    <2>3. Top(v, p) = Top(w, q)
        BY <2>1, <2>2
    <2> QED BY <1>2, <2>3
<1> HIDE DEF Body
<1> QED BY Zenon, <1>5, <1>6

LEMMA PodMetricsMoved ==
    ASSUME NEW v, NEW w, Alike(Item("pod-metrics"), v, w)
    PROVE  PodMetrics(v) \subseteq PodMetrics(w)
<1> DEFINE rank(l) == [i \in DOMAIN l |-> -CPU(l[i])]
           Top(l, p) == [k \in Upto(p, TopCPU) |->
                          [pod |-> l[p[k]].name, cpu |-> CPU(l[p[k]]), mem |-> Mem(l[p[k]])]]
           Body(l, p) == [top |-> Top(l, p)]
<1>1. PICK r : Moved(v, w, r)
    BY DEF Alike
<1>2. \A i \in DOMAIN v : i \in DOMAIN v <=> r[i] \in DOMAIN w
    BY <1>1, MovedInto
<1>3. /\ DOMAIN rank(v) = DOMAIN v /\ DOMAIN rank(w) = DOMAIN w
      /\ \A i \in DOMAIN v, j \in DOMAIN w : v[i] = w[j] => rank(v)[i] = rank(w)[j]
    OBVIOUS
<1>4. /\ PodMetrics(v) = {Body(v, p) : p \in Sorted(rank(v))}
      /\ PodMetrics(w) = {Body(w, p) : p \in Sorted(rank(w))}
    BY Zenon DEF PodMetrics
<1> HIDE DEF rank
<1>5. ASSUME NEW p \in Sorted(rank(v))
      PROVE  \E q \in Sorted(rank(w)) : Body(v, p) = Body(w, q)
    <2>1. PICK q \in Sorted(rank(w)) :
             /\ DOMAIN q = DOMAIN p
             /\ \A k \in DOMAIN p : w[q[k]] = v[p[k]]
        BY <1>1, <1>2, <1>3, RankedMoved DEF Alike
    <2>2. Upto(p, TopCPU) = Upto(q, TopCPU) /\ Upto(p, TopCPU) \subseteq DOMAIN p
        BY <2>1 DEF Upto
    <2>3. Top(v, p) = Top(w, q)
        BY <2>1, <2>2
    <2> QED BY <2>3
<1> HIDE DEF Body
<1> QED BY Zenon, <1>4, <1>5

LEMMA NodeMetricsMoved ==
    ASSUME NEW v, NEW w, Alike(Item("node-metrics"), v, w)
    PROVE  NodeMetrics(v) \subseteq NodeMetrics(w)
<1> DEFINE cpus(l) == [i \in DOMAIN l |-> quantityMilli(l[i].cpu)]
           mems(l) == [i \in DOMAIN l |-> quantityMiB(l[i].mem)]
           rank(l) == [i \in DOMAIN l |-> l[i].name]
           List(l, p) == [k \in DOMAIN p |->
                           [name |-> l[p[k]].name, cpu |-> quantityMilli(l[p[k]].cpu),
                            mem |-> quantityMiB(l[p[k]].mem)]]
           Body(l, p) == [nodes |-> List(l, p), totalCPU |-> Total(cpus(l)),
                          totalMem |-> Total(mems(l))]
<1>1. PICK r : Moved(v, w, r)
    BY DEF Alike
<1>2. \A i \in DOMAIN v : i \in DOMAIN v <=> r[i] \in DOMAIN w
    BY <1>1, MovedInto
<1>3. \A i \in DOMAIN v : quantityMilli(v[i].cpu) \in Nat /\ quantityMiB(v[i].mem) \in Nat
    <2> SUFFICES ASSUME NEW i \in DOMAIN v
                 PROVE  quantityMilli(v[i].cpu) \in Nat /\ quantityMiB(v[i].mem) \in Nat
        OBVIOUS
    <2>1. v[i] \in Item("node-metrics")
        BY ListingIsFinite DEF Alike
    <2>2. v[i].cpu \in Nat /\ v[i].mem \in Nat
        BY <2>1 DEF Item
    <2> QED BY <2>2 DEF quantityMilli, quantityMiB
<1>4. Total(cpus(v)) = Total(cpus(w))
    <2>1. cpus(v) \in [DOMAIN v -> Nat] /\ DOMAIN cpus(w) = DOMAIN w
        BY <1>3
    <2>2. \A i \in DOMAIN v, j \in DOMAIN w : v[i] = w[j] => cpus(v)[i] = cpus(w)[j]
        OBVIOUS
    <2> HIDE DEF cpus
    <2> QED BY <2>1, <2>2, SumMoved
<1>5. Total(mems(v)) = Total(mems(w))
    <2>1. mems(v) \in [DOMAIN v -> Nat] /\ DOMAIN mems(w) = DOMAIN w
        BY <1>3
    <2>2. \A i \in DOMAIN v, j \in DOMAIN w : v[i] = w[j] => mems(v)[i] = mems(w)[j]
        OBVIOUS
    <2> HIDE DEF mems
    <2> QED BY <2>1, <2>2, SumMoved
<1>6. /\ DOMAIN rank(v) = DOMAIN v /\ DOMAIN rank(w) = DOMAIN w
      /\ \A i \in DOMAIN v, j \in DOMAIN w : v[i] = w[j] => rank(v)[i] = rank(w)[j]
    OBVIOUS
<1>7. /\ NodeMetrics(v) = {Body(v, p) : p \in Sorted(rank(v))}
      /\ NodeMetrics(w) = {Body(w, p) : p \in Sorted(rank(w))}
    BY Zenon DEF NodeMetrics
<1> HIDE DEF rank, cpus, mems
<1>8. ASSUME NEW p \in Sorted(rank(v))
      PROVE  \E q \in Sorted(rank(w)) : Body(v, p) = Body(w, q)
    <2>1. PICK q \in Sorted(rank(w)) :
             /\ DOMAIN q = DOMAIN p
             /\ \A k \in DOMAIN p : w[q[k]] = v[p[k]]
        BY <1>1, <1>2, <1>6, RankedMoved DEF Alike
    <2>2. List(v, p) = List(w, q)
        BY <2>1
    <2> QED BY <1>4, <1>5, <2>2
<1> HIDE DEF Body
<1> QED BY Zenon, <1>7, <1>8

(* The pairs of an index and an index of what it leads to.                 *)
LEMMA PairsFinite ==
    ASSUME NEW D, IsFiniteSet(D), NEW F, \A x \in D : IsFiniteSet(F[x])
    PROVE  IsFiniteSet(UNION {{x} \X F[x] : x \in D})
<1> DEFINE Of == [x \in D |-> {x} \X F[x]]
           All == {{x} \X F[x] : x \in D}
<1>1. Of \in Surjection(D, All)
    BY Fun_IsSurj
<1>2. \A T \in All : IsFiniteSet(T)
    <2> SUFFICES ASSUME NEW x \in D PROVE IsFiniteSet({x} \X F[x])
        OBVIOUS
    <2>1. IsFiniteSet({x})
        BY FS_Singleton
    <2> QED BY <2>1, FS_Product
<1> HIDE DEF All, Of
<1>3. IsFiniteSet(All)
    BY <1>1, FS_Surjection
<1>4. IsFiniteSet(UNION All)
    BY <1>2, <1>3, FS_UNION
<1> QED BY <1>4 DEF All

OfType(l, t) == {i \in DOMAIN l : l[i].type = t}

LEMMA TypesMoved ==
    ASSUME NEW items, NEW v, NEW w, Alike(items, v, w)
    PROVE  ByType(v) = ByType(w)
<1>1. PICK r : Moved(v, w, r)
    BY DEF Alike
<1>2. ASSUME NEW t PROVE Cardinality(OfType(v, t)) = Cardinality(OfType(w, t))
    <2>1. \A i \in DOMAIN v : i \in OfType(v, t) <=> r[i] \in OfType(w, t)
        BY <1>1, MovedInto DEF OfType
    <2>2. OfType(v, t) \in SUBSET DOMAIN v /\ OfType(w, t) \in SUBSET DOMAIN w
        BY DEF OfType
    <2> QED BY <1>1, <2>1, <2>2, AsMany DEF Alike
<1>3. {v[i].type : i \in DOMAIN v} = {w[i].type : i \in DOMAIN w}
    BY <1>1, MovedInto, BijectionIs DEF Moved
<1>4. /\ ByType(v) = [t \in {v[i].type : i \in DOMAIN v} |-> Cardinality(OfType(v, t))]
      /\ ByType(w) = [t \in {w[i].type : i \in DOMAIN w} |-> Cardinality(OfType(w, t))]
    BY Zenon DEF ByType, OfType
<1> DEFINE T == {v[i].type : i \in DOMAIN v}
<1>5. T = {w[i].type : i \in DOMAIN w}
    BY <1>3
<1> HIDE DEF T
<1>6. [t \in T |-> Cardinality(OfType(v, t))] = [t \in T |-> Cardinality(OfType(w, t))]
    BY <1>2
<1> QED BY Zenon, <1>4, <1>5, <1>6 DEF T

LEMMA VIPsFinite ==
    ASSUME NEW v \in Listing(Item("services"))
    PROVE  IsFiniteSet(VIPs(v))
<1> DEFINE F == [i \in DOMAIN v |-> DOMAIN v[i].ingress]
           All == UNION {{i} \X F[i] : i \in DOMAIN v}
<1>1. \A i \in DOMAIN v : IsFiniteSet(F[i])
    <2> SUFFICES ASSUME NEW i \in DOMAIN v PROVE IsFiniteSet(DOMAIN v[i].ingress)
        OBVIOUS
    <2>1. v[i] \in Item("services")
        BY ListingIsFinite
    <2>2. v[i].ingress \in Seq(Nat)
        BY <2>1 DEF Item
    <2> QED BY <2>2, ListOf
<1>2. VIPs(v) \subseteq All
    BY DEF VIPs
<1> HIDE DEF F
<1>3. IsFiniteSet(All)
    BY <1>1, ListingIsFinite, PairsFinite
<1> QED BY <1>2, <1>3, FS_Subset

LEMMA ServicesMoved ==
    ASSUME NEW v, NEW w, Alike(Item("services"), v, w)
    PROVE  Services(v) \subseteq Services(w)
<1> DEFINE ip(l, u) == l[u[1]].ingress[u[2]]
           rank(l) == [u \in VIPs(l) |-> ip(l, u)]
           List(l, p) == [k \in DOMAIN p |-> [svc |-> l[p[k][1]].name, ip |-> ip(l, p[k])]]
           Body(l, p) == [total |-> Len(l), byType |-> ByType(l), loadbalancers |-> List(l, p)]
<1>1. PICK r : Moved(v, w, r)
    BY DEF Alike
<1>2. Len(v) = Len(w) /\ ByType(v) = ByType(w)
    BY <1>1, AsLong, TypesMoved DEF Alike
<1>3. /\ \A u : u \in VIPs(v) <=>
               /\ u = <<u[1], u[2]>> /\ u[1] \in DOMAIN v /\ u[2] \in DOMAIN v[u[1]].ingress
               /\ v[u[1]].type = "LoadBalancer" /\ v[u[1]].ingress[u[2]] # Nil
      /\ \A u : u \in VIPs(w) <=>
               /\ u = <<u[1], u[2]>> /\ u[1] \in DOMAIN w /\ u[2] \in DOMAIN w[u[1]].ingress
               /\ w[u[1]].type = "LoadBalancer" /\ w[u[1]].ingress[u[2]] # Nil
    BY DEF VIPs
<1>4. /\ r \in [DOMAIN v -> DOMAIN w]
      /\ \A x, y \in DOMAIN v : r[x] = r[y] => x = y
      /\ \A t \in DOMAIN w : \E x \in DOMAIN v : r[x] = t
      /\ \A i \in DOMAIN v : w[r[i]] = v[i]
    BY <1>1, BijectionIs DEF Moved
<1> DEFINE s == [u \in VIPs(v) |-> <<r[u[1]], u[2]>>]
<1>5. s \in Bijection(VIPs(v), VIPs(w))
    <2>1. s \in [VIPs(v) -> VIPs(w)]
        BY <1>3, <1>4
    <2>2. \A x, y \in VIPs(v) : s[x] = s[y] => x = y
        BY <1>3, <1>4
    <2>3. ASSUME NEW t \in VIPs(w) PROVE \E x \in VIPs(v) : s[x] = t
        <3>1. PICK i \in DOMAIN v : r[i] = t[1]
            BY <1>3, <1>4
        <3>2. <<i, t[2]>> \in VIPs(v)
            BY <1>3, <1>4, <3>1
        <3> QED BY <1>3, <3>1, <3>2
    <2> HIDE DEF s
    <2> QED BY <2>1, <2>2, <2>3, BijectionIs
<1>6. \A u \in VIPs(v) : w[s[u][1]] = v[u[1]] /\ s[u][2] = u[2]
    BY <1>3, <1>4
<1>7. DOMAIN s = VIPs(v)
    OBVIOUS
<1> HIDE DEF s
<1>8. /\ DOMAIN rank(v) = VIPs(v) /\ DOMAIN rank(w) = VIPs(w)
      /\ \A u \in VIPs(v) : rank(w)[s[u]] = rank(v)[u]
    BY <1>5, <1>6, BijectionIs
<1>9. /\ Services(v) = {Body(v, p) : p \in Sorted(rank(v))}
      /\ Services(w) = {Body(w, p) : p \in Sorted(rank(w))}
    BY Zenon DEF Services
<1> HIDE DEF rank
<1>10. ASSUME NEW p \in Sorted(rank(v))
       PROVE  \E q \in Sorted(rank(w)) : Body(v, p) = Body(w, q)
    <2> DEFINE q == [k \in DOMAIN p |-> s[p[k]]]
    <2>1. q \in Sorted(rank(w)) /\ \A k \in DOMAIN p : p[k] \in VIPs(v)
        BY <1>5, <1>8, SortedMoved, VIPsFinite DEF Alike
    <2>2. DOMAIN q = DOMAIN p /\ \A k \in DOMAIN p : q[k] = s[p[k]]
        OBVIOUS
    <2> HIDE DEF q
    <2>3. List(v, p) = List(w, q)
        BY <1>6, <2>1, <2>2
    <2> QED BY <1>2, <2>1, <2>3
<1> HIDE DEF Body
<1> QED BY Zenon, <1>9, <1>10

LEMMA PeersAre ==
    ASSUME NEW l
    PROVE  \A x : x \in Peers(l) <=>
             /\ x = <<<<x[1][1], x[1][2]>>, x[2]>>
             /\ x[1][1] \in DOMAIN l
             /\ x[1][2] \in DOMAIN l[x[1][1]].instances
             /\ x[2] \in DOMAIN l[x[1][1]].instances[x[1][2]]
BY DEF Peers

LEMMA PeersMoved ==
    ASSUME NEW v, NEW w, NEW r, Moved(v, w, r)
    PROVE  [x \in Peers(v) |-> <<<<r[x[1][1]], x[1][2]>>, x[2]>>]
             \in Bijection(Peers(v), Peers(w))
<1> DEFINE s == [x \in Peers(v) |-> <<<<r[x[1][1]], x[1][2]>>, x[2]>>]
<1>1. /\ r \in [DOMAIN v -> DOMAIN w]
      /\ \A x, y \in DOMAIN v : r[x] = r[y] => x = y
      /\ \A t \in DOMAIN w : \E x \in DOMAIN v : r[x] = t
      /\ \A i \in DOMAIN v : w[r[i]] = v[i]
    BY BijectionIs DEF Moved
<1>2. \A x \in Peers(v) : s[x] \in Peers(w)
    BY <1>1, PeersAre
<1>3. s \in [Peers(v) -> Peers(w)]
    BY <1>2
<1>4. ASSUME NEW x \in Peers(v), NEW y \in Peers(v), s[x] = s[y]
      PROVE  x = y
    <2>1. r[x[1][1]] = r[y[1][1]] /\ x[1][2] = y[1][2] /\ x[2] = y[2]
        BY <1>4
    <2>2. x[1][1] = y[1][1]
        BY <1>1, <2>1, PeersAre
    <2>3. x = <<<<x[1][1], x[1][2]>>, x[2]>> /\ y = <<<<y[1][1], y[1][2]>>, y[2]>>
        BY PeersAre
    <2> QED BY <2>1, <2>2, <2>3
<1>5. ASSUME NEW t \in Peers(w) PROVE \E x \in Peers(v) : s[x] = t
    <2>1. /\ t = <<<<t[1][1], t[1][2]>>, t[2]>> /\ t[1][1] \in DOMAIN w
          /\ t[1][2] \in DOMAIN w[t[1][1]].instances
          /\ t[2] \in DOMAIN w[t[1][1]].instances[t[1][2]]
        BY PeersAre
    <2>2. PICK i \in DOMAIN v : r[i] = t[1][1]
        BY <1>1, <2>1
    <2> DEFINE x == <<<<i, t[1][2]>>, t[2]>>
    <2>3. x \in Peers(v)
        BY <1>1, <2>1, <2>2, PeersAre
    <2>4. s[x] = t
        BY <2>1, <2>2, <2>3
    <2> QED BY <2>3, <2>4
<1> HIDE DEF s
<1>6. s \in Bijection(Peers(v), Peers(w))
    BY <1>3, <1>4, <1>5, BijectionIs
<1> QED BY <1>6 DEF s

LEMMA BGPMoved ==
    ASSUME NEW v, NEW w, Alike(Item("cilium-bgp"), v, w)
    PROVE  CiliumBGP(v) \subseteq CiliumBGP(w)
<1> DEFINE peer(l, x) == l[x[1][1]].instances[x[1][2]][x[2]]
           up(l) == {x \in Peers(l) : peer(l, x).state = "established"}
           down(l) == Peers(l) \ up(l)
           rank(l) == [x \in down(l) |-> 10 * l[x[1][1]].name + peer(l, x).addr]
           List(l, p) == [k \in DOMAIN p |->
                <<l[p[k][1][1]].name, peer(l, p[k]).addr, peer(l, p[k]).state>>]
           Body(l, p) == [peers |-> Cardinality(Peers(l)), established |-> Cardinality(up(l)),
                          down |-> List(l, p)]
<1>1. PICK r : Moved(v, w, r)
    BY DEF Alike
<1> DEFINE s == [x \in Peers(v) |-> <<<<r[x[1][1]], x[1][2]>>, x[2]>>]
<1>2. s \in Bijection(Peers(v), Peers(w))
    BY <1>1, PeersMoved
<1>3. IsFiniteSet(Peers(v))
    BY PeersFinite DEF Alike
<1>4. \A x \in Peers(v) : w[s[x][1][1]] = v[x[1][1]] /\ peer(w, s[x]) = peer(v, x)
    BY <1>1, MovedInto, PeersAre
<1>5. DOMAIN s = Peers(v)
    OBVIOUS
<1> HIDE DEF s
<1>6. \A x \in Peers(v) : s[x] \in Peers(w)
    BY <1>2, BijectionIs
<1>7. /\ up(v) \in SUBSET Peers(v) /\ up(w) \in SUBSET Peers(w)
      /\ down(v) \in SUBSET Peers(v) /\ down(w) \in SUBSET Peers(w)
      /\ \A x \in Peers(v) : x \in up(v) <=> s[x] \in up(w)
      /\ \A x \in Peers(v) : x \in down(v) <=> s[x] \in down(w)
    BY <1>4, <1>6
<1> DEFINE su == [x \in up(v) |-> s[x]]
           sd == [x \in down(v) |-> s[x]]
<1>8. /\ CiliumBGP(v) = {Body(v, p) : p \in Sorted(rank(v))}
      /\ CiliumBGP(w) = {Body(w, p) : p \in Sorted(rank(w))}
    BY Zenon DEF CiliumBGP
<1>9. DOMAIN rank(v) = down(v) /\ DOMAIN rank(w) = down(w)
    OBVIOUS
<1>10. \A x \in down(v) : rank(w)[s[x]] = rank(v)[x]
    <2> SUFFICES ASSUME NEW x \in down(v) PROVE rank(w)[s[x]] = rank(v)[x]
        OBVIOUS
    <2>1. x \in Peers(v) /\ s[x] \in down(w)
        BY <1>7
    <2> QED BY <1>4, <2>1
<1> HIDE DEF rank, up, down
<1>11. su \in Bijection(up(v), up(w)) /\ sd \in Bijection(down(v), down(w))
    BY <1>2, <1>7, RestrictedMove
<1>12. \A x \in down(v) : sd[x] = s[x] /\ x \in Peers(v)
    BY <1>7
<1> HIDE DEF su, sd
<1>13. IsFiniteSet(up(v)) /\ IsFiniteSet(down(v))
    BY <1>3, <1>7, FS_Subset
<1>14. Cardinality(Peers(v)) = Cardinality(Peers(w)) /\ Cardinality(up(v)) = Cardinality(up(w))
    BY <1>2, <1>3, <1>11, <1>13, BijectionSize
<1>15. ASSUME NEW p \in Sorted(rank(v))
       PROVE  \E q \in Sorted(rank(w)) : Body(v, p) = Body(w, q)
    <2> DEFINE q == [k \in DOMAIN p |-> sd[p[k]]]
    <2>1. q \in Sorted(rank(w)) /\ \A k \in DOMAIN p : p[k] \in down(v)
        BY <1>9, <1>10, <1>11, <1>12, <1>13, SortedMoved
    <2>2. DOMAIN q = DOMAIN p /\ \A k \in DOMAIN p : q[k] = s[p[k]] /\ p[k] \in Peers(v)
        BY <1>12, <2>1
    <2> HIDE DEF q
    <2>3. \A k \in DOMAIN p : /\ w[q[k][1][1]] = v[p[k][1][1]]
                             /\ peer(w, q[k]) = peer(v, p[k])
        BY <1>4, <2>2
    <2> HIDE DEF peer
    <2>4. List(v, p) = List(w, q)
        BY <2>2, <2>3
    <2> QED BY <1>14, <2>1, <2>4
<1> HIDE DEF Body
<1> QED BY Zenon, <1>8, <1>15

LEMMA HasLargest ==
    ASSUME NEW N \in Nat, NEW S \in SUBSET 1..N, S # {}
    PROVE  \E x \in S : \A y \in S : y <= x
<1> DEFINE R == OpToRel(<, Nat)
           T == {N - x : x \in S}
<1>1. T \subseteq Nat /\ T # {}
    <2>1. PICK x \in S : TRUE
        OBVIOUS
    <2>2. N - x \in T
        OBVIOUS
    <2>3. T \subseteq Nat
        OBVIOUS
    <2> QED BY <2>2, <2>3
<1>2. \A a, b \in Nat : <<a, b>> \in R <=> a < b
    BY DEF OpToRel
<1>3. IsWellFoundedOn(R, Nat)
    BY NatLessThanWellFounded
<1> HIDE DEF R, T
<1>4. PICK t \in T : \A u \in T : ~ (<<u, t>> \in R)
    BY <1>1, <1>3, WFMin
<1>5. PICK x \in S : t = N - x
    BY DEF T
<1>6. \A y \in S : N - y \in T
    BY DEF T
<1>7. \A y \in S : ~(N - y < N - x)
    BY <1>1, <1>2, <1>4, <1>5, <1>6
<1> QED BY <1>7

PodItem == [name : Nat, app : BOOLEAN, images : Seq(Seq(STRING))]

LEMMA ContainersAre ==
    ASSUME NEW l
    PROVE  \A c : c \in Containers(l) <=>
             c = <<c[1], c[2]>> /\ c[1] \in DOMAIN l /\ c[2] \in DOMAIN l[c[1]].images
BY DEF Containers

(* Of some containers, one comes last in the loop of aspectVersions.       *)
LEMMA HasLast ==
    ASSUME NEW l \in Listing(PodItem), NEW W \in SUBSET Containers(l), W # {}
    PROVE  \E c \in W : \A d \in W : ~Before2(c, d)
<1> DEFINE A == {c[1] : c \in W}
<1>1. Len(l) \in Nat /\ A \in SUBSET 1..Len(l) /\ A # {}
    BY ListingIsFinite, ContainersAre
<1>2. PICK a \in A : \A x \in A : x <= a
    BY <1>1, HasLargest
<1> DEFINE V == {c \in W : c[1] = a}
           B == {c[2] : c \in V}
<1>3. DOMAIN l[a].images = 1..Len(l[a].images) /\ Len(l[a].images) \in Nat
    <2>1. l[a] \in PodItem
        BY <1>1, ListingIsFinite
    <2>2. l[a].images \in Seq(Seq(STRING))
        BY <2>1 DEF PodItem
    <2> QED BY <2>2
<1>4. B \in SUBSET 1..Len(l[a].images) /\ B # {}
    BY <1>3, ContainersAre
<1>5. PICK b \in B : \A x \in B : x <= b
    BY <1>3, <1>4, HasLargest
<1>6. PICK c \in V : c[2] = b
    OBVIOUS
<1>7. c \in W /\ c[1] = a /\ \A d \in W : d[1] \in A /\ (d[1] = a => d[2] \in B)
    BY <1>6
<1> HIDE DEF A, B, V
<1>8. (\A x \in A : x \in Nat) /\ (\A x \in B : x \in Nat)
    <2>1. \A x \in A : x \in 1..Len(l)
        BY <1>1
    <2>2. \A x \in B : x \in 1..Len(l[a].images)
        BY <1>4
    <2> QED BY <1>1, <1>3, <2>1, <2>2
<1>9. ASSUME NEW d \in W
      PROVE  ~Before2(c, d)
    <2>1. d[1] \in A /\ d[1] <= a /\ c[1] = a /\ d[1] \in Nat /\ a \in Nat
        BY <1>2, <1>7, <1>8
    <2>2. CASE d[1] = a
        <3>1. d[2] \in B
            BY <1>7, <2>2
        <3>2. d[2] <= b /\ d[2] \in Nat /\ b \in Nat
            BY <1>5, <1>8, <3>1
        <3> QED BY <1>6, <2>1, <3>2 DEF Before2
    <2>3. CASE d[1] # a
        BY <2>1, <2>3 DEF Before2
    <2> QED BY <2>2, <2>3
<1> QED BY <1>7, <1>9

Keys(l, table) == {row.key : row \in UNION {RowsOf(l, c, table) : c \in Containers(l)}}

HasRow(l, table, key, tag) ==
    \E c \in Containers(l) : \E row \in RowsOf(l, c, table) : row.key = key /\ tag = row.tag

(* The value that a table ends with for a key comes from a row of it.      *)
LEMMA AssignedFrom ==
    ASSUME NEW l \in Listing(PodItem), NEW table
    PROVE  /\ Assigned(l, table) = [key \in Keys(l, table) |-> Assigned(l, table)[key]]
           /\ \A key \in Keys(l, table) : HasRow(l, table, key, Assigned(l, table)[key])
<1> DEFINE with(key) == {c \in Containers(l) : \E row \in RowsOf(l, c, table) : row.key = key}
           last(key) == CHOOSE c \in with(key) : \A d \in with(key) : ~Before2(c, d)
           chosen(key) == CHOOSE row \in RowsOf(l, last(key), table) : row.key = key
<1>1. Assigned(l, table) = [key \in Keys(l, table) |-> chosen(key).tag]
    BY Zenon DEF Assigned, Keys
<1>2. ASSUME NEW key \in Keys(l, table)
      PROVE  HasRow(l, table, key, chosen(key).tag)
    <2>1. with(key) # {} /\ with(key) \subseteq Containers(l)
        BY DEF Keys
    <2>2. \E c \in with(key) : \A d \in with(key) : ~Before2(c, d)
        <3> HIDE DEF with
        <3> QED BY <2>1, HasLast
    <2>3. last(key) \in with(key)
        BY Zenon, <2>2
    <2>4. last(key) \in Containers(l) /\ \E row \in RowsOf(l, last(key), table) : row.key = key
        BY <2>3
    <2> HIDE DEF last
    <2>5. chosen(key) \in RowsOf(l, last(key), table) /\ chosen(key).key = key
        BY Zenon, <2>4
    <2> HIDE DEF chosen
    <2> QED BY <2>4, <2>5 DEF HasRow
<1> HIDE DEF chosen
<1>3. \A key \in Keys(l, table) : Assigned(l, table)[key] = chosen(key).tag
    BY <1>1
<1>4. Assigned(l, table) = [key \in Keys(l, table) |-> Assigned(l, table)[key]]
    BY <1>1
<1>5. \A key \in Keys(l, table) : HasRow(l, table, key, Assigned(l, table)[key])
    BY <1>2, <1>3
<1> QED BY <1>4, <1>5

LEMMA RowsMoved ==
    ASSUME NEW v, NEW w, Alike(PodItem, v, w), NEW c \in Containers(v)
    PROVE  \E d \in Containers(w) : \A table : RowsOf(w, d, table) = RowsOf(v, c, table)
<1>1. PICK r : Moved(v, w, r)
    BY DEF Alike
<1> DEFINE d == <<r[c[1]], c[2]>>
<1>2. /\ c = <<c[1], c[2]>> /\ c[1] \in DOMAIN v /\ c[2] \in DOMAIN v[c[1]].images
      /\ r[c[1]] \in DOMAIN w /\ w[r[c[1]]] = v[c[1]]
    BY <1>1, ContainersAre, MovedInto
<1>3. d[1] = r[c[1]] /\ d[2] = c[2] /\ d \in Containers(w)
    BY <1>2, ContainersAre
<1>4. \A table : RowsOf(w, d, table) = RowsOf(v, c, table)
    BY <1>2, <1>3 DEF RowsOf
<1> QED BY <1>3, <1>4

LEMMA AssignedMoved ==
    ASSUME NEW v, NEW w, Alike(PodItem, v, w), Alike(PodItem, w, v), OneTagPerKey(v),
           NEW table \in {"platform", "apps"}
    PROVE  Assigned(v, table) = Assigned(w, table)
<1>1. /\ Assigned(v, table) = [key \in Keys(v, table) |-> Assigned(v, table)[key]]
      /\ \A key \in Keys(v, table) : HasRow(v, table, key, Assigned(v, table)[key])
    BY AssignedFrom DEF Alike
<1>2. /\ Assigned(w, table) = [key \in Keys(w, table) |-> Assigned(w, table)[key]]
      /\ \A key \in Keys(w, table) : HasRow(w, table, key, Assigned(w, table)[key])
    BY AssignedFrom DEF Alike
<1>3. /\ \A c \in Containers(v) : \E d \in Containers(w) :
            RowsOf(w, d, table) = RowsOf(v, c, table)
      /\ \A d \in Containers(w) : \E c \in Containers(v) :
            RowsOf(v, c, table) = RowsOf(w, d, table)
    BY RowsMoved
<1>4. Keys(v, table) = Keys(w, table)
    BY <1>3 DEF Keys
<1>5. \A key, tag : HasRow(w, table, key, tag) => HasRow(v, table, key, tag)
    BY <1>3 DEF HasRow
<1>6. \A key, s, t : HasRow(v, table, key, s) /\ HasRow(v, table, key, t) => s = t
    BY DEF OneTagPerKey, HasRow
<1>7. \A key \in Keys(v, table) : Assigned(v, table)[key] = Assigned(w, table)[key]
    BY <1>1, <1>2, <1>4, <1>5, <1>6
<1> QED BY <1>1, <1>2, <1>4, <1>7

LEMMA VersionsMoved ==
    ASSUME NEW items, NEW nl, NEW nm, Alike(items, nl, nm),
           NEW pl, NEW pm, Alike(PodItem, pl, pm), Alike(PodItem, pm, pl), OneTagPerKey(pl),
           NEW answered
    PROVE  Versions(answered, nl, pl) = Versions(answered, nm, pm)
<1> DEFINE Info(l) == IF l = <<>> THEN <<>>
                      ELSE [f \in InfoFields |-> {l[i].info[f] : i \in DOMAIN l}]
<1>1. PICK r : Moved(nl, nm, r)
    BY DEF Alike
<1>2. nl = <<>> <=> nm = <<>>
    <2>1. Len(nl) = Len(nm) /\ nl \in Seq(items) /\ nm \in Seq(items)
        BY <1>1, AsLong DEF Alike, Listing
    <2> QED BY <2>1
<1>3. ASSUME NEW f
      PROVE  {nl[i].info[f] : i \in DOMAIN nl} = {nm[i].info[f] : i \in DOMAIN nm}
    BY <1>1, MovedInto, BijectionIs DEF Moved
<1>4. Info(nl) = Info(nm)
    BY <1>2, <1>3
<1>5. /\ Assigned(pl, "platform") = Assigned(pm, "platform")
      /\ Assigned(pl, "apps") = Assigned(pm, "apps")
    BY AssignedMoved
<1>6. \A l, m : Versions(answered, l, m) =
        {[kubernetes |-> answered, nodes |-> Info(l),
          platform |-> Assigned(m, "platform"), apps |-> Assigned(m, "apps")]}
    BY Zenon DEF Versions
<1> HIDE DEF Info
<1> QED BY <1>4, <1>5, <1>6

LEMMA SummaryMoved ==
    ASSUME NEW a \in Aspects \ {"versions", "cilium-policies", "cilium-lb-pools"},
           NEW v \in Listing(Item(a)), NEW w \in Arrangements(v), NEW server
    PROVE  Summaries(a, v, server) = Summaries(a, w, server)
<1> DEFINE items == Item(a)
<1>1. Alike(items, v, w) /\ Alike(items, w, v)
    BY ArrangedAlike
<1> HIDE DEF items
<1>2. CASE a \in {"cilium-endpoints", "cilium-identities"}
    <2>1. Len(v) = Len(w)
        BY <1>1, AsLong DEF Alike
    <2> QED BY <1>2, <2>1 DEF Summaries, Counted
<1>3. CASE a = "nodes"
    <2>1. Nodes(v) \subseteq Nodes(w) /\ Nodes(w) \subseteq Nodes(v)
        BY <1>1, NodesMoved
    <2>2. Nodes(v) = Nodes(w)
        BY <2>1
    <2>3. Summaries(a, v, server) = Nodes(v) /\ Summaries(a, w, server) = Nodes(w)
        BY <1>3 DEF Summaries
    <2> QED BY <2>2, <2>3
<1>4. CASE a = "pods"
    <2>1. Pods(v) \subseteq Pods(w) /\ Pods(w) \subseteq Pods(v)
        BY <1>1, PodsMoved
    <2>2. Pods(v) = Pods(w)
        BY <2>1
    <2>3. Summaries(a, v, server) = Pods(v) /\ Summaries(a, w, server) = Pods(w)
        BY <1>4 DEF Summaries
    <2> QED BY <2>2, <2>3
<1>5. CASE a = "namespaces"
    <2>1. Namespaces(v) \subseteq Namespaces(w) /\ Namespaces(w) \subseteq Namespaces(v)
        BY <1>1, NamespacesMoved
    <2>2. Namespaces(v) = Namespaces(w)
        BY <2>1
    <2>3. Summaries(a, v, server) = Namespaces(v) /\ Summaries(a, w, server) = Namespaces(w)
        BY <1>5 DEF Summaries
    <2> QED BY <2>2, <2>3
<1>6. CASE a = "restarts"
    <2>1. Restarts(v) \subseteq Restarts(w) /\ Restarts(w) \subseteq Restarts(v)
        BY <1>6, <1>1, RestartsMoved DEF items
    <2>2. Restarts(v) = Restarts(w)
        BY <2>1
    <2>3. Summaries(a, v, server) = Restarts(v) /\ Summaries(a, w, server) = Restarts(w)
        BY <1>6 DEF Summaries
    <2> QED BY <2>2, <2>3
<1>7. CASE a = "capacity"
    <2>1. Capacity(v) \subseteq Capacity(w) /\ Capacity(w) \subseteq Capacity(v)
        BY <1>7, <1>1, CapacityMoved DEF items
    <2>2. Capacity(v) = Capacity(w)
        BY <2>1
    <2>3. Summaries(a, v, server) = Capacity(v) /\ Summaries(a, w, server) = Capacity(w)
        BY <1>7 DEF Summaries
    <2> QED BY <2>2, <2>3
<1>8. CASE a = "deployments"
    <2>1. Deployments(v) \subseteq Deployments(w) /\ Deployments(w) \subseteq Deployments(v)
        BY <1>1, DeploymentsMoved
    <2>2. Deployments(v) = Deployments(w)
        BY <2>1
    <2>3. Summaries(a, v, server) = Deployments(v) /\ Summaries(a, w, server) = Deployments(w)
        BY <1>8 DEF Summaries
    <2> QED BY <2>2, <2>3
<1>9. CASE a = "services"
    <2>1. Services(v) \subseteq Services(w) /\ Services(w) \subseteq Services(v)
        BY <1>9, <1>1, ServicesMoved DEF items
    <2>2. Services(v) = Services(w)
        BY <2>1
    <2>3. Summaries(a, v, server) = Services(v) /\ Summaries(a, w, server) = Services(w)
        BY <1>9 DEF Summaries
    <2> QED BY <2>2, <2>3
<1>10. CASE a = "pvcs"
    <2>1. PVCs(v) \subseteq PVCs(w) /\ PVCs(w) \subseteq PVCs(v)
        BY <1>10, <1>1, PVCsMoved DEF items
    <2>2. PVCs(v) = PVCs(w)
        BY <2>1
    <2>3. Summaries(a, v, server) = PVCs(v) /\ Summaries(a, w, server) = PVCs(w)
        BY <1>10 DEF Summaries
    <2> QED BY <2>2, <2>3
<1>11. CASE a = "cilium-bgp"
    <2>1. CiliumBGP(v) \subseteq CiliumBGP(w) /\ CiliumBGP(w) \subseteq CiliumBGP(v)
        BY <1>11, <1>1, BGPMoved DEF items
    <2>2. CiliumBGP(v) = CiliumBGP(w)
        BY <2>1
    <2>3. Summaries(a, v, server) = CiliumBGP(v) /\ Summaries(a, w, server) = CiliumBGP(w)
        BY <1>11 DEF Summaries
    <2> QED BY <2>2, <2>3
<1>12. CASE a = "cilium-nodes"
    <2>1. Namespaces(v) \subseteq Namespaces(w) /\ Namespaces(w) \subseteq Namespaces(v)
        BY <1>1, NamespacesMoved
    <2>2. Namespaces(v) = Namespaces(w)
        BY <2>1
    <2>3. Summaries(a, v, server) = Namespaces(v) /\ Summaries(a, w, server) = Namespaces(w)
        BY <1>12 DEF Summaries, CiliumNodes
    <2> QED BY <2>2, <2>3
<1>13. CASE a = "node-metrics"
    <2>1. NodeMetrics(v) \subseteq NodeMetrics(w) /\ NodeMetrics(w) \subseteq NodeMetrics(v)
        BY <1>13, <1>1, NodeMetricsMoved DEF items
    <2>2. NodeMetrics(v) = NodeMetrics(w)
        BY <2>1
    <2>3. Summaries(a, v, server) = NodeMetrics(v) /\ Summaries(a, w, server) = NodeMetrics(w)
        BY <1>13 DEF Summaries
    <2> QED BY <2>2, <2>3
<1>14. CASE a = "pod-metrics"
    <2>1. PodMetrics(v) \subseteq PodMetrics(w) /\ PodMetrics(w) \subseteq PodMetrics(v)
        BY <1>14, <1>1, PodMetricsMoved DEF items
    <2>2. PodMetrics(v) = PodMetrics(w)
        BY <2>1
    <2>3. Summaries(a, v, server) = PodMetrics(v) /\ Summaries(a, w, server) = PodMetrics(w)
        BY <1>14 DEF Summaries
    <2> QED BY <2>2, <2>3
<1> QED BY <1>2, <1>3, <1>4, <1>5, <1>6, <1>7, <1>8, <1>9, <1>10, <1>11, <1>12, <1>13, <1>14 DEF Aspects

(***************************************************************************)
(* Where no two ranks are equal, a sort has one result.                    *)
(***************************************************************************)
LEMMA HasSmallest ==
    ASSUME NEW N \in Nat, NEW S \in SUBSET 1..N, S # {}
    PROVE  \E x \in S : \A y \in S : x <= y
<1> DEFINE T == {x \in 1..N : N + 1 - x \in S}
<1>1. \A y \in S : y \in 1..N /\ N + 1 - y \in T /\ N + 1 - (N + 1 - y) = y
    OBVIOUS
<1>2. T \in SUBSET 1..N /\ T # {} /\ \A x \in T : N + 1 - x \in S
    BY <1>1
<1> HIDE DEF T
<1>3. PICK t \in T : \A u \in T : u <= t
    BY <1>2, HasLargest
<1>4. t \in 1..N /\ N + 1 - t \in S
    BY <1>2
<1>5. \A y \in S : N + 1 - t <= y
    BY <1>1, <1>3, <1>4
<1> QED BY <1>4, <1>5

LEMMA OneOrder ==
    ASSUME NEW D, IsFiniteSet(D), NEW rank, DOMAIN rank = D, \A x \in D : rank[x] \in Int,
           NoTie(rank), NEW p \in Sorted(rank), NEW q \in Sorted(rank)
    PROVE  p = q
<1> DEFINE n == Cardinality(D)
           Differ == {k \in 1..n : p[k] # q[k]}
<1>1. /\ n \in Nat /\ p \in [1..n -> D]
      /\ \A j, k \in 1..n : p[j] = p[k] => j = k
      /\ \A x \in D : \E k \in 1..n : p[k] = x
      /\ \A j, k \in 1..n : j < k => rank[p[j]] <= rank[p[k]]
    BY SortedHasAll
<1>2. /\ q \in [1..n -> D]
      /\ \A j, k \in 1..n : q[j] = q[k] => j = k
      /\ \A x \in D : \E k \in 1..n : q[k] = x
      /\ \A j, k \in 1..n : j < k => rank[q[j]] <= rank[q[k]]
    BY SortedHasAll
<1> HIDE DEF n
<1>3. CASE Differ = {}
    <2>1. \A k \in 1..n : p[k] = q[k]
        BY <1>3
    <2> HIDE DEF Differ
    <2> QED BY <1>1, <1>2, <2>1
<1>4. ASSUME Differ # {} PROVE FALSE
    <2>1. PICK j \in Differ : \A k \in Differ : j <= k
        BY <1>1, <1>4, HasSmallest
    <2>2. j \in 1..n /\ p[j] # q[j] /\ p[j] \in D /\ q[j] \in D
        BY <1>1, <1>2, <2>1
    <2>3. PICK k \in 1..n : q[k] = p[j]
        BY <1>2, <2>2
    <2>4. PICK i \in 1..n : p[i] = q[j]
        BY <1>1, <2>2
    <2>5. j < k
        <3>1. CASE k < j
            <4>1. k \notin Differ
                BY <1>1, <2>1, <2>2, <3>1
            <4>2. p[k] = p[j]
                BY <2>3, <4>1
            <4> QED BY <1>1, <2>2, <3>1, <4>2
        <3> QED BY <1>1, <2>2, <2>3, <3>1
    <2>6. j < i
        <3>1. CASE i < j
            <4>1. i \notin Differ
                BY <1>1, <2>1, <2>2, <3>1
            <4>2. q[i] = q[j]
                BY <2>4, <4>1
            <4> QED BY <1>2, <2>2, <3>1, <4>2
        <3> QED BY <1>1, <2>2, <2>4, <3>1
    <2>7. rank[q[j]] <= rank[p[j]] /\ rank[p[j]] <= rank[q[j]]
        BY <1>1, <1>2, <2>2, <2>3, <2>4, <2>5, <2>6
    <2>8. rank[q[j]] \in Int /\ rank[p[j]] \in Int
        BY <2>2
    <2>9. rank[q[j]] = rank[p[j]]
        BY <2>7, <2>8
    <2> QED BY <2>2, <2>9 DEF NoTie
<1> QED BY <1>3, <1>4

(* Names are different from each other in a listing.                       *)
LEMMA NamesOnce ==
    ASSUME NEW items, NEW v \in Listing(items), \A i \in DOMAIN v : v[i].name \in Nat,
           NEW K \in SUBSET DOMAIN v, NEW names \in SortedNames(v, K),
           NEW others \in SortedNames(v, K)
    PROVE  names = others
<1> DEFINE rank == [i \in K |-> v[i].name]
           List(p) == [k \in DOMAIN p |-> v[p[k]].name]
<1>1. IsFiniteSet(K)
    BY ListingIsFinite, FS_Subset
<1>2. DOMAIN rank = K /\ NoTie(rank) /\ \A i \in K : rank[i] \in Int
    BY ListingIsFinite DEF NoTie
<1>3. SortedNames(v, K) = {List(p) : p \in Sorted(rank)}
    BY Zenon DEF SortedNames
<1> HIDE DEF rank
<1>4. \A p, q \in Sorted(rank) : p = q
    BY <1>1, <1>2, OneOrder
<1> HIDE DEF List
<1> QED BY Zenon, <1>3, <1>4

LEMMA NodesOnce ==
    ASSUME NEW items, NEW v \in Listing(items), \A i \in DOMAIN v : v[i].name \in Nat,
           NEW b \in Nodes(v), NEW c \in Nodes(v)
    PROVE  b = c
<1> DEFINE ready == {i \in DOMAIN v : <<"Ready", "True">> \in v[i].conditions}
           Body(names) == [total |-> Len(v), ready |-> Cardinality(ready), names |-> names]
<1>1. Nodes(v) = {Body(names) : names \in SortedNames(v, DOMAIN v)}
    BY Zenon DEF Nodes
<1>2. \A n, o \in SortedNames(v, DOMAIN v) : n = o
    BY NamesOnce
<1> HIDE DEF Body
<1> QED BY Zenon, <1>1, <1>2

LEMMA NamespacesOnce ==
    ASSUME NEW items, NEW v \in Listing(items), \A i \in DOMAIN v : v[i].name \in Nat,
           NEW b \in Namespaces(v), NEW c \in Namespaces(v)
    PROVE  b = c
<1> DEFINE Body(names) == [count |-> Len(v), names |-> names]
<1>1. Namespaces(v) = {Body(names) : names \in SortedNames(v, DOMAIN v)}
    BY Zenon DEF Namespaces
<1>2. \A n, o \in SortedNames(v, DOMAIN v) : n = o
    BY NamesOnce
<1> HIDE DEF Body
<1> QED BY Zenon, <1>1, <1>2

LEMMA DeploymentsOnce ==
    ASSUME NEW items, NEW v \in Listing(items), \A i \in DOMAIN v : v[i].name \in Nat,
           NEW b \in Deployments(v), NEW c \in Deployments(v)
    PROVE  b = c
<1> DEFINE Body(names) == [total |-> Len(v), ready |-> Cardinality(DOMAIN v \ Short(v)),
                           notReady |-> names]
<1>1. Deployments(v) = {Body(names) : names \in SortedNames(v, Short(v))}
    BY Zenon DEF Deployments
<1>2. Short(v) \in SUBSET DOMAIN v
    BY DEF Short
<1>3. \A n, o \in SortedNames(v, Short(v)) : n = o
    BY <1>2, NamesOnce
<1> HIDE DEF Body
<1> QED BY Zenon, <1>1, <1>3

LEMMA RestartsOnce ==
    ASSUME NEW v \in Listing(Item("restarts")),
           NoTie([i \in Offenders(v) |-> -Restarted(v[i])]),
           NEW b \in Restarts(v), NEW c \in Restarts(v)
    PROVE  b = c
<1> DEFINE rank == [i \in Offenders(v) |-> -Restarted(v[i])]
           Body(p) == [total |-> Total([i \in DOMAIN v |-> Restarted(v[i])]),
                       top |-> [k \in Upto(p, TopRestarts) |->
                          [pod |-> v[p[k]].name, restarts |-> Restarted(v[p[k]])]]]
<1>1. Restarts(v) = {Body(p) : p \in Sorted(rank)}
    BY Zenon DEF Restarts
<1>2. Offenders(v) \in SUBSET DOMAIN v
    BY DEF Offenders
<1>3. IsFiniteSet(Offenders(v))
    BY <1>2, ListingIsFinite, FS_Subset
<1>4. \A i \in Offenders(v) : Restarted(v[i]) \in Nat
    BY <1>2, ListingIsFinite, RestartedIsNat
<1>5. DOMAIN rank = Offenders(v) /\ NoTie(rank) /\ \A i \in Offenders(v) : rank[i] \in Int
    BY <1>4
<1> HIDE DEF rank
<1>6. \A p, q \in Sorted(rank) : p = q
    BY <1>3, <1>5, OneOrder
<1> HIDE DEF Body
<1> QED BY Zenon, <1>1, <1>6

LEMMA PodMetricsOnce ==
    ASSUME NEW v \in Listing(Item("pod-metrics")), NoTie([i \in DOMAIN v |-> -CPU(v[i])]),
           NEW b \in PodMetrics(v), NEW c \in PodMetrics(v)
    PROVE  b = c
<1> DEFINE rank == [i \in DOMAIN v |-> -CPU(v[i])]
           Body(p) == [top |-> [k \in Upto(p, TopCPU) |->
                        [pod |-> v[p[k]].name, cpu |-> CPU(v[p[k]]), mem |-> Mem(v[p[k]])]]]
<1>1. PodMetrics(v) = {Body(p) : p \in Sorted(rank)}
    BY Zenon DEF PodMetrics
<1>2. IsFiniteSet(DOMAIN v) /\ \A i \in DOMAIN v : CPU(v[i]) \in Nat
    BY ListingIsFinite, CPUIsNat
<1>3. DOMAIN rank = DOMAIN v /\ NoTie(rank) /\ \A i \in DOMAIN v : rank[i] \in Int
    BY <1>2
<1> HIDE DEF rank
<1>4. \A p, q \in Sorted(rank) : p = q
    BY <1>2, <1>3, OneOrder
<1> HIDE DEF Body
<1> QED BY Zenon, <1>1, <1>4

LEMMA NodeMetricsOnce ==
    ASSUME NEW v \in Listing(Item("node-metrics")),
           NEW b \in NodeMetrics(v), NEW c \in NodeMetrics(v)
    PROVE  b = c
<1> DEFINE rank == [i \in DOMAIN v |-> v[i].name]
           Body(p) == [nodes |-> [k \in DOMAIN p |->
                           [name |-> v[p[k]].name, cpu |-> quantityMilli(v[p[k]].cpu),
                            mem |-> quantityMiB(v[p[k]].mem)]],
                       totalCPU |-> Total([i \in DOMAIN v |-> quantityMilli(v[i].cpu)]),
                       totalMem |-> Total([i \in DOMAIN v |-> quantityMiB(v[i].mem)])]
<1>1. NodeMetrics(v) = {Body(p) : p \in Sorted(rank)}
    BY Zenon DEF NodeMetrics
<1>2. IsFiniteSet(DOMAIN v) /\ \A i \in DOMAIN v : v[i].name \in Nat
    <2>1. IsFiniteSet(DOMAIN v) /\ \A i \in DOMAIN v : v[i] \in Item("node-metrics")
        BY ListingIsFinite
    <2> QED BY <2>1 DEF Item
<1>3. DOMAIN rank = DOMAIN v /\ NoTie(rank) /\ \A i \in DOMAIN v : rank[i] \in Int
    BY <1>2, ListingIsFinite DEF NoTie
<1> HIDE DEF rank
<1>4. \A p, q \in Sorted(rank) : p = q
    BY <1>2, <1>3, OneOrder
<1> HIDE DEF Body
<1> QED BY Zenon, <1>1, <1>4

LEMMA ServicesOnce ==
    ASSUME NEW v \in Listing(Item("services")),
           NoTie([x \in VIPs(v) |-> v[x[1]].ingress[x[2]]]),
           NEW b \in Services(v), NEW c \in Services(v)
    PROVE  b = c
<1> DEFINE ip(x) == v[x[1]].ingress[x[2]]
           rank == [x \in VIPs(v) |-> ip(x)]
           Body(p) == [total |-> Len(v), byType |-> ByType(v),
                       loadbalancers |-> [k \in DOMAIN p |->
                            [svc |-> v[p[k][1]].name, ip |-> ip(p[k])]]]
<1>1. Services(v) = {Body(p) : p \in Sorted(rank)}
    BY Zenon DEF Services
<1>2. IsFiniteSet(VIPs(v))
    BY VIPsFinite
<1>3. ASSUME NEW x \in VIPs(v) PROVE ip(x) \in Int
    <2>1. x[1] \in DOMAIN v /\ x[2] \in DOMAIN v[x[1]].ingress
        BY DEF VIPs
    <2>2. v[x[1]] \in Item("services")
        BY <2>1, ListingIsFinite
    <2>3. v[x[1]].ingress \in Seq(Nat)
        BY <2>2 DEF Item
    <2> QED BY <2>1, <2>3
<1>4. DOMAIN rank = VIPs(v) /\ NoTie(rank) /\ \A x \in VIPs(v) : rank[x] \in Int
    BY <1>3
<1> HIDE DEF rank
<1>5. \A p, q \in Sorted(rank) : p = q
    BY <1>2, <1>4, OneOrder
<1> HIDE DEF Body
<1> QED BY Zenon, <1>1, <1>5

(* The peers that are not up, and what they are sorted by.                 *)
PeerAt(l, x) == l[x[1][1]].instances[x[1][2]][x[2]]
Unpeered(l)  == {y \in Peers(l) : PeerAt(l, y).state # "established"}
PeerRank(l)  == [x \in Unpeered(l) |-> 10 * l[x[1][1]].name + PeerAt(l, x).addr]

LEMMA BGPOnce ==
    ASSUME NEW v \in Listing(Item("cilium-bgp")), NoTie(PeerRank(v)),
           NEW b \in CiliumBGP(v), NEW c \in CiliumBGP(v)
    PROVE  b = c
<1> DEFINE up == {x \in Peers(v) : PeerAt(v, x).state = "established"}
           rank == [x \in Peers(v) \ up |-> 10 * v[x[1][1]].name + PeerAt(v, x).addr]
           Body(p) == [peers |-> Cardinality(Peers(v)), established |-> Cardinality(up),
                       down |-> [k \in DOMAIN p |->
                          <<v[p[k][1][1]].name, PeerAt(v, p[k]).addr, PeerAt(v, p[k]).state>>]]
<1>1. CiliumBGP(v) = {Body(p) : p \in Sorted(rank)}
    BY Zenon DEF CiliumBGP, PeerAt
<1>2. Peers(v) \ up = Unpeered(v)
    BY DEF Unpeered
<1>3. rank = PeerRank(v)
    BY <1>2 DEF PeerRank
<1>4. IsFiniteSet(Unpeered(v))
    BY PeersFinite, FS_Subset DEF Unpeered
<1>5. ASSUME NEW x \in Unpeered(v)
      PROVE  10 * v[x[1][1]].name + PeerAt(v, x).addr \in Int
    <2> DEFINE P == [addr : 0..9, state : STRING]
               J == Seq(P)
    <2>1. /\ x[1][1] \in DOMAIN v /\ x[1][2] \in DOMAIN v[x[1][1]].instances
          /\ x[2] \in DOMAIN v[x[1][1]].instances[x[1][2]]
        BY PeersAre DEF Unpeered
    <2>2. v[x[1][1]] \in [name : Nat, instances : Seq(J)]
        BY <2>1, ListingIsFinite DEF Item
    <2>3. \A z \in P : z.addr \in 0..9
        OBVIOUS
    <2> HIDE DEF J
    <2>4. v[x[1][1]].name \in Nat /\ v[x[1][1]].instances \in Seq(J)
        BY <2>2
    <2>5. v[x[1][1]].instances[x[1][2]] \in J
        BY <2>1, <2>4, ListOf
    <2> HIDE DEF P
    <2>6. PeerAt(v, x) \in P
        BY <2>1, <2>5, ListOf DEF J, PeerAt
    <2>7. PeerAt(v, x).addr \in Nat
        BY <2>3, <2>6
    <2> QED BY <2>4, <2>7
<1>6. DOMAIN PeerRank(v) = Unpeered(v) /\ \A x \in Unpeered(v) : PeerRank(v)[x] \in Int
    BY <1>5 DEF PeerRank
<1> HIDE DEF rank
<1>7. \A p, q \in Sorted(rank) : p = q
    BY <1>3, <1>4, <1>6, OneOrder
<1> HIDE DEF Body
<1> QED BY Zenon, <1>1, <1>7

(* Names are numbers in every list of an aspect.                           *)
LEMMA NamesTyped ==
    ASSUME NEW a, NEW it \in Item(a)
    PROVE  it.name \in Nat
BY DEF Item

LEMMA SummaryOnce ==
    ASSUME aspect \in Aspects \ {"versions", "cilium-policies", "cilium-lb-pools"},
           NEW v \in Listing(Item(aspect)), Untied(v), NEW server,
           NEW b \in Summaries(aspect, v, server), NEW c \in Summaries(aspect, v, server)
    PROVE  b = c
<1> DEFINE items == Item(aspect)
<1>1. v \in Listing(items) /\ \A i \in DOMAIN v : v[i].name \in Nat
    BY ListingIsFinite, NamesTyped
<1> HIDE DEF items
<1>2. CASE aspect \in {"cilium-endpoints", "cilium-identities"}
    BY <1>2 DEF Summaries, Counted
<1>3. CASE aspect = "nodes"
    <2>1. Summaries(aspect, v, server) = Nodes(v)
        BY <1>3 DEF Summaries
    <2> QED BY <1>1, <2>1, NodesOnce
<1>4. CASE aspect = "pods"
    <2>1. Summaries(aspect, v, server) = Pods(v)
        BY <1>4 DEF Summaries
    <2> QED BY Zenon, <2>1 DEF Pods
<1>5. CASE aspect \in {"namespaces", "cilium-nodes"}
    <2>1. Summaries(aspect, v, server) = Namespaces(v)
        BY <1>5 DEF Summaries, CiliumNodes
    <2> QED BY <1>1, <2>1, NamespacesOnce
<1>6. CASE aspect = "restarts"
    <2>1. Summaries(aspect, v, server) = Restarts(v)
        BY <1>6 DEF Summaries
    <2> QED BY <1>6, <2>1, RestartsOnce DEF Untied
<1>7. CASE aspect = "capacity"
    <2>1. Summaries(aspect, v, server) = Capacity(v)
        BY <1>7 DEF Summaries
    <2> QED BY Zenon, <2>1 DEF Capacity
<1>8. CASE aspect = "deployments"
    <2>1. Summaries(aspect, v, server) = Deployments(v)
        BY <1>8 DEF Summaries
    <2> QED BY <1>1, <2>1, DeploymentsOnce
<1>9. CASE aspect = "services"
    <2>1. Summaries(aspect, v, server) = Services(v)
        BY <1>9 DEF Summaries
    <2> QED BY <1>9, <2>1, ServicesOnce DEF Untied
<1>10. CASE aspect = "pvcs"
    <2>1. Summaries(aspect, v, server) = PVCs(v)
        BY <1>10 DEF Summaries
    <2> QED BY Zenon, <2>1 DEF PVCs
<1>11. CASE aspect = "cilium-bgp"
    <2>1. Summaries(aspect, v, server) = CiliumBGP(v)
        BY <1>11 DEF Summaries
    <2>2. NoTie(PeerRank(v))
        BY <1>11 DEF Untied, PeerRank, Unpeered, PeerAt
    <2> QED BY <1>11, <2>1, <2>2, BGPOnce
<1>12. CASE aspect = "node-metrics"
    <2>1. Summaries(aspect, v, server) = NodeMetrics(v)
        BY <1>12 DEF Summaries
    <2> QED BY <1>12, <2>1, NodeMetricsOnce
<1>13. CASE aspect = "pod-metrics"
    <2>1. Summaries(aspect, v, server) = PodMetrics(v)
        BY <1>13 DEF Summaries
    <2> QED BY <1>13, <2>1, PodMetricsOnce DEF Untied
<1> QED BY <1>2, <1>3, <1>4, <1>5, <1>6, <1>7, <1>8, <1>9, <1>10, <1>11, <1>12, <1>13 DEF Aspects

(* The body of a poll is decided by what the cluster is, and in no other   *)
(* way by the order in which the API lists it than among items that are    *)
(* equal to the sort: names, addresses and counts are sorted before they   *)
(* are published (main.go:245, 278, 306, 358, 382, 463, 498, 540, 575),    *)
(* every number is a sum or a count, and a table of versions is filled     *)
(* alike when no two images disagree on a key (main.go:676-710).  For      *)
(* every list without ties the body is one, and the same in every order.   *)
THEOREM OrderOnlyBreaksTies == Spec => []OneRowUnlessTied
<1>1. IInv /\ Viewed => OneRowUnlessTied
    <2> SUFFICES ASSUME IInv, Viewed, phase = "write", Untied(view),
                        NEW v \in Reordered(view)
                 PROVE  Summaries(aspect, v, ~failed) = {message}
        BY DEF OneRowUnlessTied
    <2>1. view \in Views[aspect] /\ aspect \in Aspects /\ aspect # "cilium-lb-pools"
        BY DEF Viewed, IInv, TypeOK, Untied
    <2>2. message \in Summaries(aspect, view, ~failed)
        BY DEF Viewed
    <2>3. CASE aspect = "versions"
        <3> DEFINE N == [name : Nat, info : [InfoFields -> STRING]]
        <3>1. view.nodes \in Listing(N) /\ view.pods \in Listing(PodItem)
            <4>1. view \in [nodes : Listing(N), pods : Listing(PodItem)]
                BY <2>1, <2>3, ViewsAreListings DEF PodItem
            <4> HIDE DEF N
            <4> QED BY <4>1
        <3>2. PICK l \in Arrangements(view.nodes) \X Arrangements(view.pods) :
                v = [nodes |-> l[1], pods |-> l[2]]
            BY <2>3, Zenon DEF Reordered
        <3> DEFINE nl == l[1]
                   pl == l[2]
        <3>3. nl \in Arrangements(view.nodes) /\ pl \in Arrangements(view.pods)
            OBVIOUS
        <3> HIDE DEF N, nl, pl
        <3>4. /\ Alike(N, view.nodes, nl) /\ Alike(PodItem, view.pods, pl)
              /\ Alike(PodItem, pl, view.pods)
            BY <3>1, <3>3, ArrangedAlike
        <3>5. Versions(~failed, view.nodes, view.pods) = Versions(~failed, nl, pl)
            BY <2>3, <3>4, VersionsMoved DEF Untied
        <3>6. v.nodes = nl /\ v.pods = pl
            BY <3>2 DEF nl, pl
        <3>7. Summaries(aspect, v, ~failed) = Summaries(aspect, view, ~failed)
            BY <2>3, <3>5, <3>6 DEF Summaries
        <3>8. Summaries(aspect, view, ~failed) = Versions(~failed, view.nodes, view.pods)
            BY <2>3 DEF Summaries
        <3>9. \A b, c \in Versions(~failed, view.nodes, view.pods) : b = c
            BY Zenon DEF Versions
        <3> QED BY <2>2, <3>7, <3>8, <3>9
    <2>4. CASE aspect = "cilium-policies"
        <3>1. v = view
            BY <2>4 DEF Reordered
        <3> QED BY <2>2, <2>4, <3>1 DEF Summaries, CiliumPolicies
    <2>5. CASE aspect \notin {"versions", "cilium-policies"}
        <3>1. view \in Listing(Item(aspect))
            BY <2>1, <2>5, Listings
        <3>2. v \in Arrangements(view)
            BY <2>5 DEF Reordered
        <3>3. Summaries(aspect, v, ~failed) = Summaries(aspect, view, ~failed)
            BY <2>1, <2>5, <3>1, <3>2, SummaryMoved
        <3>4. \A b \in Summaries(aspect, view, ~failed) : b = message
            BY <2>1, <2>2, <2>5, <3>1, SummaryOnce
        <3> QED BY <2>2, <3>3, <3>4
    <2> QED BY <2>3, <2>4, <2>5
<1> QED BY <1>1, Inductive, WritesWhatItRead, PTL
=============================================================================
