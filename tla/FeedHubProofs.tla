--------------------------- MODULE FeedHubProofs ---------------------------
(***************************************************************************)
(* Theorems about FeedHub, for every set of subjects, every finite set of  *)
(* clients, every cap and every bound on the versions: its invariants, and *)
(* that it implements LatestFeed.                                          *)
(***************************************************************************)
EXTENDS FeedHub, TLAPS, FiniteSetTheorems

(* hub.mu: a fan-out in progress concerns registered clients only, and     *)
(* nothing is left of one when the lock is free.                           *)
FanOut ==
    /\ todo \subseteq clients
    /\ adding \in clients \cup {NoClient}
    /\ adding \notin todo
    /\ HubMuFree => todo = {} /\ adding = NoClient
    /\ ~HubMuFree => state[publishing] # 0

(* Which of a session's envelopes can exist at which point of serveWS.     *)
Phases ==
    \A c \in Clients :
        /\ pc[c] \notin {"seeding", "leaving", "removed"} => seed[c] = None
        /\ pc[c] \notin {"writing", "leaving", "removed"} =>
              out[c] = None /\ outOrder[c] = <<>>
        /\ pc[c] = "writing" => outOrder[c] # <<>>
        /\ pc[c] \in {"out", "refused", "accepting", "snapshot"} => recv[c] = None
        /\ pc[c] \in {"out", "refused"} => pending[c] = None /\ order[c] = <<>>

(* The versions on their way to a client are ordered as they will arrive:  *)
(* what it has, what is being written, what is queued, what the hub has.   *)
OrderedAt(c, s) ==
    /\ recv[c][s] <= state[s] /\ seed[c][s] <= state[s]
    /\ out[c][s] <= state[s] /\ pending[c][s] <= state[s]
    /\ seed[c][s] # 0 => recv[c][s] <= seed[c][s]
    /\ out[c][s] # 0 => recv[c][s] <= out[c][s]
    /\ pending[c][s] # 0 =>
          /\ recv[c][s] <= pending[c][s]
          /\ seed[c][s] <= pending[c][s]
          /\ out[c][s] <= pending[c][s]

Ordered == \A c \in Clients, s \in Subjects : OrderedAt(c, s)

(* What a registered client has queued is the latest, up to the envelope   *)
(* that publish is about to queue.                                         *)
CurrentAt(c, s) ==
    c \in clients /\ pending[c][s] # 0 =>
        pending[c][s] = state[s] \/ (publishing = s /\ c \in todo)

Current == \A c \in Clients, s \in Subjects : CurrentAt(c, s)

IInv ==
    /\ TypeOK /\ Admission /\ FanOut
    /\ QueueConsistent /\ Phases
    /\ NoLostWakeup
    /\ Ordered /\ Current /\ NoLostUpdate

-----------------------------------------------------------------------------
(* Facts about the data: one version of one client changes, and a sequence *)
(* that lists the subjects with a version grows or shrinks with them.      *)

(* Adding or removing one client changes the size of hub.clients by at     *)
(* most one.                                                               *)
LEMMA CardinalityChange ==
  ASSUME NEW S, IsFiniteSet(S), NEW x
  PROVE  /\ Cardinality(S) \in Nat
         /\ Cardinality(S \cup {x}) \in Nat /\ Cardinality(S \cup {x}) <= Cardinality(S) + 1
         /\ Cardinality(S \ {x}) \in Nat /\ Cardinality(S \ {x}) <= Cardinality(S)
<1>1. Cardinality(S) \in Nat
  BY FS_CardinalityType
<1>2. Cardinality(S \cup {x}) = IF x \in S THEN Cardinality(S) ELSE Cardinality(S) + 1
  BY FS_AddElement
<1>3. /\ IsFiniteSet(S \ {x})
      /\ Cardinality(S \ {x}) = IF x \in S THEN Cardinality(S) - 1 ELSE Cardinality(S)
  BY FS_RemoveElement
<1>4. Cardinality(S \ {x}) \in Nat
  BY <1>3, FS_CardinalityType
<1> QED
  BY <1>1, <1>2, <1>3, <1>4

(* The absence of every envelope is a well-typed queue, snapshot or state. *)
LEMMA NoneIsVersions == None \in Versions /\ 0 \in Version
  BY MaxVersionNat DEF None, Versions, Version

(* Storing one envelope of one client leaves every other envelope alone.   *)
LEMMA VersionSet ==
  ASSUME NEW f \in [Clients -> Versions], NEW c \in Clients, NEW s \in Subjects,
         NEW v \in Version
  PROVE  LET g == [f EXCEPT ![c][s] = v] IN
         /\ g \in [Clients -> Versions]
         /\ g[c] = [f[c] EXCEPT ![s] = v]
         /\ g[c][s] = v
         /\ \A d \in Clients, x \in Subjects : d # c \/ x # s => g[d][x] = f[d][x]
         /\ \A d \in Clients : d # c => g[d] = f[d]
  BY DEF Versions

(* The empty order goes with the empty pending map.                        *)
LEMMA ListsNone == Lists(<<>>, None)
  BY DEF Lists, Range, IsInjective, None

(* When a client's order is empty, nothing is pending for it.              *)
LEMMA ListsEmpty ==
  ASSUME NEW v \in Versions, Lists(<<>>, v)
  PROVE  v = None
<1>1. \A s \in Subjects : v[s] = 0
  BY DEF Lists, Range
<1> QED
  BY <1>1 DEF Versions, None

(* What enqueue does to order and pending keeps them in agreement.         *)
LEMMA ListsAppend ==
  ASSUME NEW q \in Seq(Subjects), NEW v \in Versions, Lists(q, v),
         NEW s \in Subjects, NEW n \in Version, n # 0
  PROVE  LET r == IF v[s] = 0 THEN Append(q, s) ELSE q IN
         r \in Seq(Subjects) /\ Lists(r, [v EXCEPT ![s] = n])
<1> DEFINE w == [v EXCEPT ![s] = n]
           r == Append(q, s)
<1>1. \A x \in Subjects : w[x] = IF x = s THEN n ELSE v[x]
  BY DEF Versions
<1>2. CASE v[s] # 0
  BY <1>1, <1>2 DEF Lists
<1>3. CASE v[s] = 0
  <2>1. /\ r \in Seq(Subjects)
        /\ DOMAIN q = 1..Len(q) /\ DOMAIN r = 1..Len(q)+1 /\ Len(q) \in Nat
        /\ \A i \in 1..Len(q) : r[i] = q[i]
        /\ r[Len(q)+1] = s
    OBVIOUS
  <2>2. \A i \in 1..Len(q) : q[i] # s
    BY <1>3, <2>1 DEF Lists, Range
  <2> HIDE DEF r, w
  <2>3. Range(r) = Range(q) \cup {s}
    BY <2>1 DEF Range
  <2>4. {x \in Subjects : w[x] # 0} = {x \in Subjects : v[x] # 0} \cup {s}
    BY <1>1
  <2>5. IsInjective(r)
    BY <2>1, <2>2 DEF Lists, IsInjective
  <2> QED
    BY <1>3, <2>1, <2>3, <2>4, <2>5 DEF Lists, r, w
<1> QED
  BY <1>2, <1>3

(* Writing the first envelope of take's result keeps the rest of it in     *)
(* agreement, and there is nothing left exactly after the last one.        *)
LEMMA ListsTail ==
  ASSUME NEW q \in Seq(Subjects), NEW v \in Versions, Lists(q, v), q # <<>>
  PROVE  LET w == [v EXCEPT ![Head(q)] = 0] IN
         /\ Head(q) \in Subjects /\ v[Head(q)] # 0
         /\ Tail(q) \in Seq(Subjects)
         /\ Lists(Tail(q), w)
         /\ Len(q) # 1 => Tail(q) # <<>>
         /\ Len(q) = 1 => Tail(q) = <<>> /\ w = None
<1> DEFINE h == Head(q)
           w == [v EXCEPT ![h] = 0]
           r == Tail(q)
<1>1. /\ Len(q) \in Nat \ {0} /\ DOMAIN q = 1..Len(q)
      /\ h = q[1] /\ h \in Subjects
      /\ r \in Seq(Subjects) /\ Len(r) = Len(q) - 1 /\ DOMAIN r = 1..Len(q)-1
      /\ \A i \in 1..Len(q)-1 : r[i] = q[i+1]
  OBVIOUS
<1>2. (Len(q) # 1 => r # <<>>) /\ (Len(q) = 1 => r = <<>>)
  <2>1. Len(q) \in Nat /\ Len(r) \in Nat /\ (Len(r) = 0 <=> Len(q) = 1)
    BY <1>1
  <2>2. r \in Seq(Subjects)
    BY <1>1
  <2> HIDE DEF r
  <2>3. Len(r) = 0 <=> r = <<>>
    BY <2>2
  <2> QED
    BY <2>1, <2>3
<1>3. /\ w \in Versions
      /\ \A x \in Subjects : w[x] = IF x = h THEN 0 ELSE v[x]
  BY <1>1, NoneIsVersions DEF Versions
<1>4. v[h] # 0
  BY <1>1 DEF Lists, Range
<1> HIDE DEF r, w, h
<1>5. Range(r) = Range(q) \ {h}
  <2>1. \A i \in 1..Len(q) : i # 1 => i-1 \in 1..Len(q)-1 /\ r[i-1] = q[i]
    BY <1>1
  <2>2. \A i \in 1..Len(q) : i # 1 => q[i] # h
    BY <1>1 DEF Lists, IsInjective
  <2>3. ASSUME NEW i \in 1..Len(q)-1 PROVE r[i] \in Range(q) \ {h}
    BY <1>1, <2>2 DEF Range
  <2>4. ASSUME NEW i \in 1..Len(q), q[i] # h PROVE q[i] \in Range(r)
    BY <1>1, <2>1, <2>4 DEF Range
  <2> QED
    BY <1>1, <2>3, <2>4 DEF Range
<1>6. IsInjective(r)
  BY <1>1 DEF Lists, IsInjective
<1>7. Lists(r, w)
  BY <1>3, <1>5, <1>6 DEF Lists
<1>8. ASSUME Len(q) = 1 PROVE w = None
  <2>1. Range(r) = {}
    BY <1>1, <1>8 DEF Range
  <2>2. \A x \in Subjects : w[x] = 0
    BY <1>7, <2>1 DEF Lists
  <2> QED
    BY <1>3, <2>2 DEF Versions, None
<1> QED
  BY <1>1, <1>2, <1>4, <1>7, <1>8 DEF r, w, h

-----------------------------------------------------------------------------
(* Types, admission and hub.mu.                                            *)

(* newHub's empty hub satisfies the invariant.                             *)
LEMMA InitHolds == Init => IInv
<1> SUFFICES ASSUME Init PROVE IInv
  OBVIOUS
<1>1. <<>> \in Seq(Subjects)
  OBVIOUS
<1>2. TypeOK
  BY <1>1, NoneIsVersions DEF Init, TypeOK, Points
<1>3. Admission
  <2>1. Counted = {} /\ {c \in Clients : pc[c] \in Registered} = {}
    BY DEF Init, Counted, Registered, Accepted, Streaming
  <2> QED
    BY <2>1, FS_EmptySet, MaxClientsPositive DEF Init, Admission
<1>4. FanOut /\ Phases /\ NoLostWakeup /\ NoLostUpdate
  BY DEF Init, FanOut, HubMuFree, Phases, NoLostWakeup, NoLostUpdate, Streaming
<1>5. QueueConsistent
  BY ListsNone DEF Init, QueueConsistent
<1>6. Ordered /\ Current
  BY DEF Init, Ordered, OrderedAt, Current, CurrentAt, None
<1> QED
  BY <1>2, <1>3, <1>4, <1>5, <1>6 DEF IInv

(* The steps of main and of drain's waiter leave the hub, its queues and   *)
(* its sessions alone.                                                     *)
MainStep == Sigterm \/ ListenFails \/ Shutdown

(* None of them touches hub.state, a queue or a session.                   *)
LEMMA MainStepKeeps ==
  MainStep => UNCHANGED <<hubVars, publishVars, queueVars, sessionVars>>
  BY DEF MainStep, Sigterm, ListenFails, Shutdown, ShutdownReturns, ShutdownTimesOut,
         WaitReturns, DrainReturns, DrainTimesOut

(* A session whose Done is due is counted, so the counter is positive.     *)
LEMMA CountedSession ==
  ASSUME TypeOK, Admission, NEW c \in Counted
  PROVE  sessions # 0
<1>1. IsFiniteSet(Counted)
  BY ClientsFinite, FS_Subset DEF Counted
<1> QED
  BY <1>1, FS_EmptySet DEF Admission

(* Every step keeps the types, and hub.mu protects the fan-out: register   *)
(* and unregister cannot change hub.clients under publish.                 *)
LEMMA TypeStep ==
  ASSUME TypeOK, Admission, FanOut, Phases, [Next]_vars
  PROVE  TypeOK' /\ FanOut'
<1> USE MaxVersionNat, NoSubjectNew, NoClientNew
    DEF TypeOK, FanOut, HubMuFree, Goto, Versions, Version, None, Points,
        Registered, Accepted, Streaming, hubVars, publishVars, queueVars, sessionVars, mainVars
<1>1. ASSUME NEW s \in Subjects, PublishBegin(s) PROVE (TypeOK /\ FanOut)'
  BY <1>1 DEF PublishBegin
<1>2. ASSUME NEW c \in Clients, EnqueueAdd(c) PROVE (TypeOK /\ FanOut)'
  BY <1>2 DEF EnqueueAdd, Queued
<1>3. ASSUME NEW c \in Clients, EnqueueNotify(c) PROVE (TypeOK /\ FanOut)'
  BY <1>3 DEF EnqueueNotify, Signalled
<1>4. ASSUME PublishEnd PROVE (TypeOK /\ FanOut)'
  BY <1>4 DEF PublishEnd
<1>5. ASSUME NEW c \in Clients, Register(c) PROVE (TypeOK /\ FanOut)'
  BY <1>5 DEF Register, AtCap
<1>6. ASSUME NEW c \in Clients, Refuse(c) PROVE (TypeOK /\ FanOut)'
  BY <1>6 DEF Refuse, AtCap
<1>7. ASSUME NEW c \in Clients, Accept(c) PROVE (TypeOK /\ FanOut)'
  BY <1>7 DEF Accept
<1>8. ASSUME NEW c \in Clients, Disconnect(c) PROVE (TypeOK /\ FanOut)'
  BY <1>8 DEF Disconnect
<1>9. ASSUME NEW c \in Clients, Snapshot(c) PROVE (TypeOK /\ FanOut)'
  BY <1>9 DEF Snapshot
<1>10. ASSUME NEW c \in Clients, NEW s \in Subjects, WriteSeed(c, s) PROVE (TypeOK /\ FanOut)'
  <2> HIDE DEF Versions, Version
  <2>1. seed[c][s] \in Version
    BY DEF Versions
  <2>2. recv' \in [Clients -> Versions] /\ seed' \in [Clients -> Versions]
    <3>1. /\ recv' = [recv EXCEPT ![c][s] = seed[c][s]]
          /\ seed' = [seed EXCEPT ![c][s] = 0]
      BY <1>10 DEF WriteSeed
    <3>2. recv \in [Clients -> Versions] /\ seed \in [Clients -> Versions]
      OBVIOUS
    <3>3. [recv EXCEPT ![c][s] = seed[c][s]] \in [Clients -> Versions]
      BY ONLY <2>1, <3>2, VersionSet, c \in Clients, s \in Subjects
    <3>4. [seed EXCEPT ![c][s] = 0] \in [Clients -> Versions]
      BY ONLY <3>2, VersionSet, NoneIsVersions, c \in Clients, s \in Subjects
    <3> QED
      BY ONLY <3>1, <3>3, <3>4
  <2>3. pc' \in [Clients -> Points]
    BY <1>10 DEF WriteSeed
  <2> QED
    BY <1>10, <2>2, <2>3 DEF WriteSeed
<1>11. ASSUME NEW c \in Clients, WriteFails(c) PROVE (TypeOK /\ FanOut)'
  BY <1>11 DEF WriteFails
<1>12. ASSUME NEW c \in Clients, LoopGone(c) PROVE (TypeOK /\ FanOut)'
  BY <1>12 DEF LoopGone
<1>13. ASSUME NEW c \in Clients, LoopShutdown(c) PROVE (TypeOK /\ FanOut)'
  BY <1>13 DEF LoopShutdown
<1>14. ASSUME NEW c \in Clients, LoopNotify(c) PROVE (TypeOK /\ FanOut)'
  BY <1>14 DEF LoopNotify
<1>15. ASSUME NEW c \in Clients, Take(c) PROVE (TypeOK /\ FanOut)'
  BY <1>15 DEF Take
<1>16. ASSUME NEW c \in Clients, WriteNext(c) PROVE (TypeOK /\ FanOut)'
  <2> HIDE DEF Versions, Version
  <2> DEFINE s == Head(outOrder[c])
  <2>1. outOrder[c] # <<>> /\ s \in Subjects /\ Tail(outOrder[c]) \in Seq(Subjects)
    BY <1>16 DEF WriteNext, Phases
  <2>2. out[c][s] \in Version
    BY <2>1 DEF Versions
  <2>3. recv' \in [Clients -> Versions] /\ out' \in [Clients -> Versions]
    <3>1. /\ recv' = [recv EXCEPT ![c][s] = out[c][s]]
          /\ out' = [out EXCEPT ![c][s] = 0]
      BY <1>16 DEF WriteNext
    <3>2. recv \in [Clients -> Versions] /\ out \in [Clients -> Versions]
      OBVIOUS
    <3> HIDE DEF s
    <3>3. [recv EXCEPT ![c][s] = out[c][s]] \in [Clients -> Versions]
      BY ONLY <2>1, <2>2, <3>2, VersionSet, c \in Clients
    <3>4. [out EXCEPT ![c][s] = 0] \in [Clients -> Versions]
      BY ONLY <2>1, <3>2, VersionSet, NoneIsVersions, c \in Clients
    <3> QED
      BY ONLY <3>1, <3>3, <3>4
  <2>4. outOrder' \in [Clients -> Seq(Subjects)] /\ pc' \in [Clients -> Points]
    BY <1>16, <2>1 DEF WriteNext
  <2> QED
    BY <1>16, <2>3, <2>4 DEF WriteNext
<1>17. ASSUME NEW c \in Clients, CloseDone(c) PROVE (TypeOK /\ FanOut)'
  BY <1>17 DEF CloseDone
<1>18. ASSUME NEW c \in Clients, Unregister(c) PROVE (TypeOK /\ FanOut)'
  BY <1>18 DEF Unregister
<1>19. ASSUME NEW c \in Clients, SessionDone(c) PROVE (TypeOK /\ FanOut)'
  <2>1. sessions # 0
    BY <1>19, CountedSession DEF SessionDone, Counted
  <2>2. sessions' \in Nat
    BY <1>19, <2>1 DEF SessionDone, Done
  <2> HIDE DEF Versions, Version
  <2> QED
    BY <1>19, <2>2, NoneIsVersions DEF SessionDone
<1>20. ASSUME MainStep PROVE (TypeOK /\ FanOut)'
  BY <1>20, MainStepKeeps
  DEF MainStep, Sigterm, ListenFails, Shutdown, ShutdownReturns, ShutdownTimesOut,
      WaitReturns, DrainReturns, DrainTimesOut
<1>21. CASE UNCHANGED vars
  BY <1>21 DEF vars
<1> QED
  BY <1>1, <1>2, <1>3, <1>4, <1>5, <1>6, <1>7, <1>8, <1>9, <1>10, <1>11,
     <1>12, <1>13, <1>14, <1>15, <1>16, <1>17, <1>18, <1>19, <1>20, <1>21
  DEF Next, Publisher, Session, Write, Loop, Leave, MainStep, Terminated, vars

(* register, unregister and Done keep hub.clients and the WaitGroup in     *)
(* step with the sessions, and register respects the cap.                  *)
LEMMA AdmissionStep ==
  ASSUME TypeOK, Admission, FanOut, [Next]_vars
  PROVE  Admission'
<1>f. IsFiniteSet(Counted) /\ IsFiniteSet(clients)
  BY ClientsFinite, FS_Subset DEF Counted, TypeOK
<1> USE MaxClientsPositive
    DEF TypeOK, Admission, Counted, Goto, Points, Registered, Accepted, Streaming,
        hubVars, publishVars, queueVars, sessionVars, mainVars
<1>1. ASSUME NEW s \in Subjects, PublishBegin(s) PROVE Admission'
  BY <1>1 DEF PublishBegin
<1>2. ASSUME NEW c \in Clients, EnqueueAdd(c) PROVE Admission'
  BY <1>2 DEF EnqueueAdd, Queued
<1>3. ASSUME NEW c \in Clients, EnqueueNotify(c) PROVE Admission'
  BY <1>3 DEF EnqueueNotify, Signalled
<1>4. ASSUME PublishEnd PROVE Admission'
  BY <1>4 DEF PublishEnd
<1>5. ASSUME NEW c \in Clients, Register(c) PROVE Admission'
  <2>1. c \notin Counted /\ Counted' = Counted \cup {c}
    BY <1>5 DEF Register
  <2>2. clients' = clients \cup {c} /\ sessions' = sessions + 1 /\ ~AtCap
    BY <1>5 DEF Register
  <2>3. clients' = {d \in Clients : pc'[d] \in Registered}
    BY <1>5 DEF Register
  <2> HIDE DEF Counted, Registered, Accepted, Streaming, TypeOK
  <2>4. Cardinality(Counted') = Cardinality(Counted) + 1
    BY <1>f, <2>1, FS_AddElement
  <2>5. Cardinality(clients') <= MaxClients
    <3>1. ~(Cardinality(clients) >= MaxClients)
      BY <2>2 DEF AtCap
    <3>2. /\ Cardinality(clients) \in Nat /\ Cardinality(clients \cup {c}) \in Nat
          /\ Cardinality(clients \cup {c}) <= Cardinality(clients) + 1
      BY ONLY <1>f, CardinalityChange
    <3> QED
      BY ONLY <2>2, <3>1, <3>2, MaxClientsPositive
  <2> QED
    BY <2>2, <2>3, <2>4, <2>5
<1>6. ASSUME NEW c \in Clients, Refuse(c) PROVE Admission'
  BY <1>6 DEF Refuse, AtCap
<1>7. ASSUME NEW c \in Clients, Accept(c) PROVE Admission'
  BY <1>7 DEF Accept
<1>8. ASSUME NEW c \in Clients, Disconnect(c) PROVE Admission'
  BY <1>8 DEF Disconnect
<1>9. ASSUME NEW c \in Clients, Snapshot(c) PROVE Admission'
  BY <1>9 DEF Snapshot
<1>10. ASSUME NEW c \in Clients, NEW s \in Subjects, WriteSeed(c, s) PROVE Admission'
  BY <1>10 DEF WriteSeed
<1>11. ASSUME NEW c \in Clients, WriteFails(c) PROVE Admission'
  BY <1>11 DEF WriteFails
<1>12. ASSUME NEW c \in Clients, LoopGone(c) PROVE Admission'
  BY <1>12 DEF LoopGone
<1>13. ASSUME NEW c \in Clients, LoopShutdown(c) PROVE Admission'
  BY <1>13 DEF LoopShutdown
<1>14. ASSUME NEW c \in Clients, LoopNotify(c) PROVE Admission'
  BY <1>14 DEF LoopNotify
<1>15. ASSUME NEW c \in Clients, Take(c) PROVE Admission'
  BY <1>15 DEF Take
<1>16. ASSUME NEW c \in Clients, WriteNext(c) PROVE Admission'
  BY <1>16 DEF WriteNext
<1>17. ASSUME NEW c \in Clients, CloseDone(c) PROVE Admission'
  BY <1>17 DEF CloseDone
<1>18. ASSUME NEW c \in Clients, Unregister(c) PROVE Admission'
  <2>1. Counted' = Counted /\ clients' = clients \ {c} /\ sessions' = sessions
    BY <1>18 DEF Unregister
  <2>2. clients' = {d \in Clients : pc'[d] \in Registered}
    BY <1>18 DEF Unregister
  <2> HIDE DEF Counted, Registered, Accepted, Streaming, TypeOK
  <2>3. Cardinality(clients') <= MaxClients
    <3>1. /\ Cardinality(clients) \in Nat /\ Cardinality(clients \ {c}) \in Nat
          /\ Cardinality(clients \ {c}) <= Cardinality(clients)
      BY ONLY <1>f, CardinalityChange
    <3> QED
      BY ONLY <2>1, <3>1, MaxClientsPositive, Cardinality(clients) <= MaxClients
  <2> QED
    BY <2>1, <2>2, <2>3
<1>19. ASSUME NEW c \in Clients, SessionDone(c) PROVE Admission'
  <2>1. c \in Counted /\ Counted' = Counted \ {c}
    BY <1>19 DEF SessionDone
  <2>2. clients' = clients /\ sessions' = sessions - 1
    BY <1>19 DEF SessionDone, Done
  <2>3. clients' = {d \in Clients : pc'[d] \in Registered}
    BY <1>19 DEF SessionDone
  <2> HIDE DEF Counted, Registered, Accepted, Streaming, TypeOK
  <2>4. Cardinality(Counted') = Cardinality(Counted) - 1
    BY <1>f, <2>1, FS_RemoveElement
  <2> QED
    BY <2>2, <2>3, <2>4
<1>20. ASSUME MainStep PROVE Admission'
  BY <1>20, MainStepKeeps
<1>21. CASE UNCHANGED vars
  BY <1>21 DEF vars
<1> QED
  BY <1>1, <1>2, <1>3, <1>4, <1>5, <1>6, <1>7, <1>8, <1>9, <1>10, <1>11,
     <1>12, <1>13, <1>14, <1>15, <1>16, <1>17, <1>18, <1>19, <1>20, <1>21
  DEF Next, Publisher, Session, Write, Loop, Leave, MainStep, Terminated, vars

-----------------------------------------------------------------------------
(* Queues and wake-ups.                                                    *)

(* enqueue, take and the writes keep each list of subjects in agreement    *)
(* with its envelopes.                                                     *)
LEMMA QueueStep ==
  ASSUME TypeOK, FanOut, QueueConsistent, Phases, [Next]_vars
  PROVE  QueueConsistent'
<1> USE DEF TypeOK, QueueConsistent, hubVars, publishVars, queueVars, sessionVars, mainVars
<1>1. ASSUME NEW s \in Subjects, PublishBegin(s) PROVE QueueConsistent'
  BY <1>1 DEF PublishBegin
<1>2. ASSUME NEW c \in Clients, EnqueueAdd(c) PROVE QueueConsistent'
  <2> DEFINE s == publishing
             r == IF pending[c][s] = 0 THEN Append(order[c], s) ELSE order[c]
             w == [pending[c] EXCEPT ![s] = state[s]]
  <2>1. s \in Subjects /\ state[s] # 0 /\ state[s] \in Version
    BY <1>2 DEF EnqueueAdd, FanOut, HubMuFree, Versions
  <2>2. Lists(r, w)
    BY <2>1, ListsAppend
  <2>3. /\ order' = [order EXCEPT ![c] = r] /\ pending' = [pending EXCEPT ![c] = w]
        /\ UNCHANGED <<out, outOrder>>
    BY <1>2 DEF EnqueueAdd, Queued
  <2> HIDE DEF r, w
  <2> QED
    BY <2>2, <2>3
<1>3. ASSUME NEW c \in Clients, EnqueueNotify(c) PROVE QueueConsistent'
  BY <1>3 DEF EnqueueNotify, Signalled
<1>4. ASSUME PublishEnd PROVE QueueConsistent'
  BY <1>4 DEF PublishEnd
<1>5. ASSUME NEW c \in Clients, Register(c) PROVE QueueConsistent'
  BY <1>5 DEF Register, AtCap
<1>6. ASSUME NEW c \in Clients, Refuse(c) PROVE QueueConsistent'
  BY <1>6 DEF Refuse, AtCap
<1>7. ASSUME NEW c \in Clients, Accept(c) PROVE QueueConsistent'
  BY <1>7 DEF Accept
<1>8. ASSUME NEW c \in Clients, Disconnect(c) PROVE QueueConsistent'
  BY <1>8 DEF Disconnect
<1>9. ASSUME NEW c \in Clients, Snapshot(c) PROVE QueueConsistent'
  BY <1>9 DEF Snapshot
<1>10. ASSUME NEW c \in Clients, NEW s \in Subjects, WriteSeed(c, s) PROVE QueueConsistent'
  BY <1>10 DEF WriteSeed
<1>11. ASSUME NEW c \in Clients, WriteFails(c) PROVE QueueConsistent'
  BY <1>11 DEF WriteFails
<1>12. ASSUME NEW c \in Clients, LoopGone(c) PROVE QueueConsistent'
  BY <1>12 DEF LoopGone
<1>13. ASSUME NEW c \in Clients, LoopShutdown(c) PROVE QueueConsistent'
  BY <1>13 DEF LoopShutdown
<1>14. ASSUME NEW c \in Clients, LoopNotify(c) PROVE QueueConsistent'
  BY <1>14 DEF LoopNotify
<1>15. ASSUME NEW c \in Clients, Take(c) PROVE QueueConsistent'
  <2>1. /\ out' = [out EXCEPT ![c] = pending[c]]
        /\ outOrder' = [outOrder EXCEPT ![c] = order[c]]
        /\ pending' = [pending EXCEPT ![c] = None]
        /\ order' = [order EXCEPT ![c] = <<>>]
    BY <1>15 DEF Take
  <2> QED
    BY <2>1, ListsNone
<1>16. ASSUME NEW c \in Clients, WriteNext(c) PROVE QueueConsistent'
  <2> DEFINE s == Head(outOrder[c])
             r == Tail(outOrder[c])
             w == [out[c] EXCEPT ![s] = 0]
  <2>1. Lists(r, w)
    BY <1>16, ListsTail DEF WriteNext, Phases
  <2>2. /\ outOrder' = [outOrder EXCEPT ![c] = r] /\ out' = [out EXCEPT ![c] = w]
        /\ UNCHANGED <<order, pending>>
    BY <1>16 DEF WriteNext
  <2> HIDE DEF r, w, s
  <2> QED
    BY <2>1, <2>2
<1>17. ASSUME NEW c \in Clients, CloseDone(c) PROVE QueueConsistent'
  BY <1>17 DEF CloseDone
<1>18. ASSUME NEW c \in Clients, Unregister(c) PROVE QueueConsistent'
  BY <1>18 DEF Unregister
<1>19. ASSUME NEW c \in Clients, SessionDone(c) PROVE QueueConsistent'
  BY <1>19, ListsNone DEF SessionDone
<1>20. ASSUME MainStep PROVE QueueConsistent'
  BY <1>20, MainStepKeeps
<1>21. CASE UNCHANGED vars
  BY <1>21 DEF vars
<1> QED
  BY <1>1, <1>2, <1>3, <1>4, <1>5, <1>6, <1>7, <1>8, <1>9, <1>10, <1>11,
     <1>12, <1>13, <1>14, <1>15, <1>16, <1>17, <1>18, <1>19, <1>20, <1>21
  DEF Next, Publisher, Session, Write, Loop, Leave, MainStep, Terminated, vars

(* A session carries a seed only while it seeds and take's result only     *)
(* while it writes it, until it ends.                                      *)
LEMMA PhasesStep ==
  ASSUME TypeOK, Admission, FanOut, QueueConsistent, Phases, [Next]_vars
  PROVE  Phases'
<1> USE DEF TypeOK, Admission, FanOut, Phases, Goto, Points, Registered, Accepted,
            Streaming, hubVars, publishVars, queueVars, sessionVars, mainVars
<1>1. ASSUME NEW s \in Subjects, PublishBegin(s) PROVE Phases'
  BY <1>1 DEF PublishBegin
<1>2. ASSUME NEW c \in Clients, EnqueueAdd(c) PROVE Phases'
  BY <1>2 DEF EnqueueAdd, Queued
<1>3. ASSUME NEW c \in Clients, EnqueueNotify(c) PROVE Phases'
  BY <1>3 DEF EnqueueNotify, Signalled
<1>4. ASSUME PublishEnd PROVE Phases'
  BY <1>4 DEF PublishEnd
<1>5. ASSUME NEW c \in Clients, Register(c) PROVE Phases'
  BY <1>5 DEF Register, AtCap
<1>6. ASSUME NEW c \in Clients, Refuse(c) PROVE Phases'
  BY <1>6 DEF Refuse, AtCap
<1>7. ASSUME NEW c \in Clients, Accept(c) PROVE Phases'
  BY <1>7 DEF Accept
<1>8. ASSUME NEW c \in Clients, Disconnect(c) PROVE Phases'
  BY <1>8 DEF Disconnect
<1>9. ASSUME NEW c \in Clients, Snapshot(c) PROVE Phases'
  BY <1>9 DEF Snapshot
<1>10. ASSUME NEW c \in Clients, NEW s \in Subjects, WriteSeed(c, s) PROVE Phases'
  BY <1>10 DEF WriteSeed
<1>11. ASSUME NEW c \in Clients, WriteFails(c) PROVE Phases'
  BY <1>11 DEF WriteFails
<1>12. ASSUME NEW c \in Clients, LoopGone(c) PROVE Phases'
  BY <1>12 DEF LoopGone
<1>13. ASSUME NEW c \in Clients, LoopShutdown(c) PROVE Phases'
  BY <1>13 DEF LoopShutdown
<1>14. ASSUME NEW c \in Clients, LoopNotify(c) PROVE Phases'
  BY <1>14 DEF LoopNotify
<1>15. ASSUME NEW c \in Clients, Take(c) PROVE Phases'
  <2>1. order[c] = <<>> => pending[c] = None
    BY ListsEmpty DEF QueueConsistent
  <2> QED
    BY <1>15, <2>1 DEF Take
<1>16. ASSUME NEW c \in Clients, WriteNext(c) PROVE Phases'
  <2> DEFINE s == Head(outOrder[c])
             r == Tail(outOrder[c])
             w == [out[c] EXCEPT ![s] = 0]
  <2>1. /\ Len(outOrder[c]) = 1 => r = <<>> /\ w = None
        /\ Len(outOrder[c]) # 1 => r # <<>>
    BY <1>16, ListsTail DEF WriteNext, QueueConsistent
  <2>2. /\ outOrder' = [outOrder EXCEPT ![c] = r] /\ out' = [out EXCEPT ![c] = w]
        /\ pc' = [pc EXCEPT ![c] = IF Len(outOrder[c]) = 1 THEN "loop" ELSE "writing"]
        /\ UNCHANGED <<order, pending, seed>>
        /\ pc[c] = "writing"
        /\ \A d \in Clients : d # c => recv'[d] = recv[d]
    BY <1>16 DEF WriteNext
  <2> HIDE DEF r, w, s
  <2> QED
    BY <2>1, <2>2
<1>17. ASSUME NEW c \in Clients, CloseDone(c) PROVE Phases'
  BY <1>17 DEF CloseDone
<1>18. ASSUME NEW c \in Clients, Unregister(c) PROVE Phases'
  BY <1>18 DEF Unregister
<1>19. ASSUME NEW c \in Clients, SessionDone(c) PROVE Phases'
  BY <1>19 DEF SessionDone, Done
<1>20. ASSUME MainStep PROVE Phases'
  BY <1>20, MainStepKeeps
<1>21. CASE UNCHANGED vars
  BY <1>21 DEF vars
<1> QED
  BY <1>1, <1>2, <1>3, <1>4, <1>5, <1>6, <1>7, <1>8, <1>9, <1>10, <1>11,
     <1>12, <1>13, <1>14, <1>15, <1>16, <1>17, <1>18, <1>19, <1>20, <1>21
  DEF Next, Publisher, Session, Write, Loop, Leave, MainStep, Terminated, vars

(* No step leaves a waiting session with a queue and no token: enqueue is  *)
(* between the two, and a session that takes the token takes the queue     *)
(* next.                                                                   *)
LEMMA WakeupStep ==
  ASSUME TypeOK, Phases, NoLostWakeup, [Next]_vars
  PROVE  NoLostWakeup'
<1> USE NoClientNew
    DEF TypeOK, NoLostWakeup, Phases, Goto, Points, Registered, Accepted, Streaming,
        hubVars, publishVars, queueVars, sessionVars, mainVars
<1>1. ASSUME NEW s \in Subjects, PublishBegin(s) PROVE NoLostWakeup'
  BY <1>1 DEF PublishBegin
<1>2. ASSUME NEW c \in Clients, EnqueueAdd(c) PROVE NoLostWakeup'
  BY <1>2 DEF EnqueueAdd, Queued
<1>3. ASSUME NEW c \in Clients, EnqueueNotify(c) PROVE NoLostWakeup'
  BY <1>3 DEF EnqueueNotify, Signalled
<1>4. ASSUME PublishEnd PROVE NoLostWakeup'
  BY <1>4 DEF PublishEnd
<1>5. ASSUME NEW c \in Clients, Register(c) PROVE NoLostWakeup'
  BY <1>5 DEF Register, AtCap
<1>6. ASSUME NEW c \in Clients, Refuse(c) PROVE NoLostWakeup'
  BY <1>6 DEF Refuse, AtCap
<1>7. ASSUME NEW c \in Clients, Accept(c) PROVE NoLostWakeup'
  BY <1>7 DEF Accept
<1>8. ASSUME NEW c \in Clients, Disconnect(c) PROVE NoLostWakeup'
  BY <1>8 DEF Disconnect
<1>9. ASSUME NEW c \in Clients, Snapshot(c) PROVE NoLostWakeup'
  BY <1>9 DEF Snapshot
<1>10. ASSUME NEW c \in Clients, NEW s \in Subjects, WriteSeed(c, s) PROVE NoLostWakeup'
  BY <1>10 DEF WriteSeed
<1>11. ASSUME NEW c \in Clients, WriteFails(c) PROVE NoLostWakeup'
  BY <1>11 DEF WriteFails
<1>12. ASSUME NEW c \in Clients, LoopGone(c) PROVE NoLostWakeup'
  BY <1>12 DEF LoopGone
<1>13. ASSUME NEW c \in Clients, LoopShutdown(c) PROVE NoLostWakeup'
  BY <1>13 DEF LoopShutdown
<1>14. ASSUME NEW c \in Clients, LoopNotify(c) PROVE NoLostWakeup'
  BY <1>14 DEF LoopNotify
<1>15. ASSUME NEW c \in Clients, Take(c) PROVE NoLostWakeup'
  BY <1>15 DEF Take
<1>16. ASSUME NEW c \in Clients, WriteNext(c) PROVE NoLostWakeup'
  BY <1>16 DEF WriteNext
<1>17. ASSUME NEW c \in Clients, CloseDone(c) PROVE NoLostWakeup'
  BY <1>17 DEF CloseDone
<1>18. ASSUME NEW c \in Clients, Unregister(c) PROVE NoLostWakeup'
  BY <1>18 DEF Unregister
<1>19. ASSUME NEW c \in Clients, SessionDone(c) PROVE NoLostWakeup'
  BY <1>19 DEF SessionDone, Done
<1>20. ASSUME MainStep PROVE NoLostWakeup'
  BY <1>20, MainStepKeeps
<1>21. CASE UNCHANGED vars
  BY <1>21 DEF vars
<1> QED
  BY <1>1, <1>2, <1>3, <1>4, <1>5, <1>6, <1>7, <1>8, <1>9, <1>10, <1>11,
     <1>12, <1>13, <1>14, <1>15, <1>16, <1>17, <1>18, <1>19, <1>20, <1>21
  DEF Next, Publisher, Session, Write, Loop, Leave, MainStep, Terminated, vars

-----------------------------------------------------------------------------
(* The latest envelope of every subject, for one client and one subject.   *)

(* Versions are natural numbers: the types in the form arithmetic needs.   *)
LEMMA VersionTypes ==
  ASSUME TypeOK
  PROVE  /\ state \in [Subjects -> Nat]
         /\ \A c \in Clients, s \in Subjects :
               /\ pending[c][s] \in Nat /\ out[c][s] \in Nat
               /\ seed[c][s] \in Nat /\ recv[c][s] \in Nat
         /\ {pending, out, seed, recv} \subseteq [Clients -> Versions]
         /\ pc \in [Clients -> Points]
  BY MaxVersionNat DEF TypeOK, Versions, Version

(* What the steps that move an envelope do to one subject of one client.   *)
LEMMA EnqueueAddEffect ==
  ASSUME TypeOK, NEW c \in Clients, EnqueueAdd(c), NEW d \in Clients, NEW x \in Subjects
  PROVE  /\ pending'[d][x] = IF d = c /\ x = publishing THEN state[x] ELSE pending[d][x]
         /\ todo' = todo \ {c}
         /\ UNCHANGED <<hubVars, publishing, sessionVars>>
  BY DEF TypeOK, Versions, EnqueueAdd, Queued

(* A seed write moves one envelope of one client from the seed to the      *)
(* browser.                                                                *)
LEMMA WriteSeedEffect ==
  ASSUME TypeOK, NEW c \in Clients, NEW s \in Subjects, WriteSeed(c, s),
         NEW d \in Clients, NEW x \in Subjects
  PROVE  /\ recv'[d][x] = IF d = c /\ x = s THEN seed[d][x] ELSE recv[d][x]
         /\ seed'[d][x] = IF d = c /\ x = s THEN 0 ELSE seed[d][x]
         /\ pc[c] = "seeding"
         /\ d # c => pc'[d] = pc[d]
         /\ UNCHANGED <<hubVars, publishVars, queueVars, out>>
  BY DEF TypeOK, Versions, WriteSeed, Goto

(* A live write moves one envelope of one client from take's result to the *)
(* browser.                                                                *)
LEMMA WriteNextEffect ==
  ASSUME TypeOK, QueueConsistent, Phases, NEW c \in Clients, WriteNext(c)
  PROVE  \E s \in Subjects :
           /\ out[c][s] # 0
           /\ \A d \in Clients, x \in Subjects :
                 /\ recv'[d][x] = IF d = c /\ x = s THEN out[d][x] ELSE recv[d][x]
                 /\ out'[d][x] = IF d = c /\ x = s THEN 0 ELSE out[d][x]
           /\ pc[c] = "writing"
           /\ \A d \in Clients : d # c => pc'[d] = pc[d]
           /\ UNCHANGED <<hubVars, publishVars, queueVars, seed>>
<1> DEFINE s == Head(outOrder[c])
<1>1. s \in Subjects /\ out[c][s] # 0
  <2>1. outOrder[c] \in Seq(Subjects) /\ outOrder[c] # <<>> /\ Lists(outOrder[c], out[c])
    BY DEF WriteNext, TypeOK, QueueConsistent, Phases
  <2>2. out[c] \in Versions
    BY DEF TypeOK
  <2> QED
    BY ONLY <2>1, <2>2, ListsTail
<1>2. /\ recv' = [recv EXCEPT ![c][s] = out[c][s]]
      /\ out' = [out EXCEPT ![c][s] = 0]
      /\ pc[c] = "writing"
      /\ pc' = [pc EXCEPT ![c] = IF Len(outOrder[c]) = 1 THEN "loop" ELSE "writing"]
      /\ UNCHANGED <<hubVars, publishVars, queueVars, seed>>
  BY DEF WriteNext, Goto
<1> HIDE DEF s
<1> QED
  BY <1>1, <1>2 DEF TypeOK, Versions

(* No step lets an older envelope of a subject follow a newer one on its   *)
(* way to a client.                                                        *)
LEMMA OrderedStep ==
  ASSUME TypeOK, Admission, FanOut, QueueConsistent, Phases, Ordered, Current, [Next]_vars
  PROVE  Ordered'
<1> SUFFICES ASSUME NEW d \in Clients, NEW x \in Subjects
             PROVE  OrderedAt(d, x)'
  BY DEF Ordered
<1>a. OrderedAt(d, x) /\ CurrentAt(d, x)
  BY DEF Ordered, Current
<1>b. /\ HubMuFree => todo = {}
      /\ \A c \in Clients : pc[c] = "snapshot" => c \in clients
      /\ \A c \in Clients : pc[c] \notin {"seeding", "leaving", "removed"} => seed[c] = None
      /\ \A c \in Clients : pc[c] \notin {"writing", "leaving", "removed"} => out[c] = None
  BY DEF FanOut, Phases, Admission, Registered, Accepted
<1> USE VersionTypes, <1>a, <1>b
    DEF OrderedAt, Goto, None, Versions, Version, hubVars, publishVars, queueVars, sessionVars, mainVars
<1>1. ASSUME NEW s \in Subjects, PublishBegin(s) PROVE OrderedAt(d, x)'
  BY <1>1 DEF PublishBegin
<1>2. ASSUME NEW c \in Clients, EnqueueAdd(c) PROVE OrderedAt(d, x)'
  BY <1>2 DEF EnqueueAdd, Queued
<1>3. ASSUME NEW c \in Clients, EnqueueNotify(c) PROVE OrderedAt(d, x)'
  BY <1>3 DEF EnqueueNotify, Signalled
<1>4. ASSUME PublishEnd PROVE OrderedAt(d, x)'
  BY <1>4 DEF PublishEnd
<1>5. ASSUME NEW c \in Clients, Register(c) PROVE OrderedAt(d, x)'
  BY <1>5 DEF Register, AtCap
<1>6. ASSUME NEW c \in Clients, Refuse(c) PROVE OrderedAt(d, x)'
  BY <1>6 DEF Refuse, AtCap
<1>7. ASSUME NEW c \in Clients, Accept(c) PROVE OrderedAt(d, x)'
  BY <1>7 DEF Accept
<1>8. ASSUME NEW c \in Clients, Disconnect(c) PROVE OrderedAt(d, x)'
  BY <1>8 DEF Disconnect
<1>9. ASSUME NEW c \in Clients, Snapshot(c) PROVE OrderedAt(d, x)'
  BY <1>9 DEF Snapshot, CurrentAt, HubMuFree
<1>10. ASSUME NEW c \in Clients, NEW s \in Subjects, WriteSeed(c, s) PROVE OrderedAt(d, x)'
  BY <1>10 DEF WriteSeed
<1>11. ASSUME NEW c \in Clients, WriteFails(c) PROVE OrderedAt(d, x)'
  BY <1>11 DEF WriteFails
<1>12. ASSUME NEW c \in Clients, LoopGone(c) PROVE OrderedAt(d, x)'
  BY <1>12 DEF LoopGone
<1>13. ASSUME NEW c \in Clients, LoopShutdown(c) PROVE OrderedAt(d, x)'
  BY <1>13 DEF LoopShutdown
<1>14. ASSUME NEW c \in Clients, LoopNotify(c) PROVE OrderedAt(d, x)'
  BY <1>14 DEF LoopNotify
<1>15. ASSUME NEW c \in Clients, Take(c) PROVE OrderedAt(d, x)'
  BY <1>15 DEF Take
<1>16. ASSUME NEW c \in Clients, WriteNext(c) PROVE OrderedAt(d, x)'
  <2>1. PICK s \in Subjects :
           /\ out[c][s] # 0
           /\ recv'[d][x] = IF d = c /\ x = s THEN out[d][x] ELSE recv[d][x]
           /\ out'[d][x] = IF d = c /\ x = s THEN 0 ELSE out[d][x]
           /\ pc[c] = "writing"
           /\ d # c => pc'[d] = pc[d]
           /\ UNCHANGED <<hubVars, publishVars, queueVars, seed>>
    BY ONLY <1>16, WriteNextEffect, TypeOK, QueueConsistent, Phases,
            d \in Clients, x \in Subjects
  <2> QED
    BY <2>1
<1>17. ASSUME NEW c \in Clients, CloseDone(c) PROVE OrderedAt(d, x)'
  BY <1>17 DEF CloseDone
<1>18. ASSUME NEW c \in Clients, Unregister(c) PROVE OrderedAt(d, x)'
  BY <1>18 DEF Unregister
<1>19. ASSUME NEW c \in Clients, SessionDone(c) PROVE OrderedAt(d, x)'
  BY <1>19 DEF SessionDone, Done
<1>20. ASSUME MainStep PROVE OrderedAt(d, x)'
  BY <1>20, MainStepKeeps
<1>21. CASE UNCHANGED vars
  BY <1>21 DEF vars
<1> QED
  BY <1>1, <1>2, <1>3, <1>4, <1>5, <1>6, <1>7, <1>8, <1>9, <1>10, <1>11,
     <1>12, <1>13, <1>14, <1>15, <1>16, <1>17, <1>18, <1>19, <1>20, <1>21
  DEF Next, Publisher, Session, Write, Loop, Leave, MainStep, Terminated, vars

(* enqueue overwrites what is pending, so only the envelope being fanned   *)
(* out can be missing from a queue.                                        *)
LEMMA CurrentStep ==
  ASSUME TypeOK, Admission, FanOut, Phases, Current, [Next]_vars
  PROVE  Current'
<1> SUFFICES ASSUME NEW d \in Clients, NEW x \in Subjects
             PROVE  CurrentAt(d, x)'
  BY DEF Current
<1>a. CurrentAt(d, x)
  BY DEF Current
<1>b. /\ HubMuFree => todo = {}
      /\ pc[d] \in {"out", "refused"} => pending[d][x] = 0
      /\ publishing # NoSubject <=> ~HubMuFree
  BY DEF FanOut, Phases, None, HubMuFree
<1> USE VersionTypes, <1>a, <1>b DEF CurrentAt, None, hubVars, publishVars, queueVars, sessionVars, mainVars
<1>1. ASSUME NEW s \in Subjects, PublishBegin(s) PROVE CurrentAt(d, x)'
  BY <1>1 DEF PublishBegin
<1>2. ASSUME NEW c \in Clients, EnqueueAdd(c) PROVE CurrentAt(d, x)'
  <2>1. /\ pending'[d][x] = IF d = c /\ x = publishing THEN state[x] ELSE pending[d][x]
        /\ todo' = todo \ {c}
        /\ UNCHANGED <<hubVars, publishing, sessionVars>>
    BY <1>2, EnqueueAddEffect
  <2> QED
    BY <2>1
<1>3. ASSUME NEW c \in Clients, EnqueueNotify(c) PROVE CurrentAt(d, x)'
  BY <1>3 DEF EnqueueNotify, Signalled
<1>4. ASSUME PublishEnd PROVE CurrentAt(d, x)'
  BY <1>4 DEF PublishEnd
<1>5. ASSUME NEW c \in Clients, Register(c) PROVE CurrentAt(d, x)'
  BY <1>5 DEF Register, AtCap
<1>6. ASSUME NEW c \in Clients, Refuse(c) PROVE CurrentAt(d, x)'
  BY <1>6 DEF Refuse, AtCap
<1>7. ASSUME NEW c \in Clients, Accept(c) PROVE CurrentAt(d, x)'
  BY <1>7 DEF Accept
<1>8. ASSUME NEW c \in Clients, Disconnect(c) PROVE CurrentAt(d, x)'
  BY <1>8 DEF Disconnect
<1>9. ASSUME NEW c \in Clients, Snapshot(c) PROVE CurrentAt(d, x)'
  BY <1>9 DEF Snapshot
<1>10. ASSUME NEW c \in Clients, NEW s \in Subjects, WriteSeed(c, s) PROVE CurrentAt(d, x)'
  BY <1>10 DEF WriteSeed
<1>11. ASSUME NEW c \in Clients, WriteFails(c) PROVE CurrentAt(d, x)'
  BY <1>11 DEF WriteFails
<1>12. ASSUME NEW c \in Clients, LoopGone(c) PROVE CurrentAt(d, x)'
  BY <1>12 DEF LoopGone
<1>13. ASSUME NEW c \in Clients, LoopShutdown(c) PROVE CurrentAt(d, x)'
  BY <1>13 DEF LoopShutdown
<1>14. ASSUME NEW c \in Clients, LoopNotify(c) PROVE CurrentAt(d, x)'
  BY <1>14 DEF LoopNotify
<1>15. ASSUME NEW c \in Clients, Take(c) PROVE CurrentAt(d, x)'
  BY <1>15 DEF Take
<1>16. ASSUME NEW c \in Clients, WriteNext(c) PROVE CurrentAt(d, x)'
  BY <1>16 DEF WriteNext
<1>17. ASSUME NEW c \in Clients, CloseDone(c) PROVE CurrentAt(d, x)'
  BY <1>17 DEF CloseDone
<1>18. ASSUME NEW c \in Clients, Unregister(c) PROVE CurrentAt(d, x)'
  BY <1>18 DEF Unregister
<1>19. ASSUME NEW c \in Clients, SessionDone(c) PROVE CurrentAt(d, x)'
  BY <1>19 DEF SessionDone, Done
<1>20. ASSUME MainStep PROVE CurrentAt(d, x)'
  BY <1>20, MainStepKeeps
<1>21. CASE UNCHANGED vars
  BY <1>21 DEF vars
<1> QED
  BY <1>1, <1>2, <1>3, <1>4, <1>5, <1>6, <1>7, <1>8, <1>9, <1>10, <1>11,
     <1>12, <1>13, <1>14, <1>15, <1>16, <1>17, <1>18, <1>19, <1>20, <1>21
  DEF Next, Publisher, Session, Write, Loop, Leave, MainStep, Terminated, vars

(* No step loses the latest envelope of a subject for a streaming session: *)
(* each moves it from one place of OnItsWay to the next.                   *)
LEMMA UpdateStep ==
  ASSUME TypeOK, Admission, FanOut, QueueConsistent, Phases, Ordered, NoLostUpdate,
         [Next]_vars
  PROVE  NoLostUpdate'
<1> SUFFICES ASSUME NEW d \in Clients, pc'[d] \in Streaming, NEW x \in Subjects
             PROVE  OnItsWay(d, x)'
  BY DEF NoLostUpdate
<1>a. pc[d] \in Streaming => OnItsWay(d, x)
  BY DEF NoLostUpdate
<1>b. OrderedAt(d, x)
  BY DEF Ordered
<1>c. /\ HubMuFree => todo = {}
      /\ pc[d] \in Streaming => d \in clients
      /\ pc[d] \notin {"seeding", "leaving", "removed"} => seed[d][x] = 0
      /\ pc[d] \notin {"writing", "leaving", "removed"} => out[d][x] = 0
  BY DEF FanOut, Phases, Admission, Registered, Accepted, None
<1>d. /\ state[x] \in Nat /\ recv[d][x] \in Nat
      /\ seed[d][x] \in Nat /\ out[d][x] \in Nat
  BY VersionTypes
<1> USE VersionTypes, <1>a, <1>b, <1>c
    DEF OnItsWay, OrderedAt, Goto, None, Streaming, hubVars, publishVars, queueVars, sessionVars, mainVars
<1>1. ASSUME NEW s \in Subjects, PublishBegin(s) PROVE OnItsWay(d, x)'
  BY <1>1 DEF PublishBegin
<1>2. ASSUME NEW c \in Clients, EnqueueAdd(c) PROVE OnItsWay(d, x)'
  <2>1. /\ pending'[d][x] = IF d = c /\ x = publishing THEN state[x] ELSE pending[d][x]
        /\ todo' = todo \ {c}
        /\ UNCHANGED <<hubVars, publishing, sessionVars>>
    BY <1>2, EnqueueAddEffect
  <2> QED
    BY <2>1
<1>3. ASSUME NEW c \in Clients, EnqueueNotify(c) PROVE OnItsWay(d, x)'
  BY <1>3 DEF EnqueueNotify, Signalled
<1>4. ASSUME PublishEnd PROVE OnItsWay(d, x)'
  BY <1>4 DEF PublishEnd
<1>5. ASSUME NEW c \in Clients, Register(c) PROVE OnItsWay(d, x)'
  BY <1>5 DEF Register, AtCap
<1>6. ASSUME NEW c \in Clients, Refuse(c) PROVE OnItsWay(d, x)'
  BY <1>6 DEF Refuse, AtCap
<1>7. ASSUME NEW c \in Clients, Accept(c) PROVE OnItsWay(d, x)'
  BY <1>7 DEF Accept
<1>8. ASSUME NEW c \in Clients, Disconnect(c) PROVE OnItsWay(d, x)'
  BY <1>8 DEF Disconnect
<1>9. ASSUME NEW c \in Clients, Snapshot(c) PROVE OnItsWay(d, x)'
  BY <1>9 DEF Snapshot
<1>10. ASSUME NEW c \in Clients, NEW s \in Subjects, WriteSeed(c, s) PROVE OnItsWay(d, x)'
  <2>0. seed[c][s] # 0
    BY ONLY <1>10 DEF WriteSeed
  <2>1. /\ seed[c][s] # 0
        /\ recv'[d][x] = IF d = c /\ x = s THEN seed[d][x] ELSE recv[d][x]
        /\ seed'[d][x] = IF d = c /\ x = s THEN 0 ELSE seed[d][x]
        /\ pc[c] = "seeding"
        /\ d # c => pc'[d] = pc[d]
        /\ UNCHANGED <<hubVars, publishVars, queueVars, out>>
    BY ONLY <2>0, <1>10, WriteSeedEffect, TypeOK, Phases, d \in Clients, x \in Subjects
  <2>2. pc[d] \in Streaming
    BY <2>1
  <2>3. /\ state'[x] = state[x] /\ publishing' = publishing /\ todo' = todo
        /\ pending'[d][x] = pending[d][x] /\ out'[d][x] = out[d][x]
    BY <2>1
  <2>4. \/ publishing = x /\ d \in todo
        \/ state[x] \in {pending[d][x], out[d][x], seed[d][x], recv[d][x]}
    BY <2>2
  <2>5. seed[d][x] # 0 /\ recv[d][x] = state[x] => seed[d][x] = state[x]
    BY ONLY <1>b, <1>d DEF OrderedAt
  <2>6. \/ recv'[d][x] = seed[d][x] /\ seed[d][x] # 0
        \/ recv'[d][x] = recv[d][x] /\ seed'[d][x] = seed[d][x]
    <3>1. CASE d = c /\ x = s
      BY ONLY <2>1, <3>1
    <3>2. CASE ~(d = c /\ x = s)
      BY ONLY <2>1, <3>2
    <3> QED
      BY ONLY <3>1, <3>2
  <2> QED
    BY ONLY <2>1, <2>3, <2>4, <2>5, <2>6 DEF OnItsWay
<1>11. ASSUME NEW c \in Clients, WriteFails(c) PROVE OnItsWay(d, x)'
  BY <1>11 DEF WriteFails
<1>12. ASSUME NEW c \in Clients, LoopGone(c) PROVE OnItsWay(d, x)'
  BY <1>12 DEF LoopGone
<1>13. ASSUME NEW c \in Clients, LoopShutdown(c) PROVE OnItsWay(d, x)'
  BY <1>13 DEF LoopShutdown
<1>14. ASSUME NEW c \in Clients, LoopNotify(c) PROVE OnItsWay(d, x)'
  BY <1>14 DEF LoopNotify
<1>15. ASSUME NEW c \in Clients, Take(c) PROVE OnItsWay(d, x)'
  BY <1>15 DEF Take
<1>16. ASSUME NEW c \in Clients, WriteNext(c) PROVE OnItsWay(d, x)'
  <2>1. PICK s \in Subjects :
           /\ out[c][s] # 0
           /\ recv'[d][x] = IF d = c /\ x = s THEN out[d][x] ELSE recv[d][x]
           /\ out'[d][x] = IF d = c /\ x = s THEN 0 ELSE out[d][x]
           /\ pc[c] = "writing"
           /\ d # c => pc'[d] = pc[d]
           /\ UNCHANGED <<hubVars, publishVars, queueVars, seed>>
    BY ONLY <1>16, WriteNextEffect, TypeOK, QueueConsistent, Phases,
            d \in Clients, x \in Subjects
  <2>2. pc[d] \in Streaming
    BY <2>1
  <2>3. /\ state'[x] = state[x] /\ publishing' = publishing /\ todo' = todo
        /\ pending'[d][x] = pending[d][x] /\ seed'[d][x] = seed[d][x]
    BY <2>1
  <2>4. \/ publishing = x /\ d \in todo
        \/ state[x] \in {pending[d][x], out[d][x], seed[d][x], recv[d][x]}
    BY <2>2
  <2>5. out[d][x] # 0 /\ recv[d][x] = state[x] => out[d][x] = state[x]
    BY ONLY <1>b, <1>d DEF OrderedAt
  <2>6. \/ recv'[d][x] = out[d][x] /\ out[d][x] # 0
        \/ recv'[d][x] = recv[d][x] /\ out'[d][x] = out[d][x]
    <3>1. CASE d = c /\ x = s
      BY ONLY <2>1, <3>1
    <3>2. CASE ~(d = c /\ x = s)
      BY ONLY <2>1, <3>2
    <3> QED
      BY ONLY <3>1, <3>2
  <2> QED
    BY ONLY <2>1, <2>3, <2>4, <2>5, <2>6 DEF OnItsWay
<1>17. ASSUME NEW c \in Clients, CloseDone(c) PROVE OnItsWay(d, x)'
  BY <1>17 DEF CloseDone
<1>18. ASSUME NEW c \in Clients, Unregister(c) PROVE OnItsWay(d, x)'
  BY <1>18 DEF Unregister
<1>19. ASSUME NEW c \in Clients, SessionDone(c) PROVE OnItsWay(d, x)'
  BY <1>19 DEF SessionDone, Done
<1>20. ASSUME MainStep PROVE OnItsWay(d, x)'
  BY <1>20, MainStepKeeps
<1>21. CASE UNCHANGED vars
  BY <1>21 DEF vars
<1> QED
  BY <1>1, <1>2, <1>3, <1>4, <1>5, <1>6, <1>7, <1>8, <1>9, <1>10, <1>11,
     <1>12, <1>13, <1>14, <1>15, <1>16, <1>17, <1>18, <1>19, <1>20, <1>21
  DEF Next, Publisher, Session, Write, Loop, Leave, MainStep, Terminated, vars

-----------------------------------------------------------------------------
(* The invariant, and the properties of FeedHub that follow from it.       *)

(* Everything above together: in every reachable state the queues, the     *)
(* fan-out in progress and the sessions fit together.                      *)
THEOREM Invariant == Spec => []IInv
<1>1. IInv /\ [Next]_vars => IInv'
  BY TypeStep, AdmissionStep, QueueStep, PhasesStep, WakeupStep, OrderedStep,
     CurrentStep, UpdateStep DEF IInv
<1> QED
  BY InitHolds, <1>1, PTL DEF Spec

(* Every variable keeps its type; the WaitGroup's counter in particular is *)
(* never negative, which would panic in sessions.Done.                     *)
THEOREM TypeCorrect == Spec => []TypeOK
<1>1. IInv => TypeOK
  BY DEF IInv
<1> QED
  BY Invariant, <1>1, PTL

(* register never admits more than maxClients sessions, and clients and    *)
(* the WaitGroup count exactly the sessions they should.                   *)
THEOREM AdmissionBounded == Spec => []Admission
<1>1. IInv => Admission
  BY DEF IInv
<1> QED
  BY Invariant, <1>1, PTL

(* client.order and client.pending agree between any two critical sections *)
(* of client.mu, and so do the envelopes a session took from them.         *)
THEOREM QueuesConsistent == Spec => []QueueConsistent
<1>1. IInv => QueueConsistent
  BY DEF IInv
<1> QED
  BY Invariant, <1>1, PTL

(* A session never waits in select with a non-empty queue and no token in  *)
(* notify or on its way, although enqueue sends it after the unlock.       *)
THEOREM NoWakeupLost == Spec => []NoLostWakeup
<1>1. IInv => NoLostWakeup
  BY DEF IInv
<1> QED
  BY Invariant, <1>1, PTL

(* The latest envelope of every subject has reached every session that     *)
(* streams, or is queued, being written or about to be queued for it.      *)
THEOREM UpdatesNotLost == Spec => []NoLostUpdate
<1>1. IInv => NoLostUpdate
  BY DEF IInv
<1> QED
  BY Invariant, <1>1, PTL

(* A write only ever replaces what a session was sent by something newer.  *)
LEMMA WriteMovesOn ==
  ASSUME IInv, NEW c \in Clients, Write(c), NEW d \in Clients, NEW x \in Subjects
  PROVE  recv'[d][x] >= recv[d][x]
<1>1. OrderedAt(d, x) /\ recv[d][x] \in Nat /\ seed[d][x] \in Nat /\ out[d][x] \in Nat
  BY VersionTypes DEF IInv, Ordered
<1>2. ASSUME NEW s \in Subjects, WriteSeed(c, s) PROVE recv'[d][x] >= recv[d][x]
  <2>1. /\ seed[c][s] # 0
        /\ recv'[d][x] = IF d = c /\ x = s THEN seed[d][x] ELSE recv[d][x]
    <3>1. TypeOK /\ seed[c][s] # 0
      BY <1>2 DEF IInv, WriteSeed
    <3> QED
      BY <1>2, <3>1, WriteSeedEffect
  <2> QED
    BY ONLY <1>1, <2>1 DEF OrderedAt
<1>3. ASSUME WriteNext(c) PROVE recv'[d][x] >= recv[d][x]
  <2>1. PICK s \in Subjects :
           /\ out[c][s] # 0
           /\ recv'[d][x] = IF d = c /\ x = s THEN out[d][x] ELSE recv[d][x]
    BY <1>3, WriteNextEffect DEF IInv
  <2> QED
    BY ONLY <1>1, <2>1 DEF OrderedAt
<1>4. ASSUME WriteFails(c) PROVE recv'[d][x] >= recv[d][x]
  BY <1>1, <1>4 DEF WriteFails
<1> QED
  BY <1>2, <1>3, <1>4 DEF Write

\* The steps of a session other than its writes and its end.
QuietStep(c) ==
    \/ Register(c) \/ Refuse(c) \/ Disconnect(c) \/ Accept(c) \/ Snapshot(c)
    \/ Loop(c) \/ Take(c) \/ CloseDone(c) \/ Unregister(c)

(* Only a write and the end of a session change what a session was sent.   *)
LEMMA RecvKept ==
  ASSUME Next
  PROVE  \/ recv' = recv
         \/ \E c \in Clients : Write(c) \/ SessionDone(c)
<1> USE DEF sessionVars
<1>1. ASSUME NEW s \in Subjects, PublishBegin(s) PROVE recv' = recv
  BY <1>1 DEF PublishBegin
<1>2. ASSUME Publisher PROVE recv' = recv
  BY <1>2 DEF Publisher, EnqueueAdd, EnqueueNotify, PublishEnd
<1>3. ASSUME NEW c \in Clients, QuietStep(c) PROVE recv' = recv
  BY <1>3 DEF QuietStep, Register, Refuse, Disconnect, Accept, Snapshot, Loop,
              LoopGone, LoopShutdown, LoopNotify, Take, CloseDone, Unregister
<1>4. ASSUME MainStep \/ Terminated PROVE recv' = recv
  BY <1>4, MainStepKeeps DEF Terminated, vars
<1> QED
  BY <1>1, <1>2, <1>3, <1>4 DEF Next, Session, Leave, QuietStep, MainStep

(* No session is sent an older value of a subject after a newer one,       *)
(* whether they come from the seed or from the queue.                      *)
THEOREM NeverSentBackwards == Spec => NeverBackwards
<1>1. ASSUME IInv, [Next]_vars, NEW d \in Clients, pc'[d] # "out", NEW x \in Subjects
      PROVE  recv'[d][x] >= recv[d][x]
  <2>1. recv[d][x] \in Nat
    BY <1>1, VersionTypes DEF IInv
  <2>2. CASE recv' = recv
    BY <2>1, <2>2
  <2>3. ASSUME NEW c \in Clients, Write(c) PROVE recv'[d][x] >= recv[d][x]
    BY <1>1, <2>3, WriteMovesOn
  <2>4. ASSUME NEW c \in Clients, SessionDone(c) PROVE recv'[d][x] >= recv[d][x]
    BY <1>1, <2>1, <2>4 DEF SessionDone, Goto, IInv, TypeOK
  <2> QED
    BY <1>1, <2>2, <2>3, <2>4, RecvKept DEF vars, sessionVars
<1>2. IInv /\ [Next]_vars =>
        [\A c \in Clients : pc'[c] # "out" =>
            \A s \in Subjects : recv'[c][s] >= recv[c][s]]_vars
  BY <1>1
<1> QED
  BY Invariant, <1>2, PTL DEF Spec, NeverBackwards

-----------------------------------------------------------------------------
(* The shutdown.                                                           *)

(* After a Shutdown that saw every request off, the WaitGroup can only     *)
(* count down; so once Wait has come back, no session is left.             *)
Drained ==
    /\ quiet \/ waited \/ drained => main \in {"draining", "exited"}
    /\ drained => waited
    /\ quiet /\ waited => sessions = 0

(* No step adds a session after Shutdown returned nil, so the counter      *)
(* stays zero once Wait saw it zero.                                       *)
LEMMA DrainedStep ==
  ASSUME IInv, Drained, [Next]_vars
  PROVE  Drained'
<1> USE DEF Drained, hubVars, sessionVars, mainVars
<1>1. ASSUME NEW s \in Subjects, PublishBegin(s) PROVE Drained'
  BY <1>1 DEF PublishBegin
<1>2. ASSUME Publisher PROVE Drained'
  BY <1>2 DEF Publisher, EnqueueAdd, EnqueueNotify, PublishEnd
<1>3. ASSUME NEW c \in Clients, Register(c) PROVE Drained'
  BY <1>3 DEF Register, Accepting
<1>4. ASSUME NEW c \in Clients, QuietStep(c), ~Register(c) PROVE Drained'
  BY <1>4 DEF QuietStep, Refuse, Disconnect, Accept, Snapshot, Loop, LoopGone,
              LoopShutdown, LoopNotify, Take, CloseDone, Unregister
<1>5. ASSUME NEW c \in Clients, Write(c) PROVE Drained'
  BY <1>5 DEF Write, WriteSeed, WriteNext, WriteFails
<1>6. ASSUME NEW c \in Clients, SessionDone(c) PROVE Drained'
  <2>1. sessions # 0 /\ UNCHANGED mainVars
    BY <1>6, CountedSession DEF SessionDone, Counted, IInv
  <2> QED
    BY <2>1
<1>7. ASSUME MainStep PROVE Drained'
  BY <1>7, MainStepKeeps
  DEF MainStep, Sigterm, ListenFails, Shutdown, ShutdownReturns, ShutdownTimesOut,
      WaitReturns, DrainReturns, DrainTimesOut
<1>8. CASE UNCHANGED vars
  BY <1>8 DEF vars
<1> QED
  BY <1>1, <1>2, <1>3, <1>4, <1>5, <1>6, <1>7, <1>8
  DEF Next, Session, Leave, QuietStep, MainStep, Terminated

(* When Shutdown saw every request off and drain returned true, main ends  *)
(* with no /ws session left.                                               *)
THEOREM DrainedIdle == Spec => []DrainedMeansIdle
<1>1. Init => Drained
  BY DEF Init, Drained
<1>2. IInv /\ Drained => DrainedMeansIdle
  <2> SUFFICES ASSUME IInv, Drained, quiet, drained, NEW c \in Clients
               PROVE  pc[c] \in {"out", "refused"}
    BY DEF DrainedMeansIdle
  <2>1. sessions = 0
    BY DEF Drained
  <2>2. c \notin Counted
    BY <2>1, CountedSession DEF IInv
  <2> QED
    BY <2>2 DEF Counted, IInv, TypeOK, Points
<1> QED
  BY Invariant, DrainedStep, <1>1, <1>2, PTL DEF Spec

(***************************************************************************)
(* FeedHub implements LatestFeed.  The refinement mapping is that of       *)
(* FeedHub!Feed; the step of the hub that stands for each abstract action  *)
(* is named below, the others stutter.                                     *)
(***************************************************************************)
\* The two mapped variables that are not variables of FeedHub.
openBar == IF Alive THEN {c \in Clients : pc[c] \notin {"out", "refused"}} ELSE {}
seenBar == IF Alive THEN recv ELSE [c \in Clients |-> None]

feedVars == <<state, openBar, seenBar>>

(* A session and the values it was sent move the abstract feed only while  *)
(* they differ: the process is alive before and after the step.            *)
LEMMA FeedStutters ==
  ASSUME TypeOK, UNCHANGED <<state, recv, main>>,
         \A c \in Clients : pc'[c] \in {"out", "refused"} <=> pc[c] \in {"out", "refused"}
  PROVE  UNCHANGED feedVars
  BY DEF feedVars, openBar, seenBar, Alive

(* Storing an envelope in hub.state is the abstract update.                *)
LEMMA PublishUpdates ==
  ASSUME NEW s \in Subjects, PublishBegin(s)
  PROVE  Feed!Update(s)
  BY DEF PublishBegin, Feed!Update, Alive, sessionVars, mainVars

(* A session is open from its registration on.                             *)
LEMMA RegisterOpens ==
  ASSUME TypeOK, NEW c \in Clients, Register(c)
  PROVE  Feed!Open(c)
<1>1. Alive /\ Alive'
  BY DEF Register, Accepting, Alive, mainVars
<1>2. openBar' = openBar \cup {c} /\ c \notin openBar
  BY <1>1 DEF Register, Goto, openBar, TypeOK
<1> QED
  BY <1>1, <1>2 DEF Register, Feed!Open, openBar

(* A write delivers the envelope, or repeats the one the browser has: a    *)
(* snapshot and the queue may both hold the latest.                        *)
LEMMA WriteDelivers ==
  ASSUME IInv, NEW c \in Clients, Write(c)
  PROVE  (\E s \in Subjects : Feed!Deliver(c, s)) \/ UNCHANGED feedVars
<1>1. TypeOK /\ Alive /\ Alive' /\ UNCHANGED <<state, main>>
  BY DEF IInv, Write, WriteNext, WriteSeed, WriteFails, Alive, hubVars, mainVars
<1>2. /\ pc[c] \notin {"out", "refused"} /\ pc'[c] \notin {"out", "refused"}
      /\ \A d \in Clients : d # c => pc'[d] = pc[d]
  BY <1>1 DEF TypeOK, Write, WriteNext, WriteSeed, WriteFails, Goto
<1>3. openBar' = openBar /\ c \in openBar
  BY <1>1, <1>2 DEF openBar
<1>4. \/ recv' = recv
      \/ \E s \in Subjects, v \in Version :
            /\ recv' = [recv EXCEPT ![c][s] = v]
            /\ recv[c][s] <= v /\ v <= state[s]
  <2>1. ASSUME NEW s \in Subjects, WriteSeed(c, s)
        PROVE  /\ recv' = [recv EXCEPT ![c][s] = seed[c][s]]
               /\ seed[c][s] \in Version
               /\ recv[c][s] <= seed[c][s] /\ seed[c][s] <= state[s]
    <3>1. recv' = [recv EXCEPT ![c][s] = seed[c][s]] /\ seed[c][s] # 0
      BY <2>1 DEF WriteSeed
    <3>2. OrderedAt(c, s) /\ seed[c][s] \in Version
      BY DEF IInv, Ordered, TypeOK, Versions
    <3> QED
      BY <3>1, <3>2 DEF OrderedAt
  <2>2. ASSUME WriteNext(c)
        PROVE  \E s \in Subjects, v \in Version :
                  /\ recv' = [recv EXCEPT ![c][s] = v]
                  /\ recv[c][s] <= v /\ v <= state[s]
    <3> DEFINE s == Head(outOrder[c])
    <3>1. s \in Subjects /\ out[c][s] # 0
      <4>1. /\ outOrder[c] \in Seq(Subjects) /\ outOrder[c] # <<>>
            /\ Lists(outOrder[c], out[c]) /\ out[c] \in Versions
        BY <2>2 DEF IInv, WriteNext, TypeOK, QueueConsistent, Phases
      <4> QED
        BY ONLY <4>1, ListsTail
    <3>2. recv' = [recv EXCEPT ![c][s] = out[c][s]]
      BY <2>2 DEF WriteNext
    <3> HIDE DEF s
    <3>3. OrderedAt(c, s) /\ out[c][s] \in Version
      BY <3>1 DEF IInv, Ordered, TypeOK, Versions
    <3>4. recv[c][s] <= out[c][s] /\ out[c][s] <= state[s]
      BY <3>1, <3>3 DEF OrderedAt
    <3> QED
      BY <3>1, <3>2, <3>3, <3>4
  <2>3. WriteFails(c) => recv' = recv
    BY DEF WriteFails
  <2> QED
    BY <2>1, <2>2, <2>3 DEF Write
<1>5. ASSUME recv' = recv PROVE UNCHANGED feedVars
  BY <1>1, <1>3, <1>5 DEF feedVars, seenBar
<1>6. ASSUME NEW s \in Subjects, NEW v \in Version,
             recv' = [recv EXCEPT ![c][s] = v], recv[c][s] <= v, v <= state[s]
      PROVE  Feed!Deliver(c, s) \/ UNCHANGED feedVars
  <2>1. CASE v = recv[c][s]
    <3>1. recv' = recv
      BY <1>1, <1>6, <2>1 DEF TypeOK, Versions
    <3> QED
      BY <1>5, <3>1
  <2>2. CASE v # recv[c][s]
    <3>1. v \in recv[c][s]+1..state[s]
      <4>1. recv[c][s] \in Nat /\ state[s] \in Nat /\ v \in Nat
        BY <1>1, VersionTypes, MaxVersionNat DEF Version
      <4> QED
        BY <1>6, <2>2, <4>1
    <3> QED
      BY <1>1, <1>3, <1>6, <3>1 DEF Feed!Deliver, openBar
  <2> QED
    BY <2>1, <2>2
<1> QED
  BY <1>4, <1>5, <1>6

(* The end of a session closes it, ...                                     *)
LEMMA DoneCloses ==
  ASSUME IInv, NEW c \in Clients, SessionDone(c)
  PROVE  \E C \in SUBSET openBar : Feed!Close(C)
<1>1. /\ TypeOK /\ Alive /\ Alive' /\ state' = state
      /\ recv' = [recv EXCEPT ![c] = None]
      /\ pc[c] = "removed" /\ pc' = [pc EXCEPT ![c] = "out"]
  BY DEF IInv, SessionDone, Goto, Alive, mainVars
<1>2. {c} \in SUBSET openBar /\ openBar' = openBar \ {c}
  BY <1>1 DEF openBar, TypeOK
<1>3. seenBar' = [d \in Clients |-> IF d \in {c} THEN None ELSE seenBar[d]]
  BY <1>1 DEF seenBar, TypeOK
<1>4. Feed!Close({c})
  BY <1>1, <1>2, <1>3 DEF Feed!Close, Feed!Nothing, openBar, seenBar, None
<1> QED
  BY <1>2, <1>4

(* ... and the end of the process closes them all.                         *)
LEMMA ExitCloses ==
  ASSUME IInv, MainStep, Alive, ~Alive'
  PROVE  \E C \in SUBSET openBar : Feed!Close(C)
<1>1. UNCHANGED <<state, recv>>
  BY MainStepKeeps DEF hubVars, sessionVars
<1>2. openBar' = openBar \ openBar /\ seenBar' = [c \in Clients |-> None]
  BY DEF openBar, seenBar
<1>3. seenBar' = [c \in Clients |-> IF c \in openBar THEN None ELSE seenBar[c]]
  BY <1>2 DEF openBar, seenBar, IInv, Phases
<1>4. PICK C \in SUBSET openBar : C = openBar
  OBVIOUS
<1>5. Feed!Close(C)
  BY <1>1, <1>2, <1>3, <1>4 DEF Feed!Close, Feed!Nothing, openBar, seenBar, None
<1> QED
  BY <1>5

(* Every step of the hub is a step of the abstract feed or a stutter.      *)
LEMMA FeedStep ==
  ASSUME IInv, [Next]_vars
  PROVE  Feed!Next \/ UNCHANGED feedVars
<1> TypeOK
  BY DEF IInv
<1>1. ASSUME NEW s \in Subjects, PublishBegin(s) PROVE Feed!Next
  BY <1>1, PublishUpdates DEF Feed!Next
<1>2. ASSUME Publisher PROVE UNCHANGED feedVars
  BY <1>2, FeedStutters
  DEF Publisher, EnqueueAdd, EnqueueNotify, PublishEnd, hubVars, sessionVars, mainVars
<1>3. ASSUME NEW c \in Clients, Register(c) PROVE Feed!Next
  BY <1>3, RegisterOpens DEF Feed!Next
<1>4. ASSUME NEW c \in Clients, QuietStep(c), ~Register(c) PROVE UNCHANGED feedVars
  BY <1>4, FeedStutters
  DEF QuietStep, Refuse, Disconnect, Accept, Snapshot, Loop, LoopGone, LoopShutdown,
      LoopNotify, Take, CloseDone, Unregister, Goto, TypeOK, hubVars, mainVars
<1>5. ASSUME NEW c \in Clients, Write(c) PROVE Feed!Next \/ UNCHANGED feedVars
  BY <1>5, WriteDelivers DEF Feed!Next
<1>6. ASSUME NEW c \in Clients, SessionDone(c) PROVE Feed!Next
  BY <1>6, DoneCloses DEF Feed!Next, openBar
<1>7. ASSUME MainStep PROVE Feed!Next \/ UNCHANGED feedVars
  <2>1. CASE Alive /\ ~Alive'
    BY <1>7, <2>1, ExitCloses DEF Feed!Next, openBar
  <2>2. CASE Alive = Alive'
    BY <1>7, <2>2, MainStepKeeps DEF feedVars, openBar, seenBar, hubVars, sessionVars
  <2>3. Alive
    BY <1>7
    DEF MainStep, Sigterm, ListenFails, Shutdown, ShutdownReturns, ShutdownTimesOut,
        WaitReturns, DrainReturns, DrainTimesOut, Alive
  <2> QED
    BY <2>1, <2>2, <2>3
<1>8. CASE UNCHANGED vars
  BY <1>8 DEF vars, feedVars, openBar, seenBar, Alive, hubVars, sessionVars, mainVars
<1> QED
  BY <1>1, <1>2, <1>3, <1>4, <1>5, <1>6, <1>7, <1>8
  DEF Next, Session, Leave, QuietStep, MainStep, Terminated

(* wsfeed implements the latest-value feed: a browser only ever sees newer *)
(* values of hub.state while its session is open, and none after it.       *)
THEOREM HubImplementsFeed == Spec => ImplementsFeed
<1>1. Init => Feed!Init
  BY DEF Init, Feed!Init, Feed!Nothing, None, Alive
<1>2. IInv /\ [Next]_vars => [Feed!Next]_(Feed!vars)
  BY FeedStep DEF Feed!vars, feedVars, openBar, seenBar
<1> QED
  BY Invariant, <1>1, <1>2, PTL DEF Spec, ImplementsFeed, Feed!Spec
=============================================================================
