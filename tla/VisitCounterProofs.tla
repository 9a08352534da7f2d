------------------------- MODULE VisitCounterProofs -------------------------
(***************************************************************************)
(* For any finite set of URLs, any cap and any bounds: the counts are the  *)
(* sums over the log read since the start (CountsMatchLog), visit-counts   *)
(* differs from them only for a reason (StaleForAReason), and every        *)
(* variable keeps its type.                                                *)
(*                                                                         *)
(* The cap makes CountsMatchLog more than a sum: that a URL is among the   *)
(* first MaxURLs is decided once, by the size of the map, and stays so     *)
(* because the map is full from the first URL on that was turned away      *)
(* (Full).  StaleForAReason is inductive with what is in flight: the last  *)
(* write of a URL carries its current values unless the URL is due, and if *)
(* none is in flight nor lost, visit-counts has them (Latest).             *)
(***************************************************************************)
EXTENDS VisitCounter, FiniteSetTheorems, WellFoundedInduction, TLAPS

Seen(a, b) == {u \in URLs : Occurrences(u, a, b) # {}}

Full == Seen(from, offset) \subseteq Known \/ Cardinality(Known) >= MaxURLs

Current(u) == [count |-> counts[u], last |-> last[u]]

LastInFlight(u, i) ==
    inflight[i].url = u /\ \A j \in DOMAIN inflight : j > i => inflight[j].url # u

Settled(u) ==
    /\ \A i \in DOMAIN inflight : LastInFlight(u, i) => inflight[i].entry = Current(u)
    /\ (\A i \in DOMAIN inflight : inflight[i].url # u) /\ u \notin lost
          => published[u] = Current(u)

Latest == \A u \in Known \ (dirty \cup todo) : Settled(u)

NothingDue == pc = "reading" => todo = {}

IInv == TypeOK /\ CountsMatchLog /\ Full /\ Latest /\ NothingDue

(***************************************************************************)
(* The log, one record further.                                            *)
(***************************************************************************)
LEMMA OccurrencesFinite ==
  ASSUME NEW u, NEW a \in Nat, NEW b \in Nat
  PROVE  /\ IsFiniteSet(Occurrences(u, a, b))
         /\ Cardinality(Occurrences(u, a, b)) \in 0..b
         /\ Cardinality(Occurrences(u, a, b)) = 0 <=> Occurrences(u, a, b) = {}
<1>1. Occurrences(u, a, b) \subseteq 1..b
  BY DEF Occurrences
<1>2. IsFiniteSet(1..b) /\ Cardinality(1..b) = b
  BY FS_Interval
<1>3. IsFiniteSet(Occurrences(u, a, b))
  BY <1>1, <1>2, FS_Subset
<1>4. Cardinality(Occurrences(u, a, b)) \in Nat
  BY <1>3, FS_CardinalityType
<1>5. Cardinality(Occurrences(u, a, b)) <= b
  BY <1>1, <1>2, FS_Subset
<1> QED
  BY <1>3, <1>4, <1>5, FS_EmptySet

LEMMA TallyType ==
  ASSUME NEW u \in URLs, NEW a \in Nat, NEW b \in Nat
  PROVE  /\ Tally(u, a, b) \in 0..b
         /\ Tally(u, a, b) # 0 <=> u \in Admitted(a, b)
BY OccurrencesFinite DEF Tally, Admitted

LEMMA OneMore ==
  ASSUME NEW u, NEW a \in Nat, NEW b \in Nat, a <= b
  PROVE  Occurrences(u, a, b + 1) =
            IF visits[b + 1] = u THEN Occurrences(u, a, b) \cup {b + 1}
            ELSE Occurrences(u, a, b)
<1>1. a+1..b+1 = (a+1..b) \cup {b + 1}
  OBVIOUS
<1> QED
  BY <1>1 DEF Occurrences

LEMMA OneMoreAtMost ==
  ASSUME NEW u, NEW a \in Nat, NEW b \in Nat, a <= b
  PROVE  /\ Occurrences(u, a, b) \subseteq Occurrences(u, a, b + 1)
         /\ \A j \in Occurrences(u, a, b + 1) : j \in Occurrences(u, a, b) \/ j = b + 1
<1>1. CASE visits[b + 1] = u
  <2>1. Occurrences(u, a, b + 1) = Occurrences(u, a, b) \cup {b + 1}
    BY <1>1, OneMore
  <2> QED
    BY <2>1
<1>2. CASE visits[b + 1] # u
  <2>1. Occurrences(u, a, b + 1) = Occurrences(u, a, b)
    BY <1>2, OneMore
  <2> QED
    BY <2>1
<1> QED
  BY <1>1, <1>2

(* What was decided of a URL stays, however much further the log is read;  *)
(* a URL that has not occurred is earlier than none, and has every other   *)
(* one before it.                                                          *)
LEMMA LaterAdds ==
  ASSUME NEW u, NEW a \in Nat, NEW b \in Nat, NEW c \in Nat, a <= b, b <= c
  PROVE  /\ Occurrences(u, a, b) \subseteq Occurrences(u, a, c)
         /\ \A j \in Occurrences(u, a, c) : j \in Occurrences(u, a, b) \/ j > b
BY DEF Occurrences

LEMMA EarlierStands ==
  ASSUME NEW u \in URLs, NEW a \in Nat, NEW b \in Nat, NEW c \in Nat, a <= b, b <= c,
         Occurrences(u, a, b) # {}
  PROVE  Earlier(u, a, c) = Earlier(u, a, b)
<1>1. PICK i \in Occurrences(u, a, b) : i \in Nat /\ i <= b
  BY DEF Occurrences
<1>2. \A v \in URLs :
        (\E j \in Occurrences(v, a, c) : \A k \in Occurrences(u, a, c) : j < k)
        <=> (\E j \in Occurrences(v, a, b) : \A k \in Occurrences(u, a, b) : j < k)
  <2> SUFFICES ASSUME NEW v \in URLs
               PROVE  (\E j \in Occurrences(v, a, c) :
                            \A k \in Occurrences(u, a, c) : j < k)
                      <=> (\E j \in Occurrences(v, a, b) :
                            \A k \in Occurrences(u, a, b) : j < k)
    OBVIOUS
  <2>1. /\ Occurrences(v, a, b) \subseteq Occurrences(v, a, c)
        /\ \A j \in Occurrences(v, a, c) : j \in Occurrences(v, a, b) \/ j > b
        /\ Occurrences(u, a, b) \subseteq Occurrences(u, a, c)
        /\ \A k \in Occurrences(u, a, c) : k \in Occurrences(u, a, b) \/ k > b
    BY LaterAdds
  <2>2. /\ \A j \in Occurrences(v, a, b) : j \in Nat /\ j <= b
        /\ \A j \in Occurrences(v, a, c) : j \in Nat
        /\ \A j \in Occurrences(u, a, c) : j \in Nat
    BY DEF Occurrences
  <2> QED
    BY <1>1, <2>1, <2>2
<1> QED
  BY <1>2 DEF Earlier

LEMMA AdmissionStands ==
  ASSUME NEW u \in URLs, NEW a \in Nat, NEW b \in Nat, NEW c \in Nat, a <= b, b <= c,
         Occurrences(u, a, b) # {}
  PROVE  u \in Admitted(a, c) <=> u \in Admitted(a, b)
BY EarlierStands, LaterAdds DEF Admitted

(* A tally never falls when the log is read further.                       *)
LEMMA TallyGrows ==
  ASSUME NEW u \in URLs, NEW a \in Nat, NEW b \in Nat, NEW c \in Nat, a <= b, b <= c
  PROVE  Tally(u, a, b) <= Tally(u, a, c)
<1>1. Tally(u, a, c) \in Nat
  BY TallyType
<1>2. CASE u \notin Admitted(a, b)
  BY <1>1, <1>2 DEF Tally
<1>3. CASE u \in Admitted(a, b)
  <2>1. u \in Admitted(a, c)
    BY <1>3, AdmissionStands DEF Admitted
  <2>2. Cardinality(Occurrences(u, a, b)) <= Cardinality(Occurrences(u, a, c))
    BY LaterAdds, OccurrencesFinite, FS_Subset
  <2> QED
    BY <1>3, <2>1, <2>2 DEF Tally
<1> QED
  BY <1>2, <1>3

LEMMA NewComesLast ==
  ASSUME NEW u \in URLs, NEW a \in Nat, NEW b \in Nat, a <= b,
         Occurrences(u, a, b) = {}, visits[b + 1] = u
  PROVE  Earlier(u, a, b + 1) = Seen(a, b)
<1>1. Occurrences(u, a, b + 1) = {b + 1}
  BY OneMore
<1>2. \A v \in URLs : (\E j \in Occurrences(v, a, b + 1) : j < b + 1)
                      <=> Occurrences(v, a, b) # {}
  <2> SUFFICES ASSUME NEW v \in URLs
               PROVE  (\E j \in Occurrences(v, a, b + 1) : j < b + 1)
                      <=> Occurrences(v, a, b) # {}
    OBVIOUS
  <2>1. /\ Occurrences(v, a, b) \subseteq Occurrences(v, a, b + 1)
        /\ \A j \in Occurrences(v, a, b + 1) : j \in Occurrences(v, a, b) \/ j = b + 1
    BY OneMoreAtMost
  <2>2. \A j \in Occurrences(v, a, b) : j \in Nat /\ j < b + 1
    BY DEF Occurrences
  <2> QED
    BY <2>1, <2>2
<1> QED
  BY <1>1, <1>2 DEF Earlier, Seen

LEMMA KnownFinite ==
  ASSUME NEW S \in SUBSET URLs
  PROVE  IsFiniteSet(S) /\ Cardinality(S) \in Nat
BY URLsFinite, FS_Subset, FS_CardinalityType

LEMMA MoreIsLarger ==
  ASSUME NEW S \in SUBSET URLs, NEW T \in SUBSET S
  PROVE  Cardinality(T) <= Cardinality(S)
BY KnownFinite, FS_Subset

(***************************************************************************)
(* Reading one record.                                                     *)
(***************************************************************************)
LEMMA KnownIsAdmitted ==
  ASSUME TypeOK, CountsMatchLog
  PROVE  /\ from \in Nat /\ offset \in Nat /\ from <= offset
         /\ Known = Admitted(from, offset)
         /\ Known \subseteq Seen(from, offset)
<1>1. from \in Nat /\ offset \in Nat /\ from <= offset
  BY DEF TypeOK
<1>2. \A u \in URLs : counts[u] # 0 <=> u \in Admitted(from, offset)
  BY <1>1, TallyType DEF CountsMatchLog
<1>3. Known = Admitted(from, offset)
  BY <1>2 DEF Known, Admitted
<1> QED
  BY <1>1, <1>3 DEF Admitted, Seen

(* The record is skipped exactly if it adds nothing to the tallies.        *)
LEMMA SkippedAddsNothing ==
  ASSUME TypeOK, CountsMatchLog, Full, Skipped(visits[offset + 1])
  PROVE  /\ \A u \in URLs : Tally(u, from, offset + 1) = Tally(u, from, offset)
         /\ \A u \in Known :
              Occurrences(u, from, offset + 1) = Occurrences(u, from, offset)
         /\ Seen(from, offset + 1) \subseteq Known \/ Cardinality(Known) >= MaxURLs
<1> DEFINE e == visits[offset + 1]
<1>1. from \in Nat /\ offset \in Nat /\ from <= offset
      /\ Known = Admitted(from, offset) /\ Known \subseteq Seen(from, offset)
  BY KnownIsAdmitted
<1>2. e \notin Known
  BY UnusableIsNoURL DEF Skipped, Known
<1>3. \A u \in URLs : u # e =>
        Occurrences(u, from, offset + 1) = Occurrences(u, from, offset)
  BY <1>1, OneMore
<1>4. \A u \in URLs : u \in Admitted(from, offset + 1) <=> u \in Admitted(from, offset)
  <2> SUFFICES ASSUME NEW u \in URLs
               PROVE  u \in Admitted(from, offset + 1) <=> u \in Admitted(from, offset)
    OBVIOUS
  <2>1. CASE Occurrences(u, from, offset) # {}
    BY <1>1, <2>1, AdmissionStands
  <2>2. CASE Occurrences(u, from, offset) = {} /\ u # e
    BY <1>3, <2>2 DEF Admitted
  <2>3. CASE Occurrences(u, from, offset) = {} /\ u = e
    <3>1. Cardinality(Known) >= MaxURLs
      BY <2>3, UnusableIsNoURL DEF Skipped
    <3>2. Earlier(e, from, offset + 1) = Seen(from, offset)
      BY <1>1, <2>3, NewComesLast
    <3>3. Seen(from, offset) \in SUBSET URLs
      BY DEF Seen
    <3>4. Cardinality(Known) <= Cardinality(Seen(from, offset))
      BY <1>1, <3>3, MoreIsLarger
    <3>5. Cardinality(Known) \in Nat /\ Cardinality(Seen(from, offset)) \in Nat
      BY <3>3, KnownFinite DEF Known
    <3>6. ~(Cardinality(Earlier(e, from, offset + 1)) < MaxURLs)
      BY <3>1, <3>2, <3>4, <3>5, BoundsAreNat
    <3> QED
      BY <2>3, <3>6 DEF Admitted
  <2> QED
    BY <2>1, <2>2, <2>3
<1>5. \A u \in URLs : Tally(u, from, offset + 1) = Tally(u, from, offset)
  <2> SUFFICES ASSUME NEW u \in URLs
               PROVE  Tally(u, from, offset + 1) = Tally(u, from, offset)
    OBVIOUS
  <2>1. CASE u = e
    BY <1>1, <1>2, <1>4, <2>1 DEF Tally
  <2>2. CASE u # e
    BY <1>3, <1>4, <2>2 DEF Tally
  <2> QED
    BY <2>1, <2>2
<1>6. Seen(from, offset + 1) \subseteq Known \/ Cardinality(Known) >= MaxURLs
  <2>1. CASE e = Unusable
    <3>1. Seen(from, offset + 1) = Seen(from, offset)
      BY <1>3, <2>1, UnusableIsNoURL DEF Seen
    <3> QED
      BY <3>1 DEF Full
  <2>2. CASE e # Unusable
    BY <2>2 DEF Skipped
  <2> QED
    BY <2>1, <2>2
<1>7. \A u \in Known : u \in URLs /\ u # e
  BY <1>2 DEF Known
<1> QED
  BY <1>3, <1>5, <1>6, <1>7

LEMMA CountAddsOne ==
  ASSUME TypeOK, CountsMatchLog, Full, offset < Len(visits),
         ~Skipped(visits[offset + 1])
  PROVE  /\ visits[offset + 1] \in URLs
         /\ \A u \in URLs : Tally(u, from, offset + 1) =
              IF u = visits[offset + 1] THEN Tally(u, from, offset) + 1
              ELSE Tally(u, from, offset)
         /\ Seen(from, offset + 1) \subseteq Known \cup {visits[offset + 1]}
              \/ Cardinality(Known) >= MaxURLs
<1> DEFINE e == visits[offset + 1]
<1>1. from \in Nat /\ offset \in Nat /\ from <= offset
      /\ Known = Admitted(from, offset) /\ Known \subseteq Seen(from, offset)
  BY KnownIsAdmitted
<1>2. e \in URLs
  BY DEF TypeOK, Events, Skipped
<1>3. \A u \in URLs : u # e =>
        Occurrences(u, from, offset + 1) = Occurrences(u, from, offset)
  BY <1>1, OneMore
<1>4. Occurrences(e, from, offset + 1) = Occurrences(e, from, offset) \cup {offset + 1}
  BY <1>1, OneMore
<1>5. \A u \in URLs : u # e =>
        (u \in Admitted(from, offset + 1) <=> u \in Admitted(from, offset))
  <2> SUFFICES ASSUME NEW u \in URLs, u # e
               PROVE  u \in Admitted(from, offset + 1) <=> u \in Admitted(from, offset)
    OBVIOUS
  <2>1. CASE Occurrences(u, from, offset) # {}
    BY <1>1, <2>1, AdmissionStands
  <2>2. CASE Occurrences(u, from, offset) = {}
    BY <1>3, <2>2 DEF Admitted
  <2> QED
    BY <2>1, <2>2
<1>6. e \in Admitted(from, offset + 1)
      /\ (e \in Admitted(from, offset) \/ Occurrences(e, from, offset) = {})
  <2>1. CASE e \in Known
    <3>1. Occurrences(e, from, offset) # {}
      BY <1>1, <2>1 DEF Seen
    <3> QED
      BY <1>1, <1>2, <2>1, <3>1, AdmissionStands
  <2>2. CASE e \notin Known
    <3>1. ~(Cardinality(Known) >= MaxURLs) /\ Cardinality(Known) \in Nat
      BY <2>2, KnownFinite DEF Skipped, Known
    <3>2. Seen(from, offset) = Known
      BY <1>1, <3>1 DEF Full
    <3>3. Occurrences(e, from, offset) = {}
      BY <1>2, <2>2, <3>2 DEF Seen
    <3>4. Earlier(e, from, offset + 1) = Known
      BY <1>1, <1>2, <3>2, <3>3, NewComesLast
    <3>5. Cardinality(Earlier(e, from, offset + 1)) < MaxURLs
      BY <3>1, <3>4, BoundsAreNat
    <3>6. Occurrences(e, from, offset + 1) # {}
      BY <1>4
    <3> QED
      BY <1>2, <3>3, <3>5, <3>6 DEF Admitted
  <2> QED
    BY <2>1, <2>2
<1>7. Cardinality(Occurrences(e, from, offset + 1)) =
        Cardinality(Occurrences(e, from, offset)) + 1
  <2>1. offset + 1 \notin Occurrences(e, from, offset)
    BY <1>1 DEF Occurrences
  <2> QED
    BY <1>1, <1>4, <2>1, OccurrencesFinite, FS_AddElement
<1>8. Tally(e, from, offset + 1) = Tally(e, from, offset) + 1
  <2>1. Tally(e, from, offset) = Cardinality(Occurrences(e, from, offset))
    BY <1>1, <1>6, OccurrencesFinite DEF Tally
  <2> QED
    BY <1>6, <1>7, <2>1 DEF Tally
<1>9. \A u \in URLs : u # e => Tally(u, from, offset + 1) = Tally(u, from, offset)
  BY <1>3, <1>5 DEF Tally
<1>10. Seen(from, offset + 1) \subseteq Seen(from, offset) \cup {e}
  BY <1>3 DEF Seen
<1> QED
  BY <1>2, <1>8, <1>9, <1>10 DEF Full

(* What one Read does, whichever of its four cases it is.                  *)
LEMMA ReadCases ==
  ASSUME TypeOK, NothingDue, Read
  PROVE  /\ offset < Len(visits) /\ offset' = offset + 1
         /\ UNCHANGED <<visits, start, published, inflight, lost, from, crashes>>
         /\ watermark' \in offset+1..Len(visits)
         /\ dirty' \subseteq URLs /\ todo' \subseteq URLs /\ replaying' \in BOOLEAN
         /\ pc' \in {"reading", "publishing", "awaiting"} /\ NothingDue'
         /\ \/ /\ Skipped(visits[offset + 1])
               /\ counts' = counts /\ last' = last
               /\ dirty' \cup todo' = dirty \cup todo
            \/ /\ ~Skipped(visits[offset + 1])
               /\ counts' = [counts EXCEPT ![visits[offset + 1]] = @ + 1]
               /\ last' = [last EXCEPT ![visits[offset + 1]] = offset + 1]
               /\ dirty' \cup todo' = dirty \cup todo \cup {visits[offset + 1]}
<1> DEFINE e == visits[offset + 1]
<1>1. /\ offset < Len(visits) /\ offset' = offset + 1
      /\ UNCHANGED <<visits, start, published, inflight, lost, from, crashes>>
      /\ pc = "reading"
  BY DEF Read, NextOffset, kafkaVars
<1>2. todo = {}
  BY <1>1 DEF NothingDue
<1>3. PICK w \in watermark..Len(visits) :
         /\ w > offset
         /\ watermark' = w
         /\ Skip \/ Accumulate(w) \/ EndReplay(w) \/ CountLive
  BY DEF Read
<1>4. watermark' \in offset+1..Len(visits)
  BY <1>3 DEF TypeOK
<1>5. ~Skipped(e) => e \in URLs
  BY <1>1 DEF TypeOK, Events, Skipped
<1>6. CASE Skip
  BY <1>1, <1>2, <1>4, <1>6 DEF Skip, countVars, loopVars, NothingDue, TypeOK
<1>7. CASE Accumulate(w)
  BY <1>1, <1>2, <1>4, <1>5, <1>7 DEF Accumulate, Count, NothingDue, TypeOK
<1>8. CASE EndReplay(w)
  BY <1>1, <1>2, <1>4, <1>5, <1>8 DEF EndReplay, Count, NothingDue, TypeOK
<1>9. CASE CountLive
  BY <1>1, <1>2, <1>4, <1>5, <1>9 DEF CountLive, Count, NothingDue, TypeOK
<1> QED
  BY <1>3, <1>6, <1>7, <1>8, <1>9

(* Reading one record keeps the counts equal to the tallies.               *)
LEMMA ReadKeepsCounts ==
  ASSUME TypeOK, CountsMatchLog, Full, NothingDue, Read
  PROVE  /\ counts' \in [URLs -> 0..MaxVisits]
         /\ last' \in [URLs -> 0..MaxVisits]
         /\ (CountsMatchLog /\ Full)'
<1> DEFINE e == visits[offset + 1]
<1>1. /\ from \in Nat /\ offset \in Nat /\ from <= offset /\ offset + 1 <= MaxVisits
      /\ MaxVisits \in Nat /\ from' = from /\ visits' = visits /\ offset' = offset + 1
      /\ offset < Len(visits)
      /\ counts \in [URLs -> 0..MaxVisits] /\ last \in [URLs -> 0..MaxVisits]
  BY ReadCases, BoundsAreNat DEF TypeOK
<1>2. \A u \in URLs : Occurrences(u, from, offset)' = Occurrences(u, from, offset + 1)
  BY <1>1 DEF Occurrences
<1>3. \A u \in URLs : Tally(u, from, offset)' = Tally(u, from, offset + 1)
  BY <1>1 DEF Tally, Admitted, Earlier, Occurrences
<1>4. Seen(from, offset)' = Seen(from, offset + 1)
  BY <1>2 DEF Seen
<1>5. CASE Skipped(e) /\ counts' = counts /\ last' = last
  <2>1. /\ \A u \in URLs : Tally(u, from, offset + 1) = Tally(u, from, offset)
        /\ \A u \in Known :
             Occurrences(u, from, offset + 1) = Occurrences(u, from, offset)
        /\ Seen(from, offset + 1) \subseteq Known \/ Cardinality(Known) >= MaxURLs
    BY <1>5, SkippedAddsNothing
  <2>2. Known' = Known
    BY <1>5 DEF Known
  <2>3. Full'
    BY <1>4, <2>1, <2>2 DEF Full
  <2>4. CountsMatchLog'
    <3> SUFFICES ASSUME NEW u \in URLs
                 PROVE  /\ counts'[u] = Tally(u, from, offset)'
                        /\ counts'[u] # 0 =>
                              /\ last'[u] \in Occurrences(u, from, offset)'
                              /\ \A i \in Occurrences(u, from, offset)' : i <= last'[u]
      BY DEF CountsMatchLog
    <3>1. counts[u] # 0 => u \in Known
      BY DEF Known
    <3> QED
      BY <1>2, <1>3, <1>5, <2>1, <3>1 DEF CountsMatchLog
  <2> QED
    BY <1>1, <1>5, <2>3, <2>4
<1>6. CASE /\ ~Skipped(e)
           /\ counts' = [counts EXCEPT ![e] = @ + 1]
           /\ last' = [last EXCEPT ![e] = offset + 1]
  <2>1. /\ e \in URLs
        /\ \A u \in URLs : Tally(u, from, offset + 1) =
             IF u = e THEN Tally(u, from, offset) + 1 ELSE Tally(u, from, offset)
        /\ Seen(from, offset + 1) \subseteq Known \cup {e} \/ Cardinality(Known) >= MaxURLs
    BY <1>1, <1>6, CountAddsOne
  <2>2. /\ counts'[e] = counts[e] + 1 /\ last'[e] = offset + 1
        /\ \A u \in URLs : u # e => counts'[u] = counts[u] /\ last'[u] = last[u]
    BY <1>1, <1>6, <2>1
  <2>3. \A u \in URLs : counts'[u] = Tally(u, from, offset + 1)
    BY <2>1, <2>2 DEF CountsMatchLog
  <2>4. \A u \in URLs : counts'[u] \in 0..MaxVisits /\ last'[u] \in 0..MaxVisits
    <3> SUFFICES ASSUME NEW u \in URLs
                 PROVE  counts'[u] \in 0..MaxVisits /\ last'[u] \in 0..MaxVisits
      OBVIOUS
    <3> DEFINE b == offset + 1
    <3>0. b \in Nat
      BY <1>1
    <3> HIDE DEF b
    <3>1. Tally(u, from, b) \in 0..b
      BY <1>1, <3>0, TallyType
    <3> USE DEF b
    <3>2. last'[u] = offset + 1 \/ last'[u] = last[u]
      BY <2>2
    <3> QED
      BY <1>1, <2>3, <3>1, <3>2
  <2>5. counts' \in [URLs -> 0..MaxVisits] /\ last' \in [URLs -> 0..MaxVisits]
    BY <1>1, <1>6, <2>4
  <2>6. Known' = Known \cup {e}
    BY <1>1, <2>1, <2>2 DEF Known
  <2>7. Full'
    <3>1. CASE Seen(from, offset + 1) \subseteq Known \cup {e}
      BY <1>4, <2>6, <3>1 DEF Full
    <3>2. CASE Cardinality(Known) >= MaxURLs
      <4>1. Cardinality(Known) <= Cardinality(Known \cup {e})
        BY <2>1, MoreIsLarger DEF Known
      <4>2. Cardinality(Known) \in Nat /\ Cardinality(Known \cup {e}) \in Nat
        BY <2>1, KnownFinite DEF Known
      <4>3. Cardinality(Known') >= MaxURLs
        BY <2>6, <3>2, <4>1, <4>2, BoundsAreNat
      <4> QED
        BY <4>3 DEF Full
    <3> QED
      BY <2>1, <3>1, <3>2
  <2>8. CountsMatchLog'
    <3> SUFFICES ASSUME NEW u \in URLs
                 PROVE  /\ counts'[u] = Tally(u, from, offset)'
                        /\ counts'[u] # 0 =>
                              /\ last'[u] \in Occurrences(u, from, offset)'
                              /\ \A i \in Occurrences(u, from, offset)' : i <= last'[u]
      BY DEF CountsMatchLog
    <3>1. counts'[u] = Tally(u, from, offset)'
      BY <1>3, <2>3
    <3>2. CASE u = e
      <4>1. Occurrences(u, from, offset)' = Occurrences(u, from, offset) \cup {offset + 1}
        BY <1>1, <1>2, <3>2, OneMore
      <4>2. \A i \in Occurrences(u, from, offset) : i <= offset + 1
        BY <1>1 DEF Occurrences
      <4> QED
        BY <1>1, <2>2, <3>1, <3>2, <4>1, <4>2
    <3>3. CASE u # e
      <4>1. Occurrences(u, from, offset)' = Occurrences(u, from, offset)
        BY <1>1, <1>2, <3>3, OneMore
      <4> QED
        BY <2>2, <3>1, <3>3, <4>1 DEF CountsMatchLog
    <3> QED
      BY <3>2, <3>3
  <2> QED
    BY <2>5, <2>7, <2>8
<1> QED
  BY <1>5, <1>6, ReadCases

(* The counts look at no record that is read later.                        *)
LEMMA AppendKeepsCounts ==
  ASSUME TypeOK, CountsMatchLog, Full, NEW e \in Events, visits' = Append(visits, e),
         UNCHANGED <<from, offset, countVars>>
  PROVE  (CountsMatchLog /\ Full)'
<1>1. \A i \in 1..offset : visits'[i] = visits[i]
  BY DEF TypeOK
<1>2. from \in Nat /\ offset \in Nat /\ from' = from /\ offset' = offset
  BY DEF TypeOK
<1>3. \A u : Occurrences(u, from, offset)' = Occurrences(u, from, offset)
  <2> SUFFICES ASSUME NEW u PROVE Occurrences(u, from, offset)' = Occurrences(u, from, offset)
    OBVIOUS
  <2>1. \A i \in from+1..offset : i \in 1..offset
    BY <1>2
  <2>2. \A i \in from+1..offset : visits'[i] = visits[i]
    BY ONLY <1>1, <2>1
  <2> QED
    BY <1>2, <2>2 DEF Occurrences
<1>4. \A u \in URLs : Earlier(u, from, offset)' = Earlier(u, from, offset)
  BY <1>3 DEF Earlier
<1>5. Admitted(from, offset)' = Admitted(from, offset)
  BY <1>3, <1>4 DEF Admitted
<1>6. \A u \in URLs : Tally(u, from, offset)' = Tally(u, from, offset)
  BY <1>3, <1>5 DEF Tally
<1>7. Seen(from, offset)' = Seen(from, offset) /\ Known' = Known
  BY <1>3 DEF Seen, Known, countVars
<1> QED
  BY <1>3, <1>6, <1>7 DEF CountsMatchLog, Full, countVars

LEMMA SameKeepsCounts ==
  ASSUME TypeOK, CountsMatchLog, Full, UNCHANGED <<visits, from, offset, countVars>>
  PROVE  (CountsMatchLog /\ Full)'
<1>1. \A u : Occurrences(u, from, offset)' = Occurrences(u, from, offset)
  BY DEF Occurrences
<1>2. \A u \in URLs : Tally(u, from, offset)' = Tally(u, from, offset)
  BY <1>1 DEF Tally, Admitted, Earlier
<1>3. Seen(from, offset)' = Seen(from, offset) /\ Known' = Known
  BY <1>1 DEF Seen, Known, countVars
<1> QED
  BY <1>1, <1>2, <1>3 DEF CountsMatchLog, Full, countVars

(* Where nothing has been read, nothing has been counted.                  *)
LEMMA FreshCounts ==
  ASSUME from \in Nat, offset = from, counts = [u \in URLs |-> 0]
  PROVE  CountsMatchLog /\ Full
<1>1. \A u : Occurrences(u, from, offset) = {}
  BY DEF Occurrences
<1>2. \A u \in URLs : Tally(u, from, offset) = 0
  BY <1>1 DEF Tally, Admitted
<1>3. Seen(from, offset) = {}
  BY <1>1 DEF Seen
<1> QED
  BY <1>2, <1>3 DEF CountsMatchLog, Full

(***************************************************************************)
(* The writes in flight.                                                   *)
(***************************************************************************)
LEMMA NothingWrittenKeepsLatest ==
  ASSUME TypeOK, Latest, UNCHANGED <<published, inflight, lost, countVars>>,
         dirty \cup todo \subseteq dirty' \cup todo'
  PROVE  Latest'
<1> SUFFICES ASSUME NEW u \in (Known \ (dirty \cup todo))'
             PROVE  Settled(u)'
  BY DEF Latest
<1>1. Settled(u)
  BY DEF Latest, Known, countVars
<1> QED
  BY <1>1 DEF Settled, LastInFlight, Current, countVars

(* A record that is counted makes its URL due.                             *)
LEMMA ReadKeepsLatest ==
  ASSUME TypeOK, NothingDue, Latest, Read
  PROVE  Latest'
<1> DEFINE e == visits[offset + 1]
<1>1. CASE counts' = counts /\ last' = last /\ dirty' \cup todo' = dirty \cup todo
  BY <1>1, ReadCases, NothingWrittenKeepsLatest DEF countVars
<1>2. CASE /\ counts' = [counts EXCEPT ![e] = @ + 1]
           /\ last' = [last EXCEPT ![e] = offset + 1]
           /\ dirty' \cup todo' = dirty \cup todo \cup {e}
  <2> SUFFICES ASSUME NEW u \in (Known \ (dirty \cup todo))'
               PROVE  Settled(u)'
    BY DEF Latest
  <2>1. u \in URLs /\ u # e /\ u \notin dirty \cup todo
    BY <1>2 DEF Known
  <2>2. counts'[u] = counts[u] /\ last'[u] = last[u]
    BY <1>2, <2>1 DEF TypeOK
  <2>3. Settled(u)
    BY <2>1, <2>2 DEF Latest, Known
  <2> QED
    BY <2>2, <2>3, ReadCases DEF Settled, LastInFlight, Current
<1> QED
  BY <1>1, <1>2, ReadCases

LEMMA InflightTyped ==
  ASSUME TypeOK
  PROVE  /\ DOMAIN inflight = 1..Len(inflight) /\ Len(inflight) \in Nat
         /\ \A i \in DOMAIN inflight : /\ inflight[i] \in [url : URLs, entry : Entry]
                                      /\ inflight[i].url \in URLs
<1> DEFINE R == [url : URLs, entry : Entry]
<1>1. inflight \in Seq(R)
  BY DEF TypeOK
<1> HIDE DEF R
<1>2. /\ DOMAIN inflight = 1..Len(inflight) /\ Len(inflight) \in Nat
      /\ \A i \in DOMAIN inflight : inflight[i] \in R
  BY <1>1
<1> QED
  BY <1>2 DEF R

LEMMA TailOfInflight ==
  ASSUME TypeOK, inflight # <<>>, inflight' = Tail(inflight)
  PROVE  /\ inflight' \in Seq([url : URLs, entry : Entry])
         /\ 1 \in DOMAIN inflight /\ Head(inflight) = inflight[1]
         /\ Head(inflight) \in [url : URLs, entry : Entry]
         /\ DOMAIN inflight = 1..Len(inflight) /\ Len(inflight) \in Nat
         /\ DOMAIN inflight' = 1..Len(inflight) - 1
         /\ \A i \in DOMAIN inflight' :
              i + 1 \in DOMAIN inflight /\ inflight'[i] = inflight[i + 1]
         /\ \A j \in DOMAIN inflight : j = 1 \/ j - 1 \in DOMAIN inflight'
<1> DEFINE R == [url : URLs, entry : Entry]
<1>1. inflight \in Seq(R)
  BY DEF TypeOK
<1> HIDE DEF R
<1>2. /\ inflight' \in Seq(R) /\ Head(inflight) \in R
      /\ Head(inflight) = inflight[1]
  BY <1>1
<1>3. /\ Len(inflight) \in Nat /\ Len(inflight) > 0
      /\ DOMAIN inflight = 1..Len(inflight)
      /\ Len(inflight') = Len(inflight) - 1
      /\ DOMAIN inflight' = 1..Len(inflight')
  BY <1>1, <1>2
<1>4. \A i \in 1..Len(inflight) - 1 : inflight'[i] = inflight[i + 1]
  BY <1>1, <1>3
<1>5. /\ \A i \in 1..Len(inflight) - 1 : i + 1 \in 1..Len(inflight)
      /\ \A j \in 1..Len(inflight) : j = 1 \/ j - 1 \in 1..Len(inflight) - 1
  BY <1>3
<1> QED
  BY <1>2, <1>3, <1>4, <1>5 DEF R

(* The head landed, or failed and is remembered as lost.                   *)
LEMMA ShiftKeepsLatest ==
  ASSUME TypeOK, Latest, Land \/ Fail
  PROVE  Latest'
<1> SUFFICES ASSUME NEW u \in (Known \ (dirty \cup todo))'
             PROVE  Settled(u)'
  BY DEF Latest
<1> DEFINE h == Head(inflight)
<1>1. /\ inflight # <<>> /\ inflight' = Tail(inflight)
      /\ counts' = counts /\ last' = last /\ dirty' = dirty /\ todo' = todo
  BY DEF Land, Fail, countVars, loopVars
<1>2. /\ 1 \in DOMAIN inflight /\ h = inflight[1] /\ h \in [url : URLs, entry : Entry]
      /\ DOMAIN inflight = 1..Len(inflight) /\ Len(inflight) \in Nat
      /\ DOMAIN inflight' = 1..Len(inflight) - 1
      /\ \A i \in DOMAIN inflight' :
           i + 1 \in DOMAIN inflight /\ inflight'[i] = inflight[i + 1]
      /\ \A j \in DOMAIN inflight : j = 1 \/ j - 1 \in DOMAIN inflight'
  BY <1>1, TailOfInflight
<1>3. u \in URLs /\ Settled(u) /\ Current(u)' = Current(u)
  BY <1>1 DEF Latest, Known, Current
<1>4. ASSUME NEW i \in DOMAIN inflight', LastInFlight(u, i)'
      PROVE  inflight'[i].entry = Current(u)
  <2>1. i \in Nat /\ i + 1 \in DOMAIN inflight /\ inflight[i + 1].url = u
    BY <1>2, <1>4 DEF LastInFlight
  <2>2. ASSUME NEW j \in DOMAIN inflight, j > i + 1 PROVE inflight[j].url # u
    <3>1. j \in Nat /\ j # 1
      BY <1>2, <2>1, <2>2
    <3>2. j - 1 \in DOMAIN inflight' /\ j - 1 > i
      BY <1>2, <2>1, <2>2, <3>1
    <3>3. inflight'[j - 1].url # u
      BY <1>4, <3>2 DEF LastInFlight
    <3>4. inflight'[j - 1] = inflight[(j - 1) + 1] /\ (j - 1) + 1 = j
      BY <1>2, <3>1, <3>2
    <3> QED
      BY <3>3, <3>4
  <2>3. LastInFlight(u, i + 1)
    BY <2>1, <2>2 DEF LastInFlight
  <2> QED
    BY <1>2, <1>3, <2>1, <2>3 DEF Settled
<1>5. ASSUME \A i \in DOMAIN inflight' : inflight'[i].url # u, u \notin lost'
      PROVE  published'[u] = Current(u)
  <2>1. \A j \in DOMAIN inflight : j > 1 => inflight[j].url # u
    <3> SUFFICES ASSUME NEW j \in DOMAIN inflight, j > 1 PROVE inflight[j].url # u
      OBVIOUS
    <3>1. j \in Nat /\ j # 1 /\ j - 1 \in DOMAIN inflight'
      BY <1>2
    <3>2. inflight'[j - 1] = inflight[(j - 1) + 1] /\ (j - 1) + 1 = j
      BY <1>2, <3>1
    <3> QED
      BY <1>5, <3>1, <3>2
  <2>2. CASE h.url = u
    <3>1. LastInFlight(u, 1)
      BY <1>2, <2>1, <2>2 DEF LastInFlight
    <3>2. h.entry = Current(u)
      BY <1>2, <1>3, <3>1 DEF Settled
    <3>3. Land
      BY <1>5, <2>2 DEF Fail
    <3> QED
      BY <1>3, <2>2, <3>2, <3>3 DEF Land, TypeOK
  <2>3. CASE h.url # u
    <3>1. \A j \in DOMAIN inflight : inflight[j].url # u
      BY <1>2, <2>1, <2>3
    <3>2. u \notin lost /\ published'[u] = published[u]
      BY <1>3, <1>5, <2>3 DEF Land, Fail, TypeOK
    <3> QED
      BY <1>3, <3>1, <3>2 DEF Settled
  <2> QED
    BY <2>2, <2>3
<1> QED
  BY <1>3, <1>4, <1>5 DEF Settled

(* A publish writes the current values, behind every write in flight.      *)
LEMMA PublishKeepsLatest ==
  ASSUME TypeOK, Latest, NEW v \in URLs, Publish(v)
  PROVE  Latest'
<1> SUFFICES ASSUME NEW u \in (Known \ (dirty \cup todo))'
             PROVE  Settled(u)'
  BY DEF Latest
<1> DEFINE n == Len(inflight)
           r == [url |-> v, entry |-> Current(v)]
<1>1. /\ inflight' = Append(inflight, r) /\ todo' = todo \ {v}
      /\ counts' = counts /\ last' = last /\ dirty' = dirty
      /\ published' = published /\ lost' = lost
  BY DEF Publish, Current, countVars
<1>2. r.url = v /\ r.entry = Current(v)
  OBVIOUS
<1> HIDE DEF r
<1>3. /\ n \in Nat /\ DOMAIN inflight = 1..n /\ DOMAIN inflight' = 1..n+1
      /\ inflight'[n + 1] = r
      /\ \A i \in 1..n : inflight'[i] = inflight[i]
  BY <1>1 DEF TypeOK
<1> HIDE DEF n
<1>4. u \in URLs /\ u \in Known /\ Current(u)' = Current(u)
  BY <1>1 DEF Known, Current
<1>5. CASE u = v
  <2>1. ASSUME NEW i \in DOMAIN inflight', LastInFlight(u, i)'
        PROVE  inflight'[i].entry = Current(u)
    <3>1. i = n + 1
      BY <1>2, <1>3, <1>5, <2>1 DEF LastInFlight
    <3> QED
      BY <1>2, <1>3, <1>5, <3>1
  <2>2. n + 1 \in DOMAIN inflight' /\ inflight'[n + 1].url = u
    BY <1>2, <1>3, <1>5
  <2> QED
    BY <1>4, <2>1, <2>2 DEF Settled
<1>6. CASE u # v
  <2>1. Settled(u)
    BY <1>1, <1>4, <1>6 DEF Latest
  <2>2. ASSUME NEW i \in DOMAIN inflight', LastInFlight(u, i)'
        PROVE  inflight'[i].entry = Current(u)
    <3>1. i \in 1..n
      BY <1>2, <1>3, <1>6, <2>2 DEF LastInFlight
    <3>2. LastInFlight(u, i)
      BY <1>3, <2>2, <3>1 DEF LastInFlight
    <3> QED
      BY <1>3, <2>1, <3>1, <3>2 DEF Settled
  <2>3. (\A i \in DOMAIN inflight' : inflight'[i].url # u)
          => \A i \in DOMAIN inflight : inflight[i].url # u
    BY <1>3
  <2> QED
    BY <1>1, <1>4, <2>1, <2>2, <2>3 DEF Settled
<1> QED
  BY <1>5, <1>6

(***************************************************************************)
(* The invariant.                                                          *)
(***************************************************************************)
LEMMA InitEstablishes == Init => IInv
<1> SUFFICES ASSUME Init PROVE IInv
  OBVIOUS
<1>1. TypeOK
  BY BoundsAreNat DEF Init, TypeOK, Entry, NoEntry, Events
<1>2. CountsMatchLog /\ Full
  BY FreshCounts DEF Init
<1>3. Latest /\ NothingDue
  BY DEF Init, Latest, NothingDue, Known
<1> QED
  BY <1>1, <1>2, <1>3 DEF IInv

(* A restart forgets everything that could disagree.                       *)
LEMMA RestartEstablishes ==
  ASSUME TypeOK, Restart
  PROVE  IInv'
<1>1. TypeOK'
  <2>1. {inflight[i].url : i \in DOMAIN inflight} \subseteq URLs
    BY InflightTyped
  <2>2. start' \in 0..Len(visits') /\ from' \in 0..start' /\ offset' \in start'..Len(visits')
        /\ watermark' \in offset'..Len(visits')
    BY DEF Restart, TypeOK
  <2> QED
    BY <2>1, <2>2, BoundsAreNat DEF Restart, TypeOK, ReplayAtStart
<1>2. from' \in Nat /\ offset' = from' /\ counts' = [u \in URLs |-> 0]
  BY DEF Restart, TypeOK
<1>3. CountsMatchLog' /\ Full'
  <2>1. \A u : Occurrences(u, from, offset)' = {}
    BY <1>2 DEF Occurrences
  <2>2. \A u \in URLs : Tally(u, from, offset)' = 0
    BY <2>1 DEF Tally, Admitted
  <2>3. Seen(from, offset)' = {}
    BY <2>1 DEF Seen
  <2> QED
    BY <1>2, <2>2, <2>3 DEF CountsMatchLog, Full
<1>4. Latest' /\ NothingDue'
  BY DEF Restart, Latest, NothingDue, Known
<1> QED
  BY <1>1, <1>3, <1>4 DEF IInv

LEMMA StepPreserves == IInv /\ [Next]_vars => IInv'
<1> SUFFICES ASSUME IInv, [Next]_vars PROVE IInv'
  OBVIOUS
<1> USE DEF IInv
<1>1. ASSUME NEW e \in Events, Visit(e) PROVE IInv'
  <2>1. TypeOK'
    <3>1. visits' \in Seq(Events) /\ Len(visits') = Len(visits) + 1 /\ Len(visits') <= MaxVisits
      BY <1>1, BoundsAreNat DEF Visit, TypeOK
    <3>2. /\ Len(visits) \in Nat
          /\ UNCHANGED <<start, published, inflight, lost, readVars, countVars, loopVars, crashes>>
      BY <1>1 DEF Visit, TypeOK
    <3>3. start' \in 0..Len(visits') /\ from' \in 0..start' /\ offset' \in start'..Len(visits')
          /\ watermark' \in offset'..Len(visits')
      BY <3>1, <3>2 DEF TypeOK, readVars
    <3> QED
      BY <3>1, <3>2, <3>3 DEF TypeOK, readVars, countVars, loopVars
  <2>2. (CountsMatchLog /\ Full)'
    BY <1>1, AppendKeepsCounts DEF Visit, readVars
  <2>3. Latest' /\ NothingDue'
    BY <1>1, NothingWrittenKeepsLatest DEF Visit, loopVars, NothingDue
  <2> QED
    BY <2>1, <2>2, <2>3
<1>2. CASE Expire
  <2>1. TypeOK'
    BY <1>2 DEF Expire, TypeOK, readVars, countVars, loopVars
  <2>2. (CountsMatchLog /\ Full)'
    BY <1>2, SameKeepsCounts DEF Expire, readVars
  <2>3. Latest' /\ NothingDue'
    BY <1>2, NothingWrittenKeepsLatest DEF Expire, loopVars, NothingDue
  <2> QED
    BY <2>1, <2>2, <2>3
<1>3. CASE Land \/ Fail
  <2>1. /\ inflight # <<>> /\ inflight' = Tail(inflight)
        /\ UNCHANGED <<visits, start, readVars, countVars, loopVars, crashes>>
    BY <1>3 DEF Land, Fail
  <2>2. TypeOK'
    <3>1. inflight' \in Seq([url : URLs, entry : Entry])
          /\ Head(inflight) \in [url : URLs, entry : Entry]
      BY <2>1, TailOfInflight
    <3>2. published' \in [URLs -> Entry] /\ lost' \subseteq URLs
      BY <1>3, <3>1 DEF Land, Fail, TypeOK
    <3> QED
      BY <2>1, <3>1, <3>2 DEF TypeOK, readVars, countVars, loopVars
  <2>3. (CountsMatchLog /\ Full)'
    BY <2>1, SameKeepsCounts DEF readVars
  <2>4. Latest' /\ NothingDue'
    BY <1>3, <2>1, ShiftKeepsLatest DEF loopVars, NothingDue
  <2> QED
    BY <2>2, <2>3, <2>4
<1>4. CASE Read
  <2>1. /\ offset < Len(visits) /\ offset' = offset + 1
        /\ UNCHANGED <<visits, start, published, inflight, lost, from, crashes>>
        /\ watermark' \in offset+1..Len(visits)
        /\ dirty' \subseteq URLs /\ todo' \subseteq URLs /\ replaying' \in BOOLEAN
        /\ pc' \in {"reading", "publishing", "awaiting"} /\ NothingDue'
    BY <1>4, ReadCases
  <2>2. /\ counts' \in [URLs -> 0..MaxVisits] /\ last' \in [URLs -> 0..MaxVisits]
        /\ (CountsMatchLog /\ Full)'
    BY <1>4, ReadKeepsCounts
  <2>3. offset' \in start..Len(visits) /\ watermark' \in offset'..Len(visits)
    BY <2>1 DEF TypeOK
  <2>4. TypeOK'
    BY <2>1, <2>2, <2>3 DEF TypeOK
  <2>5. Latest'
    BY <1>4, ReadKeepsLatest
  <2> QED
    BY <2>1, <2>2, <2>4, <2>5
<1>5. ASSUME NEW u \in URLs, Publish(u) PROVE IInv'
  <2>1. /\ inflight' = Append(inflight, [url |-> u,
                                         entry |-> [count |-> counts[u], last |-> last[u]]])
        /\ todo' = todo \ {u} /\ pc' = "awaiting"
        /\ UNCHANGED <<visits, start, published, lost, readVars, countVars,
                       replaying, dirty, crashes>>
    BY <1>5 DEF Publish
  <2>2. [url |-> u, entry |-> [count |-> counts[u], last |-> last[u]]]
          \in [url : URLs, entry : Entry]
    BY DEF TypeOK, Entry
  <2>3. inflight' \in Seq([url : URLs, entry : Entry])
    BY <2>1, <2>2 DEF TypeOK
  <2>4. TypeOK'
    BY <2>1, <2>3 DEF TypeOK, readVars, countVars
  <2>5. (CountsMatchLog /\ Full)'
    BY <2>1, SameKeepsCounts DEF readVars
  <2>6. Latest' /\ NothingDue'
    BY <1>5, <2>1, PublishKeepsLatest DEF NothingDue
  <2> QED
    BY <2>4, <2>5, <2>6
<1>6. CASE Answered
  <2>1. TypeOK'
    BY <1>6 DEF Answered, TypeOK, kafkaVars, readVars, countVars
  <2>2. (CountsMatchLog /\ Full)'
    BY <1>6, SameKeepsCounts DEF Answered, kafkaVars, readVars
  <2>3. Latest' /\ NothingDue'
    BY <1>6, NothingWrittenKeepsLatest DEF Answered, kafkaVars, NothingDue
  <2> QED
    BY <2>1, <2>2, <2>3
<1>7. CASE Restart
  BY <1>7, RestartEstablishes
<1>8. CASE UNCHANGED vars
  <2>1. TypeOK'
    BY <1>8 DEF vars, TypeOK, kafkaVars, readVars, countVars, loopVars
  <2>2. (CountsMatchLog /\ Full)'
    BY <1>8, SameKeepsCounts DEF vars, kafkaVars, readVars
  <2>3. Latest' /\ NothingDue'
    BY <1>8, NothingWrittenKeepsLatest DEF vars, kafkaVars, loopVars, NothingDue
  <2> QED
    BY <2>1, <2>2, <2>3
<1> QED
  BY <1>1, <1>2, <1>3, <1>4, <1>5, <1>6, <1>7, <1>8 DEF Next

(* The inductive invariant of the counter and its topics.                  *)
THEOREM Invariant == Spec => []IInv
BY InitEstablishes, StepPreserves, PTL DEF Spec

(***************************************************************************)
(* The results.                                                            *)
(***************************************************************************)
(* Every variable of main.go's loop and of its topics keeps its type.      *)
THEOREM TypeCorrect == Spec => []TypeOK
<1>1. IInv => TypeOK
  BY DEF IInv
<1> QED
  BY <1>1, Invariant, PTL

(* The counters are the sums over the records read since the process       *)
(* started, for the first MaxURLs distinct URLs among them (main.go:156).  *)
THEOREM CountsMatch == Spec => []CountsMatchLog
<1>1. IInv => CountsMatchLog
  BY DEF IInv
<1> QED
  BY <1>1, Invariant, PTL

(***************************************************************************)
(* Of the writes of one URL in flight, one is the last.                    *)
(***************************************************************************)
Less == {p \in Nat \X Nat : p[1] < p[2]}

LEMMA LessWellFounded == IsWellFoundedOn(Less, Nat)
<1>1. Less = OpToRel(<, Nat)
  BY DEF Less, OpToRel
<1> QED
  BY <1>1, NatLessThanWellFounded

LEMMA LastExists ==
  ASSUME NEW n \in Nat, NEW S \in SUBSET (1..n), S # {}
  PROVE  \E i \in S : \A j \in S : j <= i
<1> DEFINE T == {k \in 0..n : n - k \in S}
<1>1. \A k \in T : k \in Nat /\ n - k \in S
  OBVIOUS
<1>2. \A j \in S : n - j \in T /\ n - (n - j) = j
  <2> SUFFICES ASSUME NEW j \in S PROVE n - j \in T /\ n - (n - j) = j
    OBVIOUS
  <2>1. n - j \in 0..n /\ n - (n - j) = j
    OBVIOUS
  <2> QED
    BY <2>1
<1> HIDE DEF T
<1>3. T \subseteq Nat
  BY <1>1
<1>4. T # {}
  BY <1>2
<1>5. PICK k \in T : \A m \in T : ~(<<m, k>> \in Less)
  BY <1>3, <1>4, LessWellFounded, WFMin
<1>6. k \in Nat /\ n - k \in S
  BY <1>1
<1>7. ASSUME NEW j \in S PROVE j <= n - k
  <2>1. n - j \in T /\ n - (n - j) = j
    BY <1>2
  <2>2. <<n - j, k>> \notin Less /\ n - j \in Nat /\ j \in Nat
    BY <1>1, <1>5, <2>1
  <2>3. ~(n - j < k)
    BY <1>6, <2>2 DEF Less
  <2> QED
    BY <1>6, <2>2, <2>3
<1> QED
  BY <1>6, <1>7

(* visit-counts differs from a counter only while that is dirty, due, in   *)
(* flight with its current values, or its last write failed (publish,      *)
(* main.go:194, retries nothing).                                          *)
THEOREM StaleHasReason == Spec => []StaleForAReason
<1>1. IInv => StaleForAReason
  <2> SUFFICES ASSUME IInv, NEW u \in Known, u \notin dirty \cup todo \cup lost,
                      published[u] # Current(u)
               PROVE  \E i \in DOMAIN inflight :
                         inflight[i] = [url |-> u, entry |-> Current(u)]
    BY DEF StaleForAReason, Current
  <2>1. Settled(u)
    BY DEF IInv, Latest
  <2> DEFINE S == {i \in DOMAIN inflight : inflight[i].url = u}
  <2>2. S # {}
    BY <2>1 DEF Settled
  <2>3. /\ DOMAIN inflight = 1..Len(inflight) /\ Len(inflight) \in Nat
        /\ \A i \in DOMAIN inflight : inflight[i] \in [url : URLs, entry : Entry]
    BY InflightTyped DEF IInv
  <2>4. PICK i \in S : \A j \in S : j <= i
    BY <2>2, <2>3, LastExists
  <2>5. LastInFlight(u, i)
    BY <2>3, <2>4 DEF LastInFlight
  <2>6. inflight[i].url = u /\ inflight[i].entry = Current(u)
    BY <2>1, <2>5 DEF Settled
  <2> QED
    BY <2>3, <2>6
<1> QED
  BY <1>1, Invariant, PTL

(***************************************************************************)
(* As long as retention has deleted nothing, what is published only rises. *)
(* After the replay the writes of a URL rise, in the order they were       *)
(* handed over, from what is published up to the counter; a replay writes  *)
(* nothing, and ends with no less than what was published before it,       *)
(* because it goes on to the end of the log that it knew (TallyGrows).     *)
(***************************************************************************)
QuietReplay == replaying => inflight = <<>> /\ pc = "reading" /\ todo = {}

Rising(u) ==
    /\ published[u].count <= counts[u]
    /\ \A i \in DOMAIN inflight : inflight[i].url = u =>
        /\ published[u].count <= inflight[i].entry.count
        /\ inflight[i].entry.count <= counts[u]
        /\ \A j \in DOMAIN inflight : j > i /\ inflight[j].url = u =>
              inflight[i].entry.count <= inflight[j].entry.count

Ahead(u) ==
    IF replaying THEN published[u].count <= Tally(u, 0, watermark) ELSE Rising(u)

Climbs == QuietReplay /\ (start = 0 => \A u \in URLs : Ahead(u))

LEMMA CountsTyped ==
  ASSUME TypeOK
  PROVE  /\ \A u \in URLs : counts[u] \in Nat /\ published[u].count \in Nat
         /\ \A i \in DOMAIN inflight : inflight[i].entry.count \in Nat
<1>1. MaxVisits \in Nat
  BY BoundsAreNat
<1>2. counts \in [URLs -> 0..MaxVisits] /\ published \in [URLs -> Entry]
  BY DEF TypeOK
<1>3. \A e \in Entry : e.count \in Nat
  BY <1>1 DEF Entry
<1>4. \A i \in DOMAIN inflight : inflight[i].entry \in Entry
  BY InflightTyped
<1> QED
  BY <1>1, <1>2, <1>3, <1>4

(* Four ways to read a record: in or after the replay, or the end of it.   *)
LEMMA ReadModes ==
  ASSUME TypeOK, NothingDue, Read
  PROVE  /\ watermark <= watermark'
         /\ \A u \in URLs : counts'[u] >= counts[u]
         /\ \/ replaying' = replaying /\ pc' = pc /\ todo' = todo
            \/ ~replaying /\ ~replaying'
            \/ replaying /\ ~replaying' /\ watermark' <= offset + 1
<1>1. PICK w \in watermark..Len(visits) :
         /\ watermark' = w
         /\ Skip \/ Accumulate(w) \/ EndReplay(w) \/ CountLive
  BY DEF Read
<1>2. w \in Nat /\ watermark <= w /\ offset \in Nat
  BY <1>1 DEF TypeOK
<1>3. \A u \in URLs : counts'[u] >= counts[u]
  <2>1. counts \in [URLs -> Nat]
    BY BoundsAreNat DEF TypeOK
  <2>2. counts' = counts \/ \E v : counts' = [counts EXCEPT ![v] = @ + 1]
    BY ReadCases
  <2> QED
    BY <2>1, <2>2
<1>4. CASE Skip
  BY <1>1, <1>2, <1>3, <1>4 DEF Skip, loopVars
<1>5. CASE Accumulate(w)
  BY <1>1, <1>2, <1>3, <1>5 DEF Accumulate
<1>6. CASE EndReplay(w)
  <2>1. watermark' <= offset + 1
    BY <1>1, <1>2, <1>6 DEF EndReplay, Lagging
  <2>2. watermark <= watermark'
    BY <1>1, <1>2
  <2> QED
    BY <1>3, <1>6, <2>1, <2>2, Zenon DEF EndReplay
<1>7. CASE CountLive
  BY <1>1, <1>2, <1>3, <1>7 DEF CountLive
<1> QED
  BY <1>1, <1>4, <1>5, <1>6, <1>7

LEMMA ReadClimbs ==
  ASSUME TypeOK, CountsMatchLog, Full, NothingDue, Climbs, Read
  PROVE  Climbs'
<1>1. /\ UNCHANGED <<visits, start, published, inflight, from>> /\ offset' = offset + 1
      /\ pc = "reading" /\ offset < Len(visits)
  BY ReadCases DEF Read
<1>2. QuietReplay'
  BY <1>1, ReadModes DEF Climbs, QuietReplay
<1>3. ASSUME start' = 0, NEW u \in URLs PROVE Ahead(u)'
  <2>1. /\ from = 0 /\ offset \in Nat /\ watermark \in Nat /\ watermark' \in Nat
        /\ watermark <= watermark'
    BY <1>1, <1>3, ReadCases, ReadModes DEF TypeOK
  <2>2. Ahead(u)
    BY <1>1, <1>3 DEF Climbs
  <2>3. published'[u].count = published[u].count /\ published[u].count \in Nat
    BY <1>1, CountsTyped
  <2>4. CASE replaying /\ replaying'
    <3>1. published[u].count <= Tally(u, 0, watermark)
      BY <2>2, <2>4 DEF Ahead
    <3>2. Tally(u, 0, watermark) <= Tally(u, 0, watermark')
          /\ Tally(u, 0, watermark) \in Nat /\ Tally(u, 0, watermark') \in Nat
      BY <2>1, TallyGrows, TallyType
    <3>3. Tally(u, 0, watermark)' = Tally(u, 0, watermark')
      BY <1>1 DEF Tally, Admitted, Earlier, Occurrences
    <3> QED
      BY <2>3, <2>4, <3>1, <3>2, <3>3 DEF Ahead
  <2>5. CASE replaying /\ ~replaying'
    <3>1. published[u].count <= Tally(u, 0, watermark) /\ inflight = <<>>
      BY <2>2, <2>5 DEF Ahead, Climbs, QuietReplay
    <3>2. watermark <= offset + 1
      <4>1. watermark' <= offset + 1
        BY <2>5, ReadModes, Zenon
      <4> QED
        BY <2>1, <4>1
    <3>3. Tally(u, 0, watermark) <= Tally(u, 0, offset + 1)
          /\ Tally(u, 0, watermark) \in Nat /\ Tally(u, 0, offset + 1) \in Nat
      <4>1. 0 \in Nat /\ offset + 1 \in Nat /\ 0 <= watermark /\ 0 <= offset + 1
        BY <2>1
      <4> DEFINE c == offset + 1
      <4> HIDE DEF c
      <4>3. c \in Nat /\ watermark <= c
        BY <3>2, <4>1 DEF c
      <4>4. Tally(u, 0, watermark) <= Tally(u, 0, c)
        BY <2>1, <4>1, <4>3, TallyGrows
      <4>5. Tally(u, 0, watermark) \in Nat /\ Tally(u, 0, c) \in Nat
        BY <2>1, <4>1, <4>3, TallyType
      <4> QED
        BY <4>4, <4>5 DEF c
    <3>4. counts'[u] = Tally(u, 0, offset + 1)
      <4>1. CountsMatchLog' /\ from' = 0 /\ visits' = visits /\ offset' = offset + 1
        BY <1>1, <2>1, ReadKeepsCounts
      <4>2. counts'[u] = Tally(u, from, offset)'
        BY <4>1 DEF CountsMatchLog
      <4> QED
        BY <4>1, <4>2 DEF Tally, Admitted, Earlier, Occurrences
    <3>5. published'[u].count <= counts'[u]
      BY <2>3, <3>1, <3>3, <3>4
    <3>6. inflight' = <<>>
      BY <1>1, <3>1
    <3> QED
      BY <2>5, <3>5, <3>6 DEF Ahead, Rising
  <2>6. CASE ~replaying /\ ~replaying'
    <3>1. Rising(u) /\ counts'[u] >= counts[u]
      BY <2>2, <2>6, ReadModes DEF Ahead
    <3>2. counts[u] \in Nat /\ counts'[u] \in Nat
      BY ReadKeepsCounts, BoundsAreNat, CountsTyped
    <3>3. Rising(u)'
      BY <1>1, <2>3, <3>1, <3>2, CountsTyped DEF Rising
    <3> QED
      BY <2>6, <3>3 DEF Ahead
  <2> QED
    BY <2>4, <2>5, <2>6, ReadModes
<1> QED
  BY <1>2, <1>3 DEF Climbs

LEMMA VisitClimbs ==
  ASSUME TypeOK, Climbs, NEW e \in Events, Visit(e)
  PROVE  Climbs'
<1>1. /\ visits' = Append(visits, e)
      /\ UNCHANGED <<start, published, inflight, counts, watermark, replaying, pc, todo>>
  BY DEF Visit, readVars, countVars, loopVars
<1>2. watermark \in Nat /\ \A i \in 1..watermark : visits'[i] = visits[i]
  BY <1>1 DEF TypeOK
<1>3. \A u : Occurrences(u, 0, watermark)' = Occurrences(u, 0, watermark)
  <2> SUFFICES ASSUME NEW u
               PROVE  Occurrences(u, 0, watermark)' = Occurrences(u, 0, watermark)
    OBVIOUS
  <2>1. 0 + 1 = 1
    OBVIOUS
  <2> QED
    BY <1>1, <1>2, <2>1 DEF Occurrences
<1>4. \A u \in URLs : Tally(u, 0, watermark)' = Tally(u, 0, watermark)
  BY <1>3 DEF Tally, Admitted, Earlier
<1> QED
  BY <1>1, <1>4 DEF Climbs, QuietReplay, Ahead, Rising

LEMMA ShiftClimbs ==
  ASSUME TypeOK, Climbs, Land \/ Fail
  PROVE  Climbs'
<1>1. /\ inflight # <<>> /\ inflight' = Tail(inflight)
      /\ UNCHANGED <<visits, start, counts, replaying>>
  BY DEF Land, Fail, countVars, loopVars
<1>2. ~replaying
  BY <1>1 DEF Climbs, QuietReplay
<1>3. /\ 1 \in DOMAIN inflight /\ Head(inflight) = inflight[1]
      /\ \A i \in DOMAIN inflight' :
           i \in Nat /\ i + 1 \in DOMAIN inflight /\ inflight'[i] = inflight[i + 1]
  BY <1>1, TailOfInflight
<1>4. ASSUME start' = 0, NEW u \in URLs PROVE Rising(u)'
  <2>1. Rising(u)
    BY <1>1, <1>2, <1>4 DEF Climbs, Ahead
  <2>2. \/ published'[u] = published[u]
        \/ /\ inflight[1].url = u
           /\ published'[u] = inflight[1].entry
    <3> DEFINE h == Head(inflight)
    <3>1. published' = published \/ published' = [published EXCEPT ![h.url] = h.entry]
      BY DEF Land, Fail
    <3>2. h = inflight[1]
      BY <1>3
    <3> HIDE DEF h
    <3> QED
      BY <3>1, <3>2 DEF TypeOK
  <2>3. published'[u].count <= counts[u]
    BY <1>3, <2>1, <2>2 DEF Rising
  <2>4. ASSUME NEW i \in DOMAIN inflight', inflight'[i].url = u
        PROVE  /\ published'[u].count <= inflight'[i].entry.count
               /\ inflight'[i].entry.count <= counts[u]
               /\ \A j \in DOMAIN inflight' : j > i /\ inflight'[j].url = u =>
                     inflight'[i].entry.count <= inflight'[j].entry.count
    <3>1. /\ i \in Nat /\ i + 1 \in DOMAIN inflight /\ inflight'[i] = inflight[i + 1]
          /\ i + 1 > 1 \/ i = 0
      BY <1>3
    <3>2. i >= 1
      BY <1>1, TailOfInflight
    <3>3. published'[u].count <= inflight[i + 1].entry.count
      BY <1>3, <2>1, <2>2, <2>4, <3>1, <3>2 DEF Rising
    <3>4. ASSUME NEW j \in DOMAIN inflight', j > i, inflight'[j].url = u
          PROVE  inflight'[i].entry.count <= inflight'[j].entry.count
      <4>1. j \in Nat /\ j + 1 \in DOMAIN inflight /\ inflight'[j] = inflight[j + 1]
        BY <1>3
      <4>2. j + 1 > i + 1
        BY <3>1, <3>4, <4>1
      <4> QED
        BY <2>1, <2>4, <3>1, <3>4, <4>1, <4>2 DEF Rising
    <3> QED
      BY <2>1, <2>4, <3>1, <3>3, <3>4 DEF Rising
  <2> QED
    BY <1>1, <2>3, <2>4 DEF Rising
<1> QED
  BY <1>1, <1>2, <1>4 DEF Climbs, QuietReplay, Ahead

LEMMA PublishClimbs ==
  ASSUME TypeOK, Climbs, NEW v \in URLs, Publish(v)
  PROVE  Climbs'
<1> DEFINE n == Len(inflight)
           r == [url |-> v, entry |-> Current(v)]
<1>1. /\ inflight' = Append(inflight, r)
      /\ UNCHANGED <<visits, start, published, counts, replaying>> /\ pc = "publishing"
  BY DEF Publish, Current, countVars
<1>2. r.url = v /\ r.entry.count = counts[v]
  BY DEF Current
<1> HIDE DEF r
<1>3. /\ n \in Nat /\ DOMAIN inflight = 1..n /\ DOMAIN inflight' = 1..n+1
      /\ inflight'[n + 1] = r
      /\ \A i \in 1..n : inflight'[i] = inflight[i]
  BY <1>1 DEF TypeOK
<1> HIDE DEF n
<1>4. ~replaying
  BY <1>1 DEF Climbs, QuietReplay
<1>5. ASSUME start' = 0, NEW u \in URLs PROVE Rising(u)'
  <2>1. Rising(u) /\ counts[u] \in Nat /\ published[u].count \in Nat
    BY <1>1, <1>4, <1>5, CountsTyped DEF Climbs, Ahead
  <2>2. ASSUME NEW i \in DOMAIN inflight', inflight'[i].url = u
        PROVE  /\ published[u].count <= inflight'[i].entry.count
               /\ inflight'[i].entry.count <= counts[u]
               /\ \A j \in DOMAIN inflight' : j > i /\ inflight'[j].url = u =>
                     inflight'[i].entry.count <= inflight'[j].entry.count
    <3>1. CASE i \in 1..n
      <4>1. /\ i \in DOMAIN inflight /\ inflight'[i] = inflight[i]
            /\ inflight[i].entry.count <= counts[u]
            /\ published[u].count <= inflight[i].entry.count
        BY <1>3, <2>1, <2>2, <3>1 DEF Rising
      <4>2. ASSUME NEW j \in DOMAIN inflight', j > i, inflight'[j].url = u
            PROVE  inflight[i].entry.count <= inflight'[j].entry.count
        <5>1. CASE j \in 1..n
          BY <1>3, <2>1, <2>2, <4>1, <4>2, <5>1 DEF Rising
        <5>2. CASE j = n + 1
          BY <1>2, <1>3, <4>1, <4>2, <5>2
        <5> QED
          BY <1>3, <5>1, <5>2
      <4> QED
        BY <4>1, <4>2
    <3>2. CASE i = n + 1
      <4>1. inflight'[i].entry.count = counts[u]
        BY <1>2, <1>3, <2>2, <3>2
      <4>2. \A j \in DOMAIN inflight' : ~(j > i)
        BY <1>3, <3>2
      <4> QED
        BY <2>1, <4>1, <4>2 DEF Rising
    <3> QED
      BY <1>3, <3>1, <3>2
  <2> QED
    BY <1>1, <2>1, <2>2 DEF Rising
<1> QED
  BY <1>1, <1>4, <1>5 DEF Climbs, QuietReplay, Ahead

(* The replay after a restart knows an end of the log no earlier than what *)
(* was counted, or known, before.                                          *)
LEMMA RestartClimbs ==
  ASSUME TypeOK, CountsMatchLog, Climbs, Restart
  PROVE  Climbs'
<1>1. /\ UNCHANGED <<visits, start, published>> /\ watermark' = Len(visits)
      /\ replaying' = TRUE /\ inflight' = <<>> /\ pc' = "reading" /\ todo' = {}
  BY DEF Restart, ReplayAtStart
<1>2. ASSUME start' = 0, NEW u \in URLs PROVE published[u].count <= Tally(u, 0, Len(visits))
  <2>1. /\ from = 0 /\ offset \in Nat /\ watermark \in Nat /\ Len(visits) \in Nat
        /\ offset <= Len(visits) /\ watermark <= Len(visits)
    BY <1>1, <1>2 DEF TypeOK
  <2>2. published[u].count <= Tally(u, 0, watermark)
        \/ published[u].count <= Tally(u, 0, offset)
    <3>1. Ahead(u)
      BY <1>1, <1>2 DEF Climbs
    <3>2. counts[u] = Tally(u, 0, offset)
      BY <2>1 DEF CountsMatchLog
    <3> QED
      BY <3>1, <3>2 DEF Ahead, Rising
  <2>3. /\ Tally(u, 0, watermark) <= Tally(u, 0, Len(visits))
        /\ Tally(u, 0, offset) <= Tally(u, 0, Len(visits))
        /\ Tally(u, 0, watermark) \in Nat /\ Tally(u, 0, offset) \in Nat
        /\ Tally(u, 0, Len(visits)) \in Nat /\ published[u].count \in Nat
    BY <2>1, TallyGrows, TallyType, CountsTyped
  <2> QED
    BY <2>2, <2>3
<1>3. \A u \in URLs : Tally(u, 0, watermark)' = Tally(u, 0, Len(visits))
  BY <1>1 DEF Tally, Admitted, Earlier, Occurrences
<1> QED
  BY <1>1, <1>2, <1>3 DEF Climbs, QuietReplay, Ahead

LEMMA StepClimbs == IInv /\ Climbs /\ [Next]_vars => Climbs'
<1> SUFFICES ASSUME IInv, Climbs, [Next]_vars PROVE Climbs'
  OBVIOUS
<1> USE DEF IInv
<1>1. CASE Expire
  <2>1. start' # 0
    BY <1>1 DEF Expire, TypeOK
  <2> QED
    BY <1>1, <2>1 DEF Expire, loopVars, Climbs, QuietReplay
<1>2. CASE Answered \/ UNCHANGED vars
  <2>1. UNCHANGED <<visits, start, published, inflight, counts, watermark, replaying, todo>>
    BY <1>2 DEF Answered, vars, kafkaVars, readVars, countVars, loopVars
  <2>2. \A u \in URLs : Tally(u, 0, watermark)' = Tally(u, 0, watermark)
    BY <2>1 DEF Tally, Admitted, Earlier, Occurrences
  <2>3. pc' = pc \/ ~replaying
    BY <1>2 DEF Answered, vars, loopVars, Climbs, QuietReplay
  <2> QED
    BY <2>1, <2>2, <2>3 DEF Climbs, QuietReplay, Ahead, Rising
<1> QED
  BY <1>1, <1>2, VisitClimbs, ShiftClimbs, ReadClimbs, PublishClimbs, RestartClimbs DEF Next

(* No published count goes down while retention has deleted nothing, not   *)
(* over a restart either: one message per replayed event would "show wrong *)
(* (climbing) counts in browsers" (main.go:139).                           *)
THEOREM CountsNeverFall == Spec => NoClimbing
<1>1. Init => IInv /\ Climbs
  <2>1. Init => Climbs
    <3> SUFFICES ASSUME Init PROVE Climbs
      OBVIOUS
    <3>1. \A u \in URLs : published[u].count = 0 /\ Tally(u, 0, watermark) \in Nat
      BY TallyType DEF Init, NoEntry
    <3> QED
      BY <3>1 DEF Init, Climbs, QuietReplay, Ahead
  <2> QED
    BY <2>1, InitEstablishes
<1>2. (IInv /\ Climbs) /\ [Next]_vars => (IInv /\ Climbs)'
  BY StepPreserves, StepClimbs
<1>3. IInv /\ Climbs /\ [Next]_vars =>
        [start = 0 => \A u \in URLs : published'[u].count >= published[u].count]_vars
  <2> SUFFICES ASSUME IInv, Climbs, [Next]_vars, start = 0, NEW u \in URLs
               PROVE  published'[u].count >= published[u].count
    BY DEF vars
  <2>1. published[u].count \in Nat
    BY CountsTyped DEF IInv
  <2>2. CASE Land
    <3>1. ~replaying
      BY <2>2 DEF Land, Climbs, QuietReplay
    <3>2. Rising(u)
      BY <3>1 DEF Climbs, Ahead
    <3>3. 1 \in DOMAIN inflight /\ Head(inflight) = inflight[1]
      BY <2>2, InflightTyped DEF Land, IInv, TypeOK
    <3> QED
      BY <2>1, <2>2, <3>2, <3>3 DEF Land, Rising, IInv, TypeOK
  <2>3. CASE published' = published
    BY <2>1, <2>3
  <2> QED
    BY <2>2, <2>3, ReadCases
    DEF IInv, Next, Visit, Expire, Fail, Publish, Answered, Restart, vars, kafkaVars, loopVars
<1> QED
  BY <1>1, <1>2, <1>3, PTL DEF Spec, NoClimbing
=============================================================================
