------------------------------ MODULE LiveFeed ------------------------------
(***************************************************************************)
(* The live feed end to end: the compacted topics cluster-info and         *)
(* visit-counts, the wsfeed replicas that replay them from the first       *)
(* record while they already serve /ws (apps/wsfeed/main.go), and the page *)
(* that keeps its rows over reconnections to either replica                *)
(* (apps/static/web/static/app.js).                                        *)
(*                                                                         *)
(* Inside a session the hub is what FeedHub implements: the session gets,  *)
(* per subject, the value the replica had at its start or a later one, in  *)
(* order, and in the end the latest.                                       *)
(*                                                                         *)
(* Data: a record is its key, whether its value is JSON, and the time it   *)
(* was written at; the position in its topic is its version.  A key of     *)
(* visit-counts is a path, whose leading slash the subject leaves out: it  *)
(* stands for the same key.  Kafka compacts a topic by deleting records    *)
(* that are not the newest of their key.                                   *)
(* Both producers set the time of a record (visitcounter/main.go:132,      *)
(* clusterinfo/main.go:226), so wsfeed's own clock, which it takes for a   *)
(* record without one (main.go:227-230, 261-264), is left out.             *)
(***************************************************************************)
EXTENDS Integers, Sequences, FiniteSets, FiniteSetsExt

CONSTANTS
    Replicas,
    Keys,
    NoKey,       \* an empty key; for visit-counts also an oversized one
    MaxAge,      \* MAX_AGE_MS of the page
    MaxRecords,  \* bound of the model: records of both topics
    MaxNow,      \* bound of the model: time
    MaxFaults    \* bound of the model: restarts and lost connections

ASSUME NoKeyIsNoKey == NoKey \notin Keys /\ "unknown" \notin Keys
ASSUME BoundsAreNat == {MaxAge, MaxRecords, MaxNow, MaxFaults} \subseteq Nat

Topics   == {"cluster", "visit"}
Subjects == Topics \X (Keys \cup {"unknown"})
Offline  == "offline"

VARIABLES
    log,      \* per topic: every record ever written
    deleted,  \* per topic: positions that compaction has deleted
    now,
    offset,   \* per replica and topic: records its reader has passed
    state,    \* per replica and subject: versions published so far
    conn,     \* the replica the page has a session with, or Offline
    base,     \* per subject: the version the session's snapshot held
    sent,     \* per subject: the last version the session delivered
    row,      \* per subject: the version the page shows, 0 for no row
    faults

kafka   == <<log, deleted>>
wsfeed  == <<offset, state>>
session == <<conn, base, sent>>
vars    == <<kafka, now, wsfeed, session, row, faults>>

NoVersions == [s \in Subjects |-> 0]

Init ==
    /\ log = [t \in Topics |-> <<>>] /\ deleted = [t \in Topics |-> {}]
    /\ now = 0
    /\ offset = [r \in Replicas |-> [t \in Topics |-> 0]]
    /\ state = [r \in Replicas |-> [s \in Subjects |-> {}]]
    /\ conn = Offline /\ base = NoVersions /\ sent = NoVersions
    /\ row = NoVersions
    /\ faults = 0

(***************************************************************************)
(* Kafka: a producer writes, compaction deletes, time passes.              *)
(***************************************************************************)
Write(t) ==
    /\ MapThenSumSet(LAMBDA u : Len(log[u]), Topics) < MaxRecords
    /\ \E k \in Keys \cup {NoKey}, valid \in BOOLEAN :
        log' = [log EXCEPT ![t] = Append(@, [key |-> k, json |-> valid, time |-> now])]
    /\ UNCHANGED <<deleted, now, wsfeed, session, row, faults>>

Superseded(t, i) ==
    \E j \in DOMAIN log[t] : j > i /\ log[t][j].key = log[t][i].key

Compact(t) ==
    \E i \in DOMAIN log[t] \ deleted[t] :
        /\ Superseded(t, i)
        /\ deleted' = [deleted EXCEPT ![t] = @ \cup {i}]
        /\ UNCHANGED <<log, now, wsfeed, session, row, faults>>

Tick ==
    /\ now < MaxNow /\ now' = now + 1
    /\ UNCHANGED <<kafka, wsfeed, session, row, faults>>

(***************************************************************************)
(* A wsfeed replica: consumeClusterInfo and consumeVisitCounts.            *)
(***************************************************************************)
Dropped(t, rec) == ~rec.json \/ (t = "visit" /\ rec.key = NoKey)

SubjectOfBare(t, rec) ==  \* mutant: one prefix for both feeds
    <<"visit", IF rec.key = NoKey THEN "unknown" ELSE rec.key>>

SubjectOf(t, rec) == <<t, IF rec.key = NoKey THEN "unknown" ELSE rec.key>>

ConsumeOrReturn(r, t) ==  \* mutant: a record that is dropped ends the loop
    LET left == {i \in DOMAIN log[t] \ deleted[t] : i > offset[r][t]}
        i    == Min(left)
        rec  == log[t][i]
    IN  /\ left # {} /\ ~Dropped(t, rec)
        /\ offset' = [offset EXCEPT ![r][t] = i]
        /\ state' = [state EXCEPT ![r][SubjectOf(t, rec)] = @ \cup {i}]
        /\ UNCHANGED <<kafka, now, session, row, faults>>

(* The reader delivers the next record that compaction has left.           *)
Consume(r, t) ==
    LET left == {i \in DOMAIN log[t] \ deleted[t] : i > offset[r][t]}
        i    == Min(left)
        rec  == log[t][i]
    IN  /\ left # {}
        /\ offset' = [offset EXCEPT ![r][t] = i]
        /\ state' = IF Dropped(t, rec) THEN state
                    ELSE [state EXCEPT ![r][SubjectOf(t, rec)] = @ \cup {i}]
        /\ UNCHANGED <<kafka, now, session, row, faults>>

Latest(r, s) == IF state[r][s] = {} THEN 0 ELSE Max(state[r][s])

EndOffset(t)   == Len(log[t])  \* mutant: only what is written from now on
FirstOffset(t) == 0

Hangup ==
    /\ conn' = Offline /\ base' = NoVersions /\ sent' = NoVersions

(* A replica restarts: its state is gone, it is ready before it has read   *)
(* anything, and the page's session with it ends.                          *)
Restart(r) ==
    /\ faults < MaxFaults /\ faults' = faults + 1
    /\ offset' = [offset EXCEPT ![r] = [t \in Topics |-> FirstOffset(t)]]
    /\ state' = [state EXCEPT ![r] = [s \in Subjects |-> {}]]
    /\ IF conn = r THEN Hangup ELSE UNCHANGED session
    /\ UNCHANGED <<kafka, now, row>>

(***************************************************************************)
(* The page.                                                               *)
(***************************************************************************)
(* connect, by the Service to any replica: the hub's snapshot is taken.    *)
Connect(r) ==
    /\ conn = Offline
    /\ conn' = r /\ sent' = NoVersions
    /\ base' = [s \in Subjects |-> Latest(r, s)]
    /\ UNCHANGED <<kafka, now, wsfeed, row, faults>>

Disconnect ==
    /\ conn # Offline /\ faults < MaxFaults /\ faults' = faults + 1
    /\ Hangup
    /\ UNCHANGED <<kafka, now, wsfeed, row>>

TimeOf(s, v)  == log[s[1]][v].time
isStale(s, v) == now - TimeOf(s, v) > MaxAge

(* ws.onmessage: the row is set, or dropped when the value is too old.     *)
Message(s) ==
    /\ conn # Offline
    /\ \E v \in state[conn][s] :
        /\ v >= base[s] /\ v > sent[s]
        /\ sent' = [sent EXCEPT ![s] = v]
        /\ row' = [row EXCEPT ![s] = IF isStale(s, v) THEN 0 ELSE v]
    /\ UNCHANGED <<kafka, now, wsfeed, conn, base, faults>>

(* The sweep of every minute.                                              *)
Aged == {s \in Subjects : row[s] # 0 /\ isStale(s, row[s])}

Sweep ==
    /\ Aged # {}
    /\ row' = [s \in Subjects |-> IF s \in Aged THEN 0 ELSE row[s]]
    /\ UNCHANGED <<kafka, now, wsfeed, session, faults>>

Next ==
    \/ \E t \in Topics : Write(t) \/ Compact(t)
    \/ Tick
    \/ \E r \in Replicas : Restart(r) \/ Connect(r) \/ \E t \in Topics : Consume(r, t)
    \/ Disconnect \/ Sweep
    \/ \E s \in Subjects : Message(s)

(* A consumer retries a failed read each second, the hub's sessions        *)
(* deliver (FeedHub), the page reconnects and sweeps; it is connected      *)
(* again and again to a replica of the Service's choice.                   *)
Fairness ==
    /\ \A r \in Replicas, t \in Topics : WF_vars(Consume(r, t))
    /\ WF_vars(\E r \in Replicas : Connect(r))
    /\ \A s \in Subjects : WF_vars(Message(s))
    /\ WF_vars(Sweep) /\ WF_vars(Tick)

Spec == Init /\ [][Next]_vars /\ Fairness

(***************************************************************************)
(* Properties.                                                             *)
(***************************************************************************)

(* Types: what is shown and sent are versions of the subject's topic.      *)
TypeOK ==
    /\ \A t \in Topics : deleted[t] \subseteq DOMAIN log[t]
    /\ \A r \in Replicas : \A s \in Subjects :
        state[r][s] \subseteq 1..offset[r][s[1]]
    /\ conn \in Replicas \cup {Offline}
    /\ \A s \in Subjects : {base[s], sent[s], row[s]} \subseteq {0} \cup DOMAIN log[s[1]]
    /\ now \in 0..MaxNow /\ faults \in 0..MaxFaults

AtEnd(r, t) == \A i \in DOMAIN log[t] \ deleted[t] : i <= offset[r][t]

(* "every wsfeed replica sees identical counts" (main.go:10): a replica    *)
(* that has read a topic to its end has the newest record of every key as  *)
(* the value of its subject, unless it drops that record: whenever it      *)
(* started, whatever compaction had deleted by then, and whatever it       *)
(* dropped on the way.                                                     *)
ReplicasAgree ==
    \A r \in Replicas, t \in Topics : AtEnd(r, t) =>
        \A i \in DOMAIN log[t] :
            ~Superseded(t, i) /\ ~Dropped(t, log[t][i]) =>
                Latest(r, SubjectOf(t, log[t][i])) = i

(* The newest record of a subject, and whether the replicas relay it.      *)
RecordsOf(s) ==
    {i \in DOMAIN log[s[1]] : SubjectOf(s[1], log[s[1]][i]) = s}
Newest(s)  == IF RecordsOf(s) = {} THEN 0 ELSE Max(RecordsOf(s))
Relayed(s) == Newest(s) # 0 /\ ~Dropped(s[1], log[s[1]][Newest(s)])

(* Once the writes, the faults and the clock have come to rest the page    *)
(* shows the newest value of a subject if it is younger than MaxAge, and   *)
(* no row that is older.                                                   *)
Settled(s) ==
    Relayed(s) => row[s] = IF isStale(s, Newest(s)) THEN 0 ELSE Newest(s)

Converges == <>[](\A s \in Subjects : Settled(s))
=============================================================================
