---------------------------- MODULE VisitCounter ----------------------------
(***************************************************************************)
(* The visitcounter process (apps/visitcounter/main.go) between its two    *)
(* Kafka topics: it reads the url-visits log from the first retained       *)
(* record, counts visits per URL, replays silently after a start and       *)
(* publishes {count, last} per URL to the compacted topic visit-counts.    *)
(*                                                                         *)
(* Data: a record of url-visits is its URL, or Unusable when the loop      *)
(* skips it for an empty or oversized URL.  The time of a record is its    *)
(* position in the log.  Kafka is external: url-visits loses records from  *)
(* its head (retention), the client library writes the records of one      *)
(* topic in the order they were handed to it, and a write whose four       *)
(* seconds are over may still land.                                        *)
(***************************************************************************)
EXTENDS Naturals, Sequences, FiniteSets

CONSTANTS
    URLs,
    Unusable,     \* a record whose URL is empty or too long
    MaxURLs,      \* maxVisitURLs
    MaxVisits,    \* bound of the model: records ever appended to url-visits
    MaxInflight,  \* bound of the model: writes that timed out and are pending
    MaxCrashes    \* bound of the model: restarts of the process

ASSUME URLsFinite      == IsFiniteSet(URLs)
ASSUME UnusableIsNoURL == Unusable \notin URLs
ASSUME BoundsAreNat    ==
    {MaxURLs, MaxVisits, MaxInflight, MaxCrashes} \subseteq Nat

VARIABLES
    visits,     \* url-visits: every record ever appended
    start,      \* how many of them retention has deleted
    published,  \* visit-counts after compaction: the latest value per URL
    inflight,   \* writes handed to the Kafka client, not answered yet
    lost,       \* history: URLs whose last write failed
    from,       \* history: the value of start when the process started
    offset,     \* records read so far, counted from the log's beginning
    watermark,  \* the reader's last known end of the log
    counts,     \* counts[url]; 0 for a URL that is not in the map
    last,       \* last[url]
    replaying,
    dirty,      \* URLs touched during the replay
    pc,         \* "reading", "publishing" or "awaiting" a write's answer
    todo,       \* URLs whose publish is due
    crashes

kafkaVars == <<visits, start, published, inflight, lost>>
countVars == <<counts, last>>
loopVars  == <<replaying, dirty, pc, todo>>
readVars  == <<from, offset, watermark>>
vars == <<kafkaVars, readVars, countVars, loopVars, crashes>>

Events  == URLs \cup {Unusable}
Entry   == [count : 0..MaxVisits, last : 0..MaxVisits]
NoEntry == [count |-> 0, last |-> 0]

Known == {u \in URLs : counts[u] # 0}

(* Types: the reader is between the log's first record and its end, and no *)
(* count exceeds the records there have been.                              *)
TypeOK ==
    /\ visits \in Seq(Events) /\ Len(visits) <= MaxVisits
    /\ start \in 0..Len(visits)
    /\ published \in [URLs -> Entry]
    /\ inflight \in Seq([url : URLs, entry : Entry])
    /\ lost \subseteq URLs
    /\ from \in 0..start
    /\ offset \in start..Len(visits)
    /\ watermark \in offset..Len(visits)
    /\ counts \in [URLs -> 0..MaxVisits]
    /\ last \in [URLs -> 0..MaxVisits]
    /\ replaying \in BOOLEAN
    /\ dirty \subseteq URLs
    /\ pc \in {"reading", "publishing", "awaiting"}
    /\ todo \subseteq URLs
    /\ crashes \in 0..MaxCrashes

Init ==
    /\ visits = <<>>
    /\ start = 0
    /\ published = [u \in URLs |-> NoEntry]
    /\ inflight = <<>>
    /\ lost = {}
    /\ from = 0
    /\ offset = 0
    /\ watermark = 0
    /\ counts = [u \in URLs |-> 0]
    /\ last = [u \in URLs |-> 0]
    /\ replaying = TRUE
    /\ dirty = {}
    /\ pc = "reading"
    /\ todo = {}
    /\ crashes = 0

-----------------------------------------------------------------------------
(* The topics.                                                             *)

(* helloworld appends a visit; an unauthenticated producer appends what it *)
(* likes.                                                                  *)
Visit(e) ==
    /\ Len(visits) < MaxVisits
    /\ visits' = Append(visits, e)
    /\ UNCHANGED <<start, published, inflight, lost, readVars, countVars, loopVars, crashes>>

(* Retention deletes the oldest record.  The topic keeps a day, so a       *)
(* running reader is never behind it.                                      *)
Expire ==
    /\ start < offset
    /\ start' = start + 1
    /\ UNCHANGED <<visits, published, inflight, lost, readVars, countVars, loopVars, crashes>>

(* The oldest write in flight lands, ...                                   *)
Land ==
    /\ inflight # <<>>
    /\ published' = [published EXCEPT ![Head(inflight).url] = Head(inflight).entry]
    /\ lost' = lost \ {Head(inflight).url}
    /\ inflight' = Tail(inflight)
    /\ UNCHANGED <<visits, start, readVars, countVars, loopVars, crashes>>

(* ... or fails for good after the client's own retries.                   *)
Fail ==
    /\ inflight # <<>>
    /\ lost' = lost \cup {Head(inflight).url}
    /\ inflight' = Tail(inflight)
    /\ UNCHANGED <<visits, start, published, readVars, countVars, loopVars, crashes>>

-----------------------------------------------------------------------------
(* The consume loop.  What it does with one record depends on the record's *)
(* position o, its URL and the end of the log w known when it was fetched. *)

\* Mutant: the cap rejects URLs that are already counted.
SkippedAtCap(u) == u = Unusable \/ Cardinality(Known) >= MaxURLs

Skipped(u) ==
    \/ u = Unusable
    \/ u \notin Known /\ Cardinality(Known) >= MaxURLs

\* Mutant: skipping a record reads past the next one.
NextOffsetSkippingTwo(u) == IF Skipped(u) THEN offset + 2 ELSE offset + 1

NextOffset(u) == offset + 1

\* Mutant: the record just read still counts as lag.
LaggingOffByOne(w) == w > offset

(* r.Lag() > 0, after the record at offset has been read.                  *)
Lagging(w) == w > offset + 1

(* An empty or oversized URL, or a new URL over the cap: continue, before  *)
(* the loop has looked at the lag.                                         *)
Skip ==
    /\ Skipped(visits[offset + 1])
    /\ UNCHANGED <<countVars, loopVars>>

Count(u) ==
    /\ ~Skipped(u)
    /\ counts' = [counts EXCEPT ![u] = @ + 1]
    /\ last' = [last EXCEPT ![u] = offset + 1]

(* Replaying and lagging: the URL is remembered as dirty.                  *)
Accumulate(w) ==
    LET u == visits[offset + 1] IN
    /\ replaying
    /\ Lagging(w)
    /\ Count(u)
    /\ dirty' = dirty \cup {u}
    /\ UNCHANGED <<replaying, pc, todo>>

\* Mutant: the end of the replay publishes only the URL that was read last.
EndReplayLastOnly(w) ==
    LET u == visits[offset + 1] IN
    /\ replaying
    /\ ~Lagging(w)
    /\ Count(u)
    /\ replaying' = FALSE
    /\ todo' = {u}
    /\ dirty' = {}
    /\ pc' = "publishing"

(* The replay is over: every dirty URL is published.                       *)
EndReplay(w) ==
    LET u == visits[offset + 1] IN
    /\ replaying
    /\ ~Lagging(w)
    /\ Count(u)
    /\ replaying' = FALSE
    /\ todo' = dirty \cup {u}
    /\ dirty' = {}
    /\ pc' = "publishing"

(* A visit after the replay is published at once.                          *)
CountLive ==
    LET u == visits[offset + 1] IN
    /\ ~replaying
    /\ Count(u)
    /\ todo' = {u}
    /\ pc' = "publishing"
    /\ UNCHANGED <<replaying, dirty>>

(* ReadMessage returns the next record, fetched when the log ended at w.   *)
Read ==
    /\ pc = "reading"
    /\ offset < Len(visits)
    /\ \E w \in watermark..Len(visits) :
          /\ w > offset
          /\ watermark' = w
          /\ Skip \/ Accumulate(w) \/ EndReplay(w) \/ CountLive
    /\ offset' = NextOffset(visits[offset + 1])
    /\ UNCHANGED <<kafkaVars, from, crashes>>

(* publish hands the URL's current values to WriteMessages ...             *)
Publish(u) ==
    /\ pc = "publishing"
    /\ u \in todo
    /\ Len(inflight) <= MaxInflight
    /\ inflight' = Append(inflight, [url |-> u,
                                     entry |-> [count |-> counts[u], last |-> last[u]]])
    /\ todo' = todo \ {u}
    /\ pc' = "awaiting"
    /\ UNCHANGED <<visits, start, published, lost, readVars, countVars, replaying, dirty, crashes>>

(* ... and comes back when the write was answered or four seconds are      *)
(* over.  It logs an error and never retries.                              *)
Answered ==
    /\ pc = "awaiting"
    /\ pc' = IF todo = {} THEN "reading" ELSE "publishing"
    /\ UNCHANGED <<kafkaVars, readVars, countVars, replaying, dirty, todo, crashes>>

\* Mutant: a restarted process publishes from its first record on.
ReplayAtStartNever == FALSE

ReplayAtStart == TRUE

(* The process ends, by SIGTERM or otherwise, and starts again: everything *)
(* it counted and every write in flight is gone.  Its first fetch learns   *)
(* the end of the log as it is now, or later.                              *)
Restart ==
    /\ crashes < MaxCrashes
    /\ crashes' = crashes + 1
    /\ from' = start
    /\ offset' = start
    /\ watermark' = Len(visits)
    /\ counts' = [u \in URLs |-> 0]
    /\ last' = [u \in URLs |-> 0]
    /\ replaying' = ReplayAtStart
    /\ dirty' = {}
    /\ pc' = "reading"
    /\ todo' = {}
    /\ inflight' = <<>>
    /\ lost' = lost \cup {inflight[i].url : i \in DOMAIN inflight}
    /\ UNCHANGED <<visits, start, published>>

Next ==
    \/ \E e \in Events : Visit(e)
    \/ Expire \/ Land \/ Fail
    \/ Read
    \/ \E u \in URLs : Publish(u)
    \/ Answered
    \/ Restart

Spec == Init /\ [][Next]_vars

(* The loop is alone in its goroutine and ReadMessage returns a record     *)
(* that is there; Kafka answers a write.                                   *)
Fairness ==
    /\ WF_vars(Read)
    /\ WF_vars(\E u \in URLs : Publish(u))
    /\ WF_vars(Answered)
    /\ WF_vars(Land \/ Fail)

FairSpec == Spec /\ Fairness

-----------------------------------------------------------------------------
(* The counts, defined from the log alone.                                 *)

Occurrences(u, a, b) == {i \in a+1..b : visits[i] = u}

(* URLs that appear in the records a+1..b before u does.                   *)
Earlier(u, a, b) ==
    {v \in URLs : \E j \in Occurrences(v, a, b) :
                      \A i \in Occurrences(u, a, b) : j < i}

(* The first MaxURLs distinct URLs of the records a+1..b.                  *)
Admitted(a, b) ==
    {u \in URLs : /\ Occurrences(u, a, b) # {}
                  /\ Cardinality(Earlier(u, a, b)) < MaxURLs}

Tally(u, a, b) == IF u \in Admitted(a, b) THEN Cardinality(Occurrences(u, a, b)) ELSE 0

(* The counters are the sums over the records the process has read since   *)
(* it started, for the first MaxURLs distinct URLs among them, and last is *)
(* each one's newest record: no record is counted twice or missed, however *)
(* often the process restarts and whatever retention deletes meanwhile.    *)
CountsMatchLog ==
    \A u \in URLs :
        /\ counts[u] = Tally(u, from, offset)
        /\ counts[u] # 0 =>
              /\ last[u] \in Occurrences(u, from, offset)
              /\ \A i \in Occurrences(u, from, offset) : i <= last[u]

(* visit-counts differs from a counter only while that is still going to   *)
(* be repaired, or when a write failed: the URL is dirty, its publish is   *)
(* due, or a write of its current values is in flight.                     *)
StaleForAReason ==
    \A u \in Known :
        \/ published[u] = [count |-> counts[u], last |-> last[u]]
        \/ u \in dirty \cup todo \cup lost
        \/ \E i \in DOMAIN inflight :
              inflight[i] = [url |-> u, entry |-> [count |-> counts[u], last |-> last[u]]]

(* "Publishing one message per replayed event would show wrong (climbing)  *)
(* counts in browsers": as long as retention has deleted nothing, no       *)
(* published count ever goes down, not across a restart either.            *)
NoClimbing ==
    [][start = 0 => \A u \in URLs : published'[u].count >= published[u].count]_vars

-----------------------------------------------------------------------------
(* Liveness, under FairSpec.                                               *)

Idle == pc = "reading" /\ offset = Len(visits) /\ inflight = <<>>

UpToDate ==
    \A u \in Known : published[u] = [count |-> counts[u], last |-> last[u]]

(* The newest record was skipped before the loop looked at the lag, so the *)
(* replay goes on although the reader has none (main.go:176).              *)
TailSkipped == replaying /\ offset > from /\ Skipped(visits[offset])

(* Visits are read, and every counter reaches visit-counts, unless a write *)
(* failed or the records of the replay end with one that is skipped.       *)
CountsArrive ==
    []<>(Idle /\ (UpToDate \/ lost # {} \/ TailSkipped))
=============================================================================
