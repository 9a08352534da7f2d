# pok: specifications, model checking and proofs

This directory holds TLA+ specifications of the programs in this repository,
the TLC configurations that check them, and theorems about them with proofs
for TLAPS. Paths below are relative to the repository root.

## 1. The system

pok is a small platform whose demo is a live feed. Seven Go programs run in
Kubernetes; two of them produce into Kafka, one aggregates, one relays to
browsers. A shell agent keeps the cluster reachable, Ansible builds and
upgrades it.

```
 browser --HTTP--> edge --/hw--> helloworld --url-visits--> visitcounter
    ^                |                                           | visit-counts
    |                '--/-----> static (index.html, app.js)      v
    '---WebSocket /ws, through edge--- wsfeed <--cluster-info-- clusterinfo
                                     (2 replicas)
 awscost -> OpenTelemetry            lb-failover.sh -> AWS route table
```

| component | state | operations | who it talks to |
|---|---|---|---|
| wsfeed (`apps/wsfeed/main.go`) | latest envelope per subject, registered clients, per client a queue `pending`/`order`/`notify`, a WaitGroup of sessions, the shutdown context | `publish`, `enqueue`, `take`, `snapshot`, `register`, `unregister`, `drain`, `serveWS`, two consume loops | reads `cluster-info` and `visit-counts`; writes to browsers |
| visitcounter (`apps/visitcounter/main.go`) | `counts`, `last`, `replaying`, `dirty`, the reader's offset and lag | the consume loop, `publish` | reads `url-visits`, writes `visit-counts` |
| helloworld (`apps/helloworld/main.go`) | the asynchronous Kafka writer's batch | the handler, `publishVisit`, shutdown | writes `url-visits` |
| clusterinfo (`apps/clusterinfo/main.go`) | `lastTick` | `poll`, 17 aspects, `/healthz` | reads the Kubernetes API, writes `cluster-info` |
| static, browser part (`apps/static/web/static/app.js`) | rows by subject, sort, filter, retry delay | `onmessage`, sweep, `resort`, reconnect | reads `/ws` |
| edge (`apps/edge/main.go`), static file server (`apps/static/main.go`) | requests in flight, the shutdown context | routing, proxying, `Shutdown` | edge proxies to helloworld, static and wsfeed |
| awscost (`apps/awscost`) | price book, gauges, tickers, `lastTick` | estimate cycle, actual cycle | reads AWS, writes metrics |
| lb-failover (`tf/aws/border/lb-failover.sh`) | none between polls; the route is in AWS | the poll loop | reads BGP sessions and AWS, replaces a route |
| upgrade playbook (`ansible/upgrade.yml`, `ansible/tasks`) | each node's packages, running kubelet, cordon | plays and their rescue | kubectl, apt |
| other playbooks, OpenTofu, manifests, CI | - | declarative | - |

### What is hard in it

* **wsfeed.** Each session is a goroutine with a queue that the consumers fill
  under two locks (`hub.mu`, then `client.mu`), and a one-slot channel that is
  signalled *after* `client.mu` is released. Seeding (a snapshot of the state)
  and live delivery (the queue) overlap: the session registers first. Slow,
  failing and disconnecting browsers, a cap, and a two-stage shutdown, because
  `http.Server.Shutdown` ignores hijacked connections.
* **visitcounter.** Everything it knows is rebuilt from a log that retention
  shortens, silently until it has caught up; a write may fail, or land after
  the program stopped waiting for it; a URL cap makes the result depend on
  the order of the log; a rolling update runs two counters for a while.
* **The feed as a whole.** Compacted topics are replayed by each wsfeed while it
  already serves browsers, which reconnect to either replica; the page drops old
  values on its own clock.
* **A visit's way.** helloworld answers before its visit is in Kafka; what is in
  the asynchronous writer when it stops depends on the order of `Shutdown` and the
  deferred `Close`, and edge and its backends stop independently.
* **clusterinfo, awscost.** A heartbeat stored before work that is bounded by
  timeouts; the liveness probe must not fire while the loop works as intended. In
  awscost two cycles share a goroutine and a cycle joins two listings of a fleet
  that changes in between.
* **lb-failover, upgrade playbook.** Several external calls or tasks per round,
  each of which can fail, acting on what the earlier ones returned; the playbook
  is run again over what a failed run left.

### What makes each part correct

* wsfeed: a streaming session always has, or is still going to get, the latest
  envelope of every subject; it never gets an older one after a newer one; it
  is woken when its queue is not empty; queue fields agree; the cap and the
  WaitGroup count the sessions exactly; a shutdown ends by itself and a drain
  that reports success leaves no session.
* visitcounter: counts equal the visits read since the start for the URLs the
  cap admits; what is published differs from the counts only while it is still
  going to be repaired or after a failed write; a replay is silent.
* lb-failover: the route is never moved off a live node, and leaves a dead one.
* upgrade: no kubelet is ever newer than an API server before it; a node that a run
  has passed is upgraded, held and takes pods; a re-run finishes what a failed run
  began.
* the feed: a replica at the end of a topic has the newest value of every subject,
  whichever replica; a page ends with the newest values that are young enough.
* edge and helloworld: a visit or a request that was accepted is lost only by a
  process that dies or overruns its shutdown; a shutdown ends.
* clusterinfo: the heartbeat never goes stale while the loop runs; what is
  published adds up, names the worst, and follows the order of a list at most
  where two items tie.
* awscost: every value is at a price AWS quoted, one per type; what could not be priced
  comes later, and what was joined wrongly is not joined so again; no completed
  day goes unreported without a failure; the heartbeat as above.

## 2. Modules

| module | what it is |
|---|---|
| `FeedHub` | the hub, its sessions and the shutdown of one wsfeed process |
| `LatestFeed` | what that promises a browser, abstractly |
| `MCFeedHub` | `FeedHub` for TLC, with the symmetry of clients and subjects |
| `FeedHubProofs` | the inductive invariant of `FeedHub`, the theorems that follow, and the proof that it implements `LatestFeed` |
| `VisitCounter`, `VisitCounterProofs` | visitcounter between its two topics |
| `VisitPath`, `VisitPathProofs` | requests through edge to helloworld and its Kafka writer, and how these servers stop |
| `LiveFeed`, `LiveFeedProofs` | both topics, wsfeed replicas that replay them, a page that reconnects: composed over what `FeedHub` promises |
| `ClusterAspects` | the bodies of clusterinfo's seventeen aspects, as functions of what the API lists |
| `ClusterInfo`, `MCClusterInfo`, `ClusterInfoProofs` | clusterinfo's poll loop over them: calls, deadlines, heartbeat, signal |
| `AwsLoops` | awscost's two cycles, tickers, deadlines and heartbeat |
| `AwsCost`, `MCAwsCost` | awscost's estimate cycle, against a fleet that changes |
| `AwsProofs` | theorems about both modules of awscost, which share no name so that it can extend both |
| `LbFailover`, `LbFailoverProofs` | the failover agent, between FRR's sessions and the AWS API |
| `KubeUpgrade`, `KubeUpgradeProofs` | the upgrade playbook, its failures, re-runs and reboots |

### FeedHub

A step is what one goroutine does between two points at which another can run.
`publish` holds `hub.mu` from the store in `hub.state` (`PublishBegin`) over one
`enqueue` per client to the unlock (`PublishEnd`), and every other user of
`hub.mu` (`Register`, `Refuse`, `Snapshot`, `Unregister`) waits for it. An
`enqueue` is two steps, because it leaves `client.mu` before it sends on
`notify`: `EnqueueAdd`, `EnqueueNotify`. `take` is one step under `client.mu`.
Clients are fanned out to in any order (Go ranges over a map), seeds are written
in any order, and the ready cases of the session's `select` are taken in any
order.

| model | code (`apps/wsfeed/main.go`) |
|---|---|
| `state`, `clients`, `sessions` | `hub.state`, `hub.clients`, the counter of `hub.sessions` |
| `publishing`, `todo`, `adding` | the holder of `hub.mu` inside `publish`: its subject, the clients it has not reached, the client whose notify it has not sent |
| `pending`, `order`, `notify` | the fields of `client` |
| `pc`, `seed`, `out`, `outOrder` | where `serveWS` is, and the envelopes it holds in locals |
| `recv` | the last envelope written to the browser, per subject |
| `gone` | the context of `CloseRead` is cancelled |
| `main`, `quiet`, `waited`, `drained` | `main` after the server is up; `Shutdown` returned nil; `drain`'s goroutine is back from `Wait`; what `drain` returned |

Data is abstracted to what the properties tell apart: an envelope is a subject
and a version, the number of envelopes published for that subject. The two
consume loops are the environment: any subject may be published at any time, which
also covers what they do while the process shuts down. The websocket library and
the network are the failures they can cause: `Accept` fails or not, a write fails
at any time (`WriteFails`, which includes `writeJSON`'s ten seconds), the client
disconnects at any time, the close handshake ends.

### LatestFeed

The promise without queues, locks and wake-ups: a latest value per subject; a
client with an open session is sent values it has not seen, newer than what it
has, maybe not each of them; closing forgets. `FeedHub!Feed` is the refinement
mapping: `latest` is `hub.state`, `open` the clients with a session, `seen` what
they were sent last; the process's end closes every session.

### VisitCounter

One loop: `Read` is one iteration of `ReadMessage` and what the loop does with
the record (`Skip`, `Accumulate`, `EndReplay` or `CountLive`), `Publish` hands a
URL's values to the writer, `Answered` is the return of `WriteMessages` with
success, error or after four seconds. Kafka is external: it appends visits
(`Visit`), deletes old ones (`Expire`), and lets a write land or fail at any time
(`Land`, `Fail`), also after the loop stopped waiting. The reader's lag is that of
the client library: the end of the log known from some fetch at or after the
record, minus the offset. `Restart` is any end of the process followed by a start.
A record's time is its position in the log, so `last` is compared, not formatted.
`lost` and `from` are history variables that only the properties read.

### LbFailover

One round of `lb-failover.sh` is a chain of external calls: `ReadSessions`
(`live_nodes`), `ReadRoute` (`current_target_eni`), `ReadEni` (`eni_ip` and the
sticky test), `Resolve` (the lowest live IP and `ip_eni`), `Replace`. Each starts
from what the earlier ones returned (`live`, `curEni`, `targetEni`), and `CallFails`
ends the round in any of them, for an error of the API as for a restart by
systemd. Between two calls nodes are terminated and replaced (a new ENI, the same
IP) and sessions come and go; the session of a node that is gone ends with the hold
timer. A node is the rank of its IP; an ENI is a node and a generation. AWS and FRR
are external. What AWS answers when asked for a deleted ENI is a constant:
`UnknownFails = FALSE` is the answer the comment of `eni_ip` expects, an empty
result; `TRUE` is an error. `unchanged` is a history variable for the properties.

### LiveFeed

A topic is every record ever written and the positions compaction has deleted, each
of them superseded by a newer record of its key. `Consume` is one iteration of
`consumeClusterInfo` or `consumeVisitCounts`: the next record that is left, dropped
or published under `SubjectOf`. A replica that restarts reads from `FirstOffset` and
is connected to meanwhile. Of `FeedHub` it takes what that implements: `Connect`
takes the snapshot (`base`), `Message` delivers a value that is not older than the
snapshot and newer than the last one sent. The page is `ws.onmessage` (a row is
set, or dropped when its value is too old) and the minute's `Sweep`; it keeps its
rows over a reconnection. `Write` may write any key, none, and values that are no JSON. Every record
has a time, since both producers set it (`apps/visitcounter/main.go:132`,
`apps/clusterinfo/main.go:226`); what wsfeed does with one that has none, to take its own clock
(`apps/wsfeed/main.go:227-230, 261-264`), is left out.

### VisitPath

A request has three parts: where edge is with it (`req`), where the replica it
was handed to is (`work`), and what became of its visit (`visit`). `PublishVisit` is
`WriteMessages` of an asynchronous writer: the visit is pending, or refused by a
writer that is being closed, or failed with the broker or a cancelled context; the
error is discarded. `WriteBatch` is the writer's own goroutine and its
`Completion`. `Sigterm` begins `Shutdown`, which returns when no request is active
(`ShutdownReturns`) or after five seconds (`ShutdownExpires`); `Exit` comes after the
deferred `visitW.Close`, which waits for the pending batches; `Die` is a SIGKILL or a
`log.Fatal`. net/http's promise (what `Shutdown` waits for, that it ignores hijacked
connections) and kafka-go's (what `Close` waits for) are external. static and wsfeed are no
servers here but what edge sees of them: an answer, a session, or a 502. The probes and the
response's text are left out.

### ClusterAspects and ClusterInfo

Each aspect of `clusterinfo/main.go` is one operator from a list of the API's items
to the SET of bodies it may publish, with what a message of that aspect sums, counts, sorts and
cuts. What `sort.Slice` may leave is every bijection from places to indices that is in the order of the
ranks (`Sorted`). That is one order where no ranks are equal; of equal ones the code takes the order
which the list's leads to, the model any. A sum is the number of its units (`Total`), and a Go map
that the loop assigns to is a table whose rows come from the last container with the key (`Assigned`).
Quantities are integers in the unit the code prints, cut as `int64` cuts them; where a cut goes
through a float, `Lossy` names the values that lose a hundredth in float64: the ones whose product
falls short of the integer it should be. What the API lists is constrained by `ViewsAreListings`. `ClusterInfo` is the
loop: a tick picks any aspect, `CallAnswers`, `CallFails` and `LastCallAnswers` its
API calls, of which `versions` has three and `cilium-policies` two, then the write.
Time is in intervals of 500ms, and only calls and writes take any; each ends at the latest
with its own deadline (`CallExpired`, `WriteExpired`), except `ServerVersion`, which
only the client's timeout ends.

### AwsLoops and AwsCost

`AwsLoops` is `runLoops`: the first estimate and actual one after the other, then
`select` over two tickers, each of whose channels holds one tick; cycles that take
up to their deadline; the heartbeat that only the estimate stores; the days an
actual cycle asks for. `AwsCost` is what an estimate does: credentials, two
listings between which the fleet may change, price lookups that may fail and are
cached once they succeed, `Compute` and the gauges. `PriceLists` says what AWS may answer to a price
query: lists of documents, of which `Fetched` reads the first, each with any numbers, blank and garbled
entries; `parseOnDemandUSD` returns the first of the numbers in the order of a Go map, so any of them, and
the book keeps that one. A volume may be attached to several instances (Multi-Attach) and is then recorded for each of
them. A gauge, once recorded, is exported as long as the process runs, as the SDK does.

### KubeUpgrade

`Start` is play 0, which reads each node's version into `fact`; then the nodes one
after the other, in the order of the plays, each with the tasks of `Steps`. A task is skipped
(`Skip`, where its `when` says so), succeeds, or fails with its effect or without
it (`Fail`); in the block of `upgrade_kubelet.yml` a failure goes to `Rescue`. `Lost`
ends a run without one. A run may be started again whenever none is on, and a
`Reboot` starts the kubelet that is installed.

## 3. Runs

| run | instance | asks |
|---|---|---|
| `hub` | 2 clients, cap 2, 1 subject, 2 envelopes, symmetric clients | Do queue, wake-up and order survive every interleaving with `publish` of sessions that join, stream, fail and leave during a fan-out; is each step one of `LatestFeed`; does a drain that succeeds leave nobody? |
| `hub_live` | 2 clients, cap 1, 2 subjects, 1 envelope each, fair, no symmetry | The cap; catching up (`LatestFeed`'s own liveness); a shutdown that ends by itself |
| `counter` | 3 URLs, cap 2, log of 4, 1 restart, 1 write timed out, fair | Counts equal the log; published values differ for a reason; no climbing over a restart; every counter arrives |
| `visitpath` | 2 requests of any kind, edge, 1 helloworld, 2 faults, fair | What is lost when servers stop and die; every shutdown ends |
| `livefeed` | 2 replicas, 1 key (and the empty one), 2 records over both topics, 2 faults, 1 tick, fair | Replicas agree at the end of a topic; the page converges |
| `clusterinfo` | 17 aspects over lists of at most 3 items, deadlines of 2 intervals, fair | Heartbeat; sums and offenders of each body, one body where nothing ties; the end on a signal |
| `awsloops` | a day of 8 units, an estimate every 4, an actual every 8, cycles of 1, window of 2, 5 days | Heartbeat of the two cycles; no completed day is missed |
| `awscost` | 2 instances of one type, 2 volumes of two, price lists that are empty, garbled or ambiguous, 3 changes of the fleet, fair | All values are at one quoted price per type; in the end every charged part is exported and each cycle records exactly those |
| `lb` | 3 nodes, 3 changes, 1 replacement each, fair | Never off a live node; off a dead one in the end |
| `lb_unknown` | the same, AWS answers a deleted ENI with an error | **violated**: the route leaves a dead target |
| `upgrade` | 2 control planes, 2 workers that play 0 may miss, 3 failures, fair | Skew; what is passed is finished; re-runs repair |
| `upgrade_rerun` | 3 nodes, 1 failure | **violated**: a re-run finishes a failed run |

Why the bounds are enough. Sessions share only `hub.mu`, the cap and the
WaitGroup: one session shows everything about a queue, two show a fan-out that
has reached one and not the other, and two with a cap of one show a refusal beside
a session. Two versions are one that is written while the other is queued, or one in
the seed and one in the queue; two subjects (`hub_live`) have an order in the queue and in what
`take` returned. The proofs of `FeedHub` have no bounds.
The counter needs three
URLs over a cap of two: two that are counted, so that a replay ends with more than
one to publish, and one that is not; a log of four has a restart in the middle
with records on both sides of it and retention between. `VisitPath` needs two requests,
one that is late and one that is not; `LiveFeed` two records, since both of its
properties fail, if they do, over the newest record of a subject and one more: an
older one of its key or one that is dropped. `ClusterInfo`'s heartbeat depends on the
deadlines only, and is proved for all of them; the lists are as long as the cut
list of offenders and one more. The day of `AwsLoops` begins at any moment of the
schedule, and five days are the window, the day that slips and the days it is
reported on. `AwsCost` needs a volume that moves between two instances between the
two listings, a type whose first document has two numbers and one whose first document is not its only one, and
three changes: an instance, its volume, and a state in between. The agent needs three nodes, a target and two to
choose from, and three changes: the target dies, the chosen node changes before
the route is replaced, and one of them comes back. The upgrade needs a secondary
control plane and two workers, and three failures: one that leaves something behind, one in
the run that meets it, one more.

`hub`, `hub_live`, `awscost` and the `upgrade` runs check deadlock: `FeedHub` stutters only
when the process has exited, awscost begins cycle after cycle, and the playbook can be run again.
In the others the bounded system really ends: requests are answered and servers have exited, the log was
read, the clock stands, or, for the agent, a round ends where it began.

Every property of a passing run has a mutant in its module: a plausible bug (an
unbuffered `notify`, a first-wins queue, a cap off by one, a seed written beside
the loop, a second `Done`, no `visitW.Close`, `srv.Close` for `srv.Shutdown`, an ignored
`ParseFloat` error, a window of days that is one short, the
version that play 0 reads taken from another package, ...) under which TLC finds
that property violated.

### Fairness

`FeedHub!Fairness`: a goroutine that can run does (a fan-out in progress, each
session), and a write ends within its ten seconds, with or without success.
`ShutdownReturns`, `WaitReturns` and `DrainReturns` are fair because each is one
goroutine's only step. Nothing is assumed of the browser, of the feeds, of
SIGTERM or of the five-second timeouts, so `GracefulExit` does not owe its result
to one.

`VisitCounter!Fairness`: the loop runs, `ReadMessage` returns a record that is
there, `WriteMessages` returns, and Kafka answers a write one way or the other.
Nothing is assumed of visitors, of retention or of restarts.

`VisitPath!Fairness`: the timer of `Shutdown` fires, the writer ends its batches
(kafka-go bounds its attempts), main returns. No handler has to end.

`LiveFeed!Fairness`: a consumer that failed to read tries again, the page reconnects
(to a replica of the Service's choice, so not to a particular one) and sweeps, and the
sessions deliver, which is what `FeedHub` provides (`ImplementsFairFeed`).

`ClusterInfo!Fairness`: a call or a write ends at its deadline at the latest. That
the loop stops when a tick and the signal are ready at once is strong fairness: Go's
`select` picks among ready cases at random, again in every poll.

`AwsCost!Fairness`: cycles go on; a call that is made in every cycle does not fail
in all of them (strong fairness, since each failure ends the cycle), and a price that is asked for in
every cycle is answered in one of them with a document that has a price. Nothing is
assumed of the fleet.

`LbFailover!Fairness`: the loop goes on (systemd restarts it), the hold timer of a
session whose peer is gone fires, and a call that is made again every
`POLL_SECONDS` does not fail for ever. The last is strong fairness, since a failure
ends the round and the call is only made again in the next one. Nothing is assumed
of nodes; `FailsOver` is about what happens once they have stopped changing.

`KubeUpgrade!Fairness`: a run goes on, and the operator runs the playbook again after
a failure. Nobody reboots a node.

## 4. Findings

* **A deleted ENI stops the failover** (`lb_unknown`). `eni_ip` asks for an ENI by
  id; its comment (`tf/aws/border/lb-failover.sh:61`) expects an empty result when
  the ENI no longer exists. The EC2 API answers an unknown id with the error
  `InvalidNetworkInterfaceID.NotFound`, which lines 93-95 treat as transient: the
  route stays on the deleted ENI in this round and in every later one. With the
  empty answer `FailsOver` holds (`lb`). What AWS answers is not in this repository;
  a filter on the id, as `ip_eni` uses one for the IP, would not depend on it.
* **A re-run does not finish every failed upgrade** (`upgrade_rerun`). The rescue of
  `ansible/tasks/upgrade_kubelet.yml:66` says "node uncordoned again; packages may
  be partially upgraded — re-run after fixing". Play 0 (`ansible/upgrade.yml:55-64`)
  takes `kubelet --version`, the version of the installed binary, for the running
  one. If a run fails between the package and the restart, the next run finds the
  target version, skips drain, restart and uncordon, and its last task fails since
  the old kubelet still runs; so does every further run, until somebody restarts the kubelet
  or the node. A node lost while cordoned stays cordoned in the same way.
  `RerunRepairs` states what a re-run does repair.

Differences between the code and its comments that need no model to be seen, met on the way:

* `apps/visitcounter/main.go:138-141` says counts are accumulated until the reader
  reports no lag. The loop looks at the lag only after it has counted a record
  (line 176): if the newest retained record is skipped, it goes on replaying until the next
  one it counts. `CountsArrive` has the exception (`TailSkipped`).
* `apps/visitcounter/main.go:1-2` and `apps/kafka-topics.yaml:6-7` call a count a sum
  over the retained window. Nothing is subtracted when a record expires;
  `CountsMatchLog` says what a count is: a sum over what was read since the start.
* The header of `tf/aws/border/lb-failover.sh` (line 9) says the route leaves a node
  that is "no longer an Established peer"; `live_nodes` (lines 36-42) also drops an
  Established peer without a prefix as soon as another has one. `NeverOffLive` uses
  the code's notion; with the header's it is violated (TLC), and no property covers the switch
  from one to the other.
* A series that was recorded once is exported for as long as awscost runs
  (`apps/awscost/emit.go:37`), so an instance that was stopped or terminated keeps
  the series of its former state beside the new one, while
  `apps/awscost/QUERIES.md:15` adds segments to a total.
  `docs/reviews/2026-10-25-adversarial-review.md` discusses it. `NeverGuessed`
  is about each series, not about their sum. The same goes for a series that joins an instance and a volume of two
  moments (`apps/awscost/poller.go:215-219`): `CatchesUp` says that later cycles do not record it, not that it goes.
* A price is cached for the life of the process (`apps/awscost/poller.go:58, 78`), so a change of AWS's
  prices shows after a restart. `apps/awscost/pricing.go:82` expects one number per document;
  of several, it takes the first in the order of a map. `NeverGuessed` says that all series of a type then have the same of them.
* Without a nil from `Shutdown`, `drain` may report success with a session left: `sessions.Add` can come after its
  `Wait` (`apps/wsfeed/main.go:162`). `DrainedMeansIdle` has that condition, and is violated without it (TLC).
* A control plane that fails play 0 is left out of the plays that follow, which go on to the
  workers: with a control plane in `MayMiss`, `KubeletNotAhead` is violated (TLC) while its
  API server is old. The runs and the theorem have workers only in `MayMiss`.
* Capacities are cut to hundredths through `float64`
  (`apps/clusterinfo/main.go:328`): 0.29 cores are published as 0.28. `SummariesAddUp` allows one
  hundredth below and none above.
* What clusterinfo publishes can change with the order in which the API lists, while the cluster stands still: pods
  of equal restarts (`apps/clusterinfo/main.go:306`) or CPU (line 498), of which another may fall under the cut;
  services with one IP (line 382); the pools, which are not sorted; and two images in `versions`
  that give one key different tags (two releases of one image while it rolls out, or the tag of `strimzi` from
  `kafka` and from its `operator`). `OneRowUnlessTied` says that this is all: with none of these ties,
  the body is one, whatever the order.

## 5. Proofs

Eight modules hold theorems; every one of them is proved for all values of the
constants under the assumptions named in the component's module (`ASSUME`), which
TLC evaluates in the component's run. Each follows the same plan: an inductive
invariant `IInv`, `Init => IInv`, `IInv /\ [Next]_vars => IInv'` with one step per
action, and the property from `IInv`.

**FeedHub** (`FeedHubProofs`, for every set of subjects, every finite set of clients,
every positive cap and every bound on versions): `TypeCorrect`, `AdmissionBounded`,
`QueuesConsistent`, `NoWakeupLost`, `UpdatesNotLost`, the action property
`NeverSentBackwards`, and `DrainedIdle`, with a second invariant `Drained` over the first.
`HubImplementsFeed` says: `Spec => Feed!Spec`, step by step: a
publication is an update, a registration opens, a write delivers or repeats, the
end of a session or of the process closes, everything else stutters.

Why the invariant is what it is. `NoLostUpdate` says where the latest envelope can
be. A step that moves an older one over it would break it, so versions on their
way must be ordered (`Ordered`: received, seed, being written, queued, in the hub).
`Ordered` in turn needs that what is queued is the latest up to the fan-out in
progress (`Current`), since a snapshot may be taken when something is queued; that
needs `hub.mu` (`FanOut`: nothing is left of a fan-out when the lock is free, and
only registered clients are in one), and that a session's seed and batch exist
only where `serveWS` has them (`Phases`). The write of take's result pops the head
of `order`, so it needs that `order` and `pending` agree (`QueueConsistent`), and
`Current` needs that a session that streams is registered (`Admission`).

**VisitCounter** (`VisitCounterProofs`, any finite set of URLs, any cap):
`TypeCorrect`, `CountsMatch`, `StaleHasReason`, and the action property `CountsNeverFall`. The cap makes a count more than a
sum: `CountsMatchLog` speaks of the first `MaxURLs` distinct URLs of the log, the
code of the size of a map. That both agree needs `Full`: every URL seen is counted or the
map is full, so a URL turned away once is turned away always; the lemmas show what one more
record does to the tallies. `StaleForAReason` is not inductive, since a write
that lands may bring an old value over a newer one: `Latest` says that the last write in flight
of a URL that is not due has its current values, and that without one and without a failure
visit-counts has them. The existence of a last write comes from the well-foundedness of the naturals.
`NoClimbing` compares a value that lands with one that landed before, maybe in an earlier life of
the process. `Climbs` orders what is on its way: a write in flight has no smaller count than
those that landed or are in flight before it (`Rising`), the current count is no smaller than
either (`Ahead`) unless a replay is still behind them; and a replay is silent and goes on to an
end of the log that was known (`QuietReplay`), where the tallies, which only grow with the log
(`TallyGrows`), have passed every value published before.

**VisitPath** (`VisitPathProofs`, any requests and replicas): `TypeCorrect`,
`ExitFlushes`, `AcceptedAnswered`. A replica whose `Shutdown` returned in time has
answered everything it accepted (`BackendQuiet`), so nothing is published after
`visitW.Close` began, and `Exit` waits for what is pending; an edge in time has
only `/ws` sessions (`EdgeQuiet`).

**LiveFeed** (`LiveFeedProofs`, any keys, replicas and bounds): `TypeCorrect`, `EveryReplicaAgrees`. A
replica has, of each subject, what it read up to its offset, except what was deleted
before it came there; only superseded records are deleted, and superseding is for good.
That the page shows only versions that were written needs that a replica's offset is within
its log, and that a snapshot is taken of what the replica has (`Shown`).

**ClusterInfo** (`ClusterInfoProofs`): `TypeCorrect`, `HeartbeatIsFresh`, for all deadlines with
`TimeoutsLeaveRoom`, which the code's 5, 5, 4 and 30 seconds satisfy: a call is within its
deadline, a write within its own from a begin within the call's (`Clocks`).
What a poll publishes is proved for every list the API may give, under `ViewsAreListings`: items of
the fields an aspect reads, no name twice. `Viewed` says that a write's body is made of the list this poll read,
for its aspect (`WritesWhatItRead`); the rest is about the operators of `ClusterAspects`, of any list.
`WorstAreListed` (`Spec => []OffendersFirst`): `TopIsWorst` compares what an order leaves before and after the cut.
`SummariesAgree` (`Spec => []SummariesAddUp`): counts of complementary parts; and, for the services,
that the sizes of the classes of a set add up to its size (`ClassesAddUp`). `OrderOnlyBreaksTies`
(`Spec => []OneRowUnlessTied`) has two halves. Without ties a list has one body: a set of distinct
ranks has a smallest, and two orders of it agree place by place (`OneOrder`). And the bodies are those of every other
order of the list: if `r` takes the items of one list to their places in another (`Moved`),
it takes what is picked from the one to what is picked from the other, each order of that to an order
(`SortedMoved`), and each unit of a sum to one (`TotalMoved`); a table of versions ends with the row of the last container
that has the key, which exists since the naturals are well-founded (`HasLast`), and the lists agree on its tag by `OneTagPerKey`.

**LbFailover** (`LbFailoverProofs`, any finite set of nodes): `TypeCorrect` and
`NeverLeavesLive` (`Spec => NeverOffLive`). The invariant says what holds between
the calls: the ENI that was read is still the target of the route when its IP is
asked for, since nothing but the agent moves it; and from the sticky test on, the
target is not a node that is live and unchanged. It cannot become one, because a
node that comes back has changed. Typing needs that a non-empty set of ranks has a
lowest, from the well-foundedness of the naturals.

**KubeUpgrade** (`KubeUpgradeProofs`, any number of nodes and failures): `TypeCorrect`,
`PassedUpgraded`, and `NoKubeletAhead` if `MayMiss` has no control plane. `Progress`
says per task what it owes to the tasks before it, `Installed` that a fact or a running
kubelet that is new comes from an installed package, and for the skew, that a package is
installed only behind the API servers before it.

**awscost** (`AwsProofs`). Of `AwsLoops`, for all intervals with `CyclesFit`: `TypeCorrect`,
`HeartbeatIsFresh`, `NoneMissed`. `CyclesFit` is `main.go`'s "well under either interval" (line 96) as
an inequality: two cycles fit into an interval of each ticker, and an interval with two cycles into
the days that are asked for. The defaults (2 minutes, 1 hour, 24 hours, 2 days) satisfy it.
`Schedule` says how late a tick can be answered: a cycle ends before its own ticker fires
again, so two ticks that wait together have both just fired, and a tick waits for one cycle of the
other kind at the most. The age of the heartbeat is then that of the last tick (`Heartbeat`).
For the days, the invariant `Days` names the day and the hour at which the last actual cycle began: all
days before it are covered, and the next one begins within an interval and a cycle of it
(`WithinTheDays`), before the oldest of them leaves the window. Of `AwsCost`, for every fleet and all price lists:
`CostTypeCorrect` and `NoGuesses`. An entry of the price book is a number of a first document for its type
(`BookIsQuoted`), is there before a sample needs it and is never replaced, so what was exported in any cycle is
still valued at the book (`AtBook`), which is the price list that `NeverGuessed` asks for.

Only model-checked: everything under fairness (`GracefulExit`,
`ImplementsFairFeed`, `CountsArrive`, `FailsOver`, `ShutdownEnds`, `Converges`, `Stops`,
`CatchesUp`, `RerunRepairs`), since ENABLED and liveness are out of the
prover's reach. Every invariant and every `[][A]_vars` of a passing run is a theorem.

## 6. Not modelled, and what is left

* **Two counters at once.** visitcounter's deployment rolls over, so for a while the old and
  the new process both publish. Each publishes the last write per URL; the new one's
  lower or equal count may be followed by the old one's. `VisitCounter` has one
  process and its restarts.
* **The page** beyond rows, ages and reconnection: sorting, filtering and rendering, and the
  growing delay between reconnections.
* **Keys that meet in one subject.** wsfeed cuts the leading slash off a URL
  (`apps/wsfeed/main.go:265`). helloworld writes paths, which all begin with one, so the
  subjects of different URLs differ, as in `LiveFeed`; another producer could write `x` beside `/x`,
  and their rows would alternate.
* **static's file server** (`apps/static/main.go`) keeps no state; `VisitPath` has what edge sees of it.
* **awscost's actual cycle** beyond its window and outcome: the pages of Cost
  Explorer's answer and the names of its groups.
* **The other playbooks and roles, OpenTofu, manifests, Makefiles, CI** are declarative:
  there is no state machine of this repository's in them but that of the tools that apply them.
* **Metrics, tracing and logging** only report.
* **External**: Kafka, Kubernetes, AWS, Ansible, FRR, net/http, kafka-go and the
  WebSocket library are modelled as far as this code depends on them, from how it uses them.
