----------------------------- MODULE ClusterInfo -----------------------------
(***************************************************************************)
(* The clusterinfo process (apps/clusterinfo/main.go): a loop that on each *)
(* tick reads one aspect of the cluster, picked at random, and writes its  *)
(* message to the topic cluster-info, and /healthz, which tells the        *)
(* kubelet to restart a process whose loop no longer ticks.                *)
(*                                                                         *)
(* Time is counted in poll intervals (500ms, so two make a second of       *)
(* time.Now().Unix()).  age is the clock of a poll: its API calls and its  *)
(* write are bounded by deadlines on it.  The Kubernetes API and Kafka are *)
(* external: any call may answer, fail, or hang until its deadline.        *)
(***************************************************************************)
EXTENDS ClusterAspects

CONSTANTS
    Views,         \* Views[aspect]: what the API may list for it
    ApiTimeout,    \* of actx, in intervals (10)
    ClientTimeout, \* of the clients, cfg.Timeout (10)
    WriteTimeout,  \* of wctx (8)
    StallSeconds   \* age of the heartbeat at which /healthz gives up (30)

ASSUME TimeoutsAreNat ==
    {ApiTimeout, ClientTimeout, WriteTimeout, StallSeconds} \subseteq Nat
(* The constants of the code: 10 and 10 intervals, 8 intervals, 30 seconds. *)
ASSUME TimeoutsLeaveRoom ==
    /\ StallSeconds > 0
    /\ ApiTimeout + WriteTimeout <= 2 * StallSeconds
    /\ ClientTimeout + WriteTimeout <= 2 * StallSeconds

VARIABLES
    phase,    \* "idle" in select, "call", "write" or "stopped"
    aspect,   \* the aspect of this poll
    call,     \* which of its API calls is pending
    failed,   \* whether an earlier call of this poll failed
    view,     \* what the API listed
    message,  \* the body being written
    tick,     \* the ticker's channel holds a tick
    term,     \* the signal context is done
    age,      \* intervals since lastTick was stored
    frac,     \* part of a second, in intervals, already gone when it was stored
    since     \* the age at which the write began

pollVars == <<aspect, call, failed, view, message, since>>
vars     == <<phase, pollVars, tick, term, age, frac>>

Aspects == {"nodes", "pods", "namespaces", "restarts", "capacity",
            "deployments", "services", "pvcs", "cilium-bgp",
            "cilium-endpoints", "cilium-identities", "cilium-nodes",
            "cilium-lb-pools", "cilium-policies", "node-metrics",
            "pod-metrics", "versions"}

None == <<>>  \* no view, no message

(* What the API lists: items of one kind, with the fields an aspect reads, *)
(* and no name ("namespace/name") twice.                                   *)
PodPhases == {"Running", "Pending", "Succeeded", "Failed", "Unknown"}

Item(a) ==
    CASE a \in {"nodes", "capacity"} ->
            [name : Nat, conditions : SUBSET (STRING \X STRING), milli : Nat,
             mib : Nat, allocMilli : Nat, allocMib : Nat]
      [] a = "pods"        -> [name : Nat, phase : PodPhases]
      [] a = "restarts"    -> [name : Nat, containers : Seq(Nat)]
      [] a = "deployments" -> [name : Nat, replicas : Nat \cup {NoReplicas}, ready : Nat]
      [] a = "services"    -> [name : Nat, type : STRING, ingress : Seq(Nat)]
      [] a = "pvcs"        -> [name : Nat, phase : STRING, mib : Nat]
      [] a = "cilium-bgp"  ->
            [name : Nat, instances : Seq(Seq([addr : 0..9, state : STRING]))]
      [] a = "cilium-lb-pools" ->
            [name : Nat, disabled : BOOLEAN,
             blocks : Seq([cidr : Nat, start : Nat, stop : Nat])]
      [] a = "node-metrics" -> [name : Nat, cpu : Nat, mem : Nat]
      [] a = "pod-metrics"  -> [name : Nat, containers : Seq([cpu : Nat, mem : Nat])]
      [] OTHER -> [name : Nat]

Listing(items) ==
    {v \in Seq(items) : \A i, j \in DOMAIN v : i # j => v[i].name # v[j].name}

ASSUME ViewsAreListings ==
    /\ \A a \in Aspects \ {"versions", "cilium-policies"} : Views[a] \subseteq Listing(Item(a))
    /\ Views["cilium-policies"] \subseteq [cnp : Listing([name : Nat]), ccnp : Listing([name : Nat])]
    /\ Views["versions"] \subseteq
          [nodes : Listing([name : Nat, info : [InfoFields -> STRING]]),
           pods  : Listing([name : Nat, app : BOOLEAN, images : Seq(Seq(STRING))])]

Init ==
    /\ phase = "idle" /\ tick = TRUE  \* the first poll waits for no tick
    /\ aspect = "nodes" /\ call = 1 /\ failed = FALSE
    /\ view = None /\ message = None
    /\ term = FALSE /\ age = 0 /\ frac \in {0, 1} /\ since = 0

(* The bodies an aspect may publish of a view.                             *)
Summaries(a, v, server) ==
    CASE a = "nodes"       -> Nodes(v)
      [] a = "pods"        -> Pods(v)
      [] a = "namespaces"  -> Namespaces(v)
      [] a = "restarts"    -> Restarts(v)
      [] a = "capacity"    -> Capacity(v)
      [] a = "deployments" -> Deployments(v)
      [] a = "services"    -> Services(v)
      [] a = "pvcs"        -> PVCs(v)
      [] a = "cilium-bgp"  -> CiliumBGP(v)
      [] a \in {"cilium-endpoints", "cilium-identities"} -> Counted(v)
      [] a = "cilium-nodes"    -> CiliumNodes(v)
      [] a = "cilium-lb-pools" -> CiliumLBPools(v)
      [] a = "cilium-policies" -> CiliumPolicies(v.cnp, v.ccnp)
      [] a = "node-metrics"    -> NodeMetrics(v)
      [] a = "pod-metrics"     -> PodMetrics(v)
      [] a = "versions"        -> Versions(server, v.nodes, v.pods)

(***************************************************************************)
(* A poll.                                                                 *)
(***************************************************************************)
Calls(a) == CASE a = "versions" -> 3 [] a = "cilium-policies" -> 2 [] OTHER -> 1

(* Discovery().ServerVersion takes no context: only cfg.Timeout ends it.   *)
NoContext == aspect = "versions" /\ call = 1

CallExpiredUnbounded ==  \* mutant: no cfg.Timeout
    ~NoContext /\ (term \/ age >= ApiTimeout)

CallExpired ==
    IF NoContext THEN age >= ClientTimeout ELSE term \/ age >= ApiTimeout

(* A failed call does not end the poll where the code goes on without it:  *)
(* ServerVersion, and the first of the two lists of policies.              *)
FailureCanWaitLast ==  \* mutant: goes on after any call
    aspect \in {"versions", "cilium-policies"}

FailureCanWait == call = 1 /\ aspect \in {"versions", "cilium-policies"}

(* The start of poll: the heartbeat is stored before anything that can     *)
(* hang.  main's select may pick the tick even when ctx is done as well.   *)
Poll(a) ==
    /\ phase = "idle" /\ tick
    /\ tick' = FALSE
    /\ age' = 0 /\ frac' \in {0, 1}
    /\ phase' = "call" /\ aspect' = a /\ call' = 1 /\ failed' = FALSE
    /\ UNCHANGED <<view, message, term, since>>

NextCall(ok) ==
    /\ call' = call + 1 /\ failed' = (failed \/ ~ok)
    /\ UNCHANGED <<phase, aspect, view, message, since, tick, term, age, frac>>

EndPoll ==
    /\ phase' = "idle"
    /\ view' = None /\ message' = None /\ call' = 1 /\ failed' = FALSE
    /\ since' = 0
    /\ UNCHANGED <<aspect, tick, term, age, frac>>

CallFails ==
    /\ phase = "call"
    /\ IF FailureCanWait THEN NextCall(FALSE) ELSE EndPoll

CallAnswers ==
    /\ phase = "call" /\ call < Calls(aspect) /\ ~CallExpired
    /\ NextCall(TRUE)

(* The last call answers: the message is made and its write begins, unless *)
(* an earlier list had failed (e1).                                        *)
LastCallAnswers ==
    /\ phase = "call" /\ call = Calls(aspect) /\ ~CallExpired
    /\ IF failed /\ aspect = "cilium-policies" THEN EndPoll
       ELSE \E v \in Views[aspect] :
            /\ view' = v
            /\ message' \in Summaries(aspect, v, ~failed)
            /\ phase' = "write" /\ since' = age
            /\ UNCHANGED <<aspect, call, failed, tick, term, age, frac>>

WriteExpired == term \/ age - since >= WriteTimeout

(* WriteMessages returns: written, refused or given up, poll returns.      *)
Written == phase = "write" /\ EndPoll

(***************************************************************************)
(* The signal, the end of main, and time.                                  *)
(***************************************************************************)
Terminate ==
    /\ phase # "stopped" /\ ~term
    /\ term' = TRUE
    /\ UNCHANGED <<phase, pollVars, tick, age, frac>>

StopAfterWrite ==  \* mutant: ctx is only looked at after a write
    /\ phase = "write" /\ term
    /\ phase' = "stopped"
    /\ UNCHANGED <<pollVars, tick, term, age, frac>>

Stop ==
    /\ phase = "idle" /\ term
    /\ phase' = "stopped"
    /\ UNCHANGED <<pollVars, tick, term, age, frac>>

(* Nothing but a call or a write takes time, and neither outlasts its      *)
(* deadline; a ticker drops the ticks its channel has no room for.         *)
Waiting ==
    \/ phase = "call" /\ ~CallExpired
    \/ phase = "write" /\ ~WriteExpired
    \/ phase = "idle" /\ ~tick /\ ~term

Advance ==
    /\ Waiting
    /\ age' = age + 1 /\ tick' = TRUE
    /\ UNCHANGED <<phase, pollVars, term, frac>>

Next ==
    \/ \E a \in Aspects : Poll(a)
    \/ CallFails \/ CallAnswers \/ LastCallAnswers
    \/ Written \/ Terminate \/ Stop \/ Advance

(* A call or a write returns at the latest when its deadline has passed,   *)
(* and select picks any case that is ready again and again with            *)
(* probability one.                                                        *)
Fairness ==
    /\ WF_vars(CallFails \/ CallAnswers \/ LastCallAnswers \/ Written \/ Advance)
    /\ SF_vars(Stop)

Spec == Init /\ [][Next]_vars /\ Fairness

(***************************************************************************)
(* Properties.                                                             *)
(***************************************************************************)

Longest == IF ApiTimeout > ClientTimeout THEN ApiTimeout ELSE ClientTimeout

(* Types: a poll is at one of its calls, within the deadlines that bound   *)
(* it, and the write's clock is not ahead of the poll's.                   *)
TypeOK ==
    /\ phase \in {"idle", "call", "write", "stopped"}
    /\ aspect \in Aspects /\ call \in 1..Calls(aspect)
    /\ failed \in BOOLEAN /\ tick \in BOOLEAN /\ term \in BOOLEAN
    /\ age \in Nat /\ frac \in {0, 1} /\ since \in 0..Longest

(* /healthz never asks for a restart: however the API and Kafka hang, the  *)
(* heartbeat stored at the top of a poll is renewed before it is           *)
(* StallSeconds old (serveHealth counts in whole seconds).                 *)
HeartbeatFresh == (age + frac) \div 2 <= StallSeconds

(* The lists of worst offenders are what they say: an item that is left    *)
(* out is no worse than any that is listed, and an item is left out only   *)
(* when the list is full or when it has nothing to report.                 *)
Worst(top, n, Measure(_)) ==
    LET listed(i)   == \E j \in DOMAIN top : top[j].pod = view[i].name
        leftOut     == {i \in DOMAIN view : ~listed(i)}
        measures    == {Measure(view[i]) : i \in DOMAIN view \ leftOut}
    IN  \A i \in leftOut :
            /\ \A m \in measures : Measure(view[i]) <= m
            /\ Cardinality(DOMAIN view \ leftOut) < n => Measure(view[i]) = 0

OffendersFirst ==
    phase = "write" =>
    /\ aspect = "restarts"    => Worst(message.top, TopRestarts, Restarted)
    /\ aspect = "pod-metrics" => Worst(message.top, TopCPU, CPU)

(* The numbers of a row agree with each other and with what was read:      *)
(* every deployment and every peer is on one side, every pod in a phase or *)
(* in none of the four, every service under a type; cores are cut, never   *)
(* rounded up, by less than two hundredths; and no count of policies is    *)
(* published that stands for a list that was not answered.                 *)
SummariesAddUp ==
    phase = "write" =>
    /\ aspect = "deployments" =>
         /\ message.ready + Len(message.notReady) = message.total
         /\ \A i \in DOMAIN view :
              Contains(message.notReady, view[i].name) <=>
              IF view[i].replicas = NoReplicas THEN view[i].ready = 0
              ELSE view[i].replicas > view[i].ready
    /\ aspect = "cilium-bgp" =>
         message.established + Len(message.down) = message.peers
    /\ aspect = "pods" =>
         message.total - Cardinality({i \in DOMAIN view : view[i].phase = "Unknown"}) =
         message.running + message.pending + message.succeeded + message.failed
    /\ aspect = "services" =>
         /\ message.total = Total(message.byType)
         /\ message.loadbalancers # <<>> => "LoadBalancer" \in DOMAIN message.byType
    /\ aspect = "capacity" =>
         LET milli == Total([i \in DOMAIN view |-> view[i].milli])
         IN  10 * message.cpu <= milli /\ milli < 10 * message.cpu + 20
    /\ aspect = "cilium-policies" =>
         /\ ~failed
         /\ message.namespaced = Len(view.cnp) /\ message.clusterwide = Len(view.ccnp)

(* The API promises no order for what it lists.                            *)
Arrangements(s) ==
    {[i \in DOMAIN s |-> s[p[i]]] : p \in Bijection(DOMAIN s, DOMAIN s)}

Reordered(v) ==
    CASE aspect = "versions" ->
           {[nodes |-> l[1], pods |-> l[2]] :
               l \in Arrangements(v.nodes) \X Arrangements(v.pods)}
      [] aspect = "cilium-policies" -> {v}
      [] OTHER -> Arrangements(v)

OneTagPerKey(pl) ==
    \A table \in {"platform", "apps"} : \A c, d \in Containers(pl) :
        \A r \in RowsOf(pl, c, table), s \in RowsOf(pl, d, table) :
            r.key = s.key => r.tag = s.tag

(* Whether what is published may keep something of the list's order: two   *)
(* items that are equal to the sort, two images with different tags for    *)
(* one key (the last one wins), and the pools always, which are not        *)
(* sorted.                                                                 *)
NoTie(rank) == \A x, y \in DOMAIN rank : rank[x] = rank[y] => x = y

Untied(v) ==
    CASE aspect = "restarts"    -> NoTie([i \in Offenders(v) |-> -Restarted(v[i])])
      [] aspect = "pod-metrics" -> NoTie([i \in DOMAIN v |-> -CPU(v[i])])
      [] aspect = "services"    -> NoTie([x \in VIPs(v) |-> v[x[1]].ingress[x[2]]])
      [] aspect = "cilium-bgp"  ->
            LET peer(x) == v[x[1][1]].instances[x[1][2]][x[2]]
            IN  NoTie([x \in {y \in Peers(v) : peer(y).state # "established"} |->
                          10 * v[x[1][1]].name + peer(x).addr])
      [] aspect = "versions"    -> OneTagPerKey(v.pods)
      [] aspect = "cilium-lb-pools" -> FALSE
      [] OTHER -> TRUE

(* But for ties the row of an aspect is a function of the cluster: there   *)
(* is one body that can be published of the items listed, and it is the    *)
(* same one in whatever order they are listed.                             *)
OneRowUnlessTied ==
    phase = "write" /\ Untied(view) =>
        \A v \in Reordered(view) : Summaries(aspect, v, ~failed) = {message}

(* A signal ends the process, whatever call or write it interrupts.        *)
Stops == term ~> phase = "stopped"
=============================================================================
