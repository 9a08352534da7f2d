--------------------------- MODULE ClusterAspects ---------------------------
(***************************************************************************)
(* What clusterinfo (apps/clusterinfo/main.go) publishes of what it reads: *)
(* one operator per aspect, from the items the API listed to the body of   *)
(* the Kafka message.                                                      *)
(*                                                                         *)
(* Data: a name, and a "namespace/name", is a number whose order is the    *)
(* order of the strings.  An operator returns the SET of bodies the code   *)
(* can publish: what sort.Slice makes of equal items depends on the order  *)
(* of the list and on its length, and is left open.                        *)
(***************************************************************************)
EXTENDS Integers, Sequences, FiniteSets, Functions, SequencesExt, TLC

CONSTANTS
    TopRestarts,  \* offenders listed by aspectRestarts (5)
    TopCPU,       \* pods listed by aspectPodMetrics (8)
    Lossy         \* millicores m for which float64 has (m/1000)*100 < m/10

ASSUME TopsAreNat == {TopRestarts, TopCPU} \subseteq Nat
(* Thousandths with a denominator of a power of two are exact.             *)
ASSUME LossyIsInexact == Lossy \subseteq {m \in Nat : m % 10 = 0 /\ m % 125 # 0}

(***************************************************************************)
(* Loops over a list.  What the code appends while it goes through one is  *)
(* named by its index, or the indices of nested loops.                     *)
(***************************************************************************)
(* The sum of the values of f, which are naturals: the number of units.    *)
Units(f) == UNION {{x} \X (1..f[x]) : x \in DOMAIN f}
Total(f) == Cardinality(Units(f))

(* sort.Slice by an ascending rank of what was appended: every order in    *)
(* which it may leave the indices.  It is one order where no two ranks are *)
(* equal; among equal ones the code takes the one that the list's order    *)
(* leads to, here any of them.                                             *)
Sorted(rank) ==
    LET D == DOMAIN rank
    IN  {p \in Bijection(1..Cardinality(D), D) :
            \A j, k \in DOMAIN p : j < k => rank[p[j]] <= rank[p[k]]}

Upto(p, n) == {k \in DOMAIN p : k <= n}

SortedNamesForgotten(s, K) ==  \* mutant: no sort.Strings
    {[k \in DOMAIN p |-> s[p[k]].name] : p \in Sorted([i \in K |-> i])}

(* sort.Strings of the names of the items with an index in K.              *)
SortedNames(s, K) ==
    {[k \in DOMAIN p |-> s[p[k]].name] : p \in Sorted([i \in K |-> s[i].name])}

(***************************************************************************)
(* The aspects of the core API.                                            *)
(***************************************************************************)
Nodes(nl) ==
    LET ready == {i \in DOMAIN nl : <<"Ready", "True">> \in nl[i].conditions}
    IN  {[total |-> Len(nl), ready |-> Cardinality(ready), names |-> names] :
            names \in SortedNames(nl, DOMAIN nl)}

Pods(pl) ==
    LET phase(f) == Cardinality({i \in DOMAIN pl : pl[i].phase = f})
    IN  {[total |-> Len(pl), running |-> phase("Running"),
          pending |-> phase("Pending"), succeeded |-> phase("Succeeded"),
          failed |-> phase("Failed")]}

Namespaces(nl) ==
    {[count |-> Len(nl), names |-> names] : names \in SortedNames(nl, DOMAIN nl)}

Restarted(p) == Total(p.containers)

OffendersCutFirst(pl) ==  \* mutant: cut to the top before the sort
    {i \in DOMAIN pl : Restarted(pl[i]) > 0 /\ i <= TopRestarts}

Offenders(pl) == {i \in DOMAIN pl : Restarted(pl[i]) > 0}

Restarts(pl) ==
    {[total |-> Total([i \in DOMAIN pl |-> Restarted(pl[i])]),
      top |-> [k \in Upto(p, TopRestarts) |->
                 [pod |-> pl[p[k]].name, restarts |-> Restarted(pl[p[k]])]]] :
        p \in Sorted([i \in Offenders(pl) |-> -Restarted(pl[i])])}

(* round(milli / 1000) in hundredths: the product f*100 of a value that    *)
(* binary floating point cannot hold may fall below the exact hundredth    *)
(* and is then cut to the one before it (0.29 becomes 0.28).               *)
CutCores(milli) == (milli \div 10) - (IF milli \in Lossy THEN 1 ELSE 0)

(* round(mib / 1024) in hundredths: exact in floating point.               *)
CutGiB(mib) == (mib * 100) \div 1024

Capacity(nl) ==
    LET sum(f) == Total([i \in DOMAIN nl |-> nl[i][f]])
    IN  {[cpu |-> CutCores(sum("milli")), memory |-> CutGiB(sum("mib")),
          allocCPU |-> CutCores(sum("allocMilli")),
          allocMemory |-> CutGiB(sum("allocMib"))]}

NoReplicas == -1  \* spec.replicas is nil
WantedZero(d) ==  \* mutant: no default of one replica
    IF d.replicas = NoReplicas THEN 0 ELSE d.replicas
Wanted(d)  == IF d.replicas = NoReplicas THEN 1 ELSE d.replicas

Short(dl) == {i \in DOMAIN dl : dl[i].ready < Wanted(dl[i])}

Deployments(dl) ==
    {[total |-> Len(dl), ready |-> Cardinality(DOMAIN dl \ Short(dl)),
      notReady |-> names] : names \in SortedNames(dl, Short(dl))}

Nil == 0  \* an empty string among addresses

(* The addresses of the load balancers: <<service, ingress>>.              *)
VIPs(sl) ==
    {v \in UNION {{i} \X DOMAIN sl[i].ingress : i \in DOMAIN sl} :
        sl[v[1]].type = "LoadBalancer" /\ sl[v[1]].ingress[v[2]] # Nil}

ByType(sl) ==
    [t \in {sl[i].type : i \in DOMAIN sl} |->
        Cardinality({i \in DOMAIN sl : sl[i].type = t})]

Services(sl) ==
    LET ip(v) == sl[v[1]].ingress[v[2]]
    IN  {[total |-> Len(sl), byType |-> ByType(sl),
          loadbalancers |-> [k \in DOMAIN p |->
                [svc |-> sl[p[k][1]].name, ip |-> ip(p[k])]]] :
            p \in Sorted([v \in VIPs(sl) |-> ip(v)])}

PVCs(pl) ==
    LET phase(f) == Cardinality({i \in DOMAIN pl : pl[i].phase = f})
    IN  {[total |-> Len(pl), bound |-> phase("Bound"),
          pending |-> phase("Pending"),
          requested |-> CutGiB(Total([i \in DOMAIN pl |-> pl[i].mib]))]}

(***************************************************************************)
(* The metrics API.  CPU quantities are given in tenths of a millicore and *)
(* memory in tenths of a MiB; Nil is a quantity that does not parse.       *)
(***************************************************************************)
quantityMilli(q) == (q + 9) \div 10  \* MilliValue rounds up
quantityMiB(q)   == q \div 10

NodeMetrics(l) ==
    LET cpu(i) == quantityMilli(l[i].cpu)
        mem(i) == quantityMiB(l[i].mem)
    IN  {[nodes |-> [k \in DOMAIN p |->
              [name |-> l[p[k]].name, cpu |-> cpu(p[k]), mem |-> mem(p[k])]],
          totalCPU |-> Total([i \in DOMAIN l |-> cpu(i)]),
          totalMem |-> Total([i \in DOMAIN l |-> mem(i)])] :
            p \in Sorted([i \in DOMAIN l |-> l[i].name])}

CPU(it) == Total([c \in DOMAIN it.containers |-> quantityMilli(it.containers[c].cpu)])
Mem(it) == Total([c \in DOMAIN it.containers |-> quantityMiB(it.containers[c].mem)])

PodMetrics(l) ==
    {[top |-> [k \in Upto(p, TopCPU) |->
         [pod |-> l[p[k]].name, cpu |-> CPU(l[p[k]]), mem |-> Mem(l[p[k]])]]] :
        p \in Sorted([i \in DOMAIN l |-> -CPU(l[i])])}

(***************************************************************************)
(* The Cilium resources.                                                   *)
(***************************************************************************)
(* The peers of all nodes: <<node, instance, peer>>.                       *)
Peers(l) ==
    UNION {UNION {{<<i, j>>} \X DOMAIN l[i].instances[j] :
                     j \in DOMAIN l[i].instances} : i \in DOMAIN l}

CiliumBGP(l) ==
    LET peer(x) == l[x[1][1]].instances[x[1][2]][x[2]]
        up      == {x \in Peers(l) : peer(x).state = "established"}
        rank(x) == 10 * l[x[1][1]].name + peer(x).addr  \* addresses are below 10
    IN  {[peers |-> Cardinality(Peers(l)), established |-> Cardinality(up),
          down |-> [k \in DOMAIN p |->  \* "node->addr(state)"
                <<l[p[k][1][1]].name, peer(p[k]).addr, peer(p[k]).state>>]] :
            p \in Sorted([x \in Peers(l) \ up |-> rank(x)])}

Counted(l) == {[count |-> Len(l)]}  \* CiliumEndpoints and CiliumIdentities

CiliumNodes(l) == Namespaces(l)     \* the same body: a count and the names

CiliumLBPools(l) ==
    LET range(b) == IF b.cidr # Nil THEN <<<<b.cidr>>>>
                    ELSE IF b.start = Nil THEN <<>>
                    ELSE IF b.stop \notin {Nil, b.start} THEN <<<<b.start, b.stop>>>>
                    ELSE <<<<b.start>>>>
        ranges(it) == FlattenSeq([k \in DOMAIN it.blocks |-> range(it.blocks[k])])
    IN  {[count |-> Len(l),
          pools |-> [i \in DOMAIN l |-> [name |-> l[i].name, disabled |-> l[i].disabled,
                                         ranges |-> ranges(l[i])]]]}

CiliumPolicies(cnp, ccnp) == {[namespaced |-> Len(cnp), clusterwide |-> Len(ccnp)]}

(***************************************************************************)
(* aspectVersions.  An image, a name and a tag are sequences of tokens in  *)
(* which "@", "/", ":", "-" and "-kafka-" stand for themselves.            *)
(***************************************************************************)
Before(s, sep) == IF Contains(s, sep)
                  THEN SubSeq(s, 1, SelectInSeq(s, LAMBDA t : t = sep) - 1)
                  ELSE s
After(s, sep)  == IF Contains(s, sep)
                  THEN SubSeq(s, SelectInSeq(s, LAMBDA t : t = sep) + 1, Len(s))
                  ELSE <<>>

splitImage(ref) ==
    LET plain == Before(ref, "@")
        last  == SelectLastInSeq(plain, LAMBDA t : t = "/")  \* 0 when there is none
        name  == SubSeq(plain, last + 1, Len(plain))
    IN  [name |-> Before(name, ":"), tag |-> After(name, ":")]

OwnName == {"cilium", "metrics-server", "registry", "coredns", "etcd"}
Renamed == ("operator-generic"     :> "cilium-operator") @@
           ("topolvm-with-sidecar" :> "topolvm")

(* The rows a container adds to the table "apps" or "platform".            *)
VersionRows(app, image) ==
    LET i     == splitImage(image)
        is(n) == i.name = <<n>>
        platform(k, tag) == {[table |-> "platform", key |-> <<k>>, tag |-> tag]}
    IN  CASE i.tag = <<>> -> {}
          [] i.tag # <<>> /\ app -> {[table |-> "apps", key |-> i.name, tag |-> i.tag]}
          [] OTHER ->
               IF is("kafka") /\ Contains(i.tag, "-kafka-")
               THEN platform("strimzi", Before(i.tag, "-kafka-"))
                    \cup platform("kafka", After(i.tag, "-kafka-"))
               ELSE IF is("operator") /\ Contains(image, "strimzi")
               THEN platform("strimzi", i.tag)
               ELSE IF is("cilium-envoy")
               THEN platform("cilium-envoy", Before(i.tag, "-"))
               ELSE IF \E n \in OwnName : is(n) THEN platform(i.name[1], i.tag)
               ELSE IF \E n \in DOMAIN Renamed : is(n)
               THEN platform(Renamed[i.name[1]], i.tag)
               ELSE IF IsPrefix(<<"opentelemetry-collector">>, i.name)
               THEN platform("otel-collector", i.tag)
               ELSE {}

(* The containers of all pods: <<pod, container>>, in the loop's order.    *)
Containers(pl) == UNION {{i} \X DOMAIN pl[i].images : i \in DOMAIN pl}
Before2(c, d)  == c[1] < d[1] \/ (c[1] = d[1] /\ c[2] < d[2])

RowsOf(pl, c, table) ==
    {r \in VersionRows(pl[c[1]].app, pl[c[1]].images[c[2]]) : r.table = table}

(* A map assigned in the order of the loop: the last one wins.             *)
Assigned(pl, table) ==
    LET rows == UNION {RowsOf(pl, c, table) : c \in Containers(pl)}
        with(key) == {c \in Containers(pl) : \E r \in RowsOf(pl, c, table) : r.key = key}
        last(key) == CHOOSE c \in with(key) : \A d \in with(key) : ~Before2(c, d)
    IN  [key \in {r.key : r \in rows} |->
            (CHOOSE r \in RowsOf(pl, last(key), table) : r.key = key).tag]

InfoFields == {"kubelet", "runtime", "os", "kernel", "arch"}

Versions(answered, nl, pl) ==
    {[kubernetes |-> answered,
      nodes |-> IF nl = <<>> THEN <<>>
                ELSE [f \in InfoFields |-> {nl[i].info[f] : i \in DOMAIN nl}],
      platform |-> Assigned(pl, "platform"), apps |-> Assigned(pl, "apps")]}
=============================================================================
