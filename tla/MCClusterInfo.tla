---------------------------- MODULE MCClusterInfo ----------------------------
(* ClusterInfo for TLC: what the API may list for each aspect, at most     *)
(* three items of which one has the property the aspect looks for.         *)
EXTENDS ClusterInfo

(* The lists of at most n items of S with different names.                 *)
Lists(S, n) ==
    {s \in UNION {[1..k -> S] : k \in 0..n} :
        \A i, j \in DOMAIN s : i # j => s[i].name # s[j].name}

Names == 1..3

(* Of the sums of cores below: 0.29 * 100 and 0.58 * 100 fall short.        *)
MCLossy == {290, 580}

NodeItems == {[name |-> n, conditions |-> c, milli |-> m, mib |-> 100,
               allocMilli |-> m - 10, allocMib |-> 90] :
                n \in Names, m \in {290, 125},
                c \in {{}, {<<"Ready", "True">>}, {<<"Ready", "Unknown">>}}}

(* Pods of the namespace app-x or of another one, each with one image.     *)
Images == {<<"reg", ":", "5000", "/", "cilium", ":", "v1", "@", "sha", ":", "x">>,
           <<"reg", "/", "kafka", ":", "0.4", "-kafka-", "4.1">>,
           <<"reg", "/", "strimzi", "/", "operator", ":", "0.4">>,
           <<"reg", "/", "edge", ":", "v2">>, <<"reg", "/", "edge", "@", "sha">>}

MCViews ==
    [a \in Aspects |->
        CASE a \in {"nodes", "capacity"} -> Lists(NodeItems, 2)
          [] a = "pods" -> Lists([name : Names, phase : {"Running", "Pending",
                                   "Succeeded", "Failed", "Unknown"}], 2)
          [] a \in {"namespaces", "cilium-endpoints", "cilium-identities",
                    "cilium-nodes"} -> Lists([name : Names], 3)
          [] a = "restarts" ->
               Lists([name : Names, containers : {<<0>>, <<1>>, <<1, 2>>}], 3)
          [] a = "deployments" ->
               Lists([name : Names, replicas : -1..1, ready : 0..1], 2)
          [] a = "services" ->
               Lists([name : Names, type : {"LoadBalancer", "ClusterIP"},
                      ingress : {<<>>, <<2>>, <<0, 1>>}], 2)
          [] a = "pvcs" -> Lists([name : Names, phase : {"Bound", "Pending", "Lost"},
                                  mib : {0, 100}], 2)
          [] a = "cilium-bgp" ->
               Lists([name : Names,
                      instances : {<<>>, <<<<[addr |-> 1, state |-> "established"],
                                             [addr |-> 2, state |-> "idle"]>>>>,
                                   <<<<>>, <<[addr |-> 1, state |-> ""]>>>>}], 3)
          [] a = "cilium-lb-pools" ->
               Lists([name : Names, disabled : BOOLEAN,
                      blocks : {<<>>} \cup {<<b>> : b \in
                          [cidr : {0, 1}, start : {0, 2}, stop : {0, 2, 3}]}], 1)
          [] a = "cilium-policies" -> [cnp : Lists([name : {1}], 1), ccnp : Lists([name : {2}], 1)]
          [] a = "node-metrics" -> Lists([name : Names, cpu : {0, 19}, mem : {15}], 3)
          [] a = "pod-metrics" ->
               Lists([name : Names,
                      containers : {<<>>, <<[cpu |-> 11, mem |-> 15]>>,
                                    <<[cpu |-> 5, mem |-> 5], [cpu |-> 31, mem |-> 0]>>}], 3)
          [] a = "versions" ->
               [nodes : Lists({[name |-> n, info |-> i] : n \in 1..2,
                                       i \in [InfoFields -> {"v1"}]}, 1),
                pods : Lists([name : 1..2, app : BOOLEAN, images : {<<i>> : i \in Images}], 2)]]
=============================================================================
