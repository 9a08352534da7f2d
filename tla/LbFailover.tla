----------------------------- MODULE LbFailover -----------------------------
(***************************************************************************)
(* The lb-failover agent (tf/aws/border/lb-failover.sh): it keeps the one  *)
(* VPC route of the load-balancer pool on a node with a BGP session to the *)
(* border.  A round of its loop is up to five external calls, each of      *)
(* which can fail; nodes come and go between any two of them.              *)
(*                                                                         *)
(* Data: a node is the rank of its private IP, which it keeps when it is   *)
(* replaced; its ENI is then a new one, of the next generation.            *)
(***************************************************************************)
EXTENDS Naturals, FiniteSets

CONSTANTS
    Nodes,         \* nodes, as the ranks of their IPs in sort -V
    NoEni, NoIp,   \* the empty strings
    UnknownFails,  \* AWS answers an ENI id it does not know with an error
    MaxGen,        \* bound of the model: replacements of a node
    MaxChanges     \* bound of the model: changes of nodes and sessions

ASSUME NodesRanked == Nodes \subseteq Nat /\ IsFiniteSet(Nodes) /\ Nodes # {}
ASSUME BoundsNat   == MaxGen \in Nat /\ MaxChanges \in Nat
ASSUME AnswerKind  == UnknownFails \in BOOLEAN

VARIABLES
    bgp,        \* FRR's session per node: "down", "bare" (Established, no
                \* prefix received) or "prefixed"
    present,    \* nodes that exist, each with an ENI...
    gen,        \* ...of this generation
    route,      \* the ENI that the DEST_CIDR route targets
    changes,
    pc,         \* the agent's next call
    live,       \* LIVE
    curEni,     \* cur_eni
    targetEni,  \* target_eni
    unchanged   \* history: nodes that are as they were when the round began

nodeVars  == <<bgp, present, gen, changes>>
agentVars == <<pc, live, curEni, targetEni>>
vars == <<nodeVars, route, agentVars, unchanged>>

Enis   == [node : Nodes, gen : 0..MaxGen]
EniOf(n)  == [node |-> n, gen |-> gen[n]]
Exists(e) == e.node \in present /\ e = EniOf(e.node)

(* The types; what live_nodes printed are IPs of nodes, and nothing else.   *)
TypeOK ==
    /\ bgp \in [Nodes -> {"down", "bare", "prefixed"}]
    /\ present \subseteq Nodes
    /\ gen \in [Nodes -> 0..MaxGen]
    /\ route \in Enis
    /\ changes \in 0..MaxChanges
    /\ pc \in {"sessions", "route", "eni", "resolve", "replace"}
    /\ live \subseteq Nodes
    /\ curEni \in Enis \cup {NoEni}
    /\ targetEni \in Enis \cup {NoEni}
    /\ unchanged \subseteq present

Lowest(S) == CHOOSE n \in S : \A m \in S : n <= m

(* tofu points the route at the first node; the agent only moves it.       *)
Init ==
    /\ bgp \in [Nodes -> {"down", "prefixed"}]
    /\ present = Nodes
    /\ gen = [n \in Nodes |-> 0]
    /\ route = EniOf(Lowest(Nodes))
    /\ changes = 0
    /\ pc = "sessions"
    /\ live = {}
    /\ curEni = NoEni
    /\ targetEni = NoEni
    /\ unchanged = Nodes

-----------------------------------------------------------------------------
(* Nodes and their BGP sessions.                                           *)

Change(n) ==
    /\ changes < MaxChanges
    /\ changes' = changes + 1
    /\ unchanged' = unchanged \ {n}
    /\ UNCHANGED <<route, agentVars>>

(* A session comes up, starts or stops announcing, or goes down.           *)
Session(n, s) ==
    /\ bgp[n] # s
    /\ s # "down" => n \in present
    /\ bgp' = [bgp EXCEPT ![n] = s]
    /\ UNCHANGED <<present, gen>>
    /\ Change(n)

(* A node is terminated, its ENI deleted; FRR notices later.               *)
Terminate(n) ==
    /\ n \in present
    /\ present' = present \ {n}
    /\ UNCHANGED <<bgp, gen>>
    /\ Change(n)

(* It is replaced: same IP, new ENI.                                       *)
Replaced(n) ==
    /\ n \notin present
    /\ gen[n] < MaxGen
    /\ present' = present \cup {n}
    /\ gen' = [gen EXCEPT ![n] = @ + 1]
    /\ UNCHANGED bgp
    /\ Change(n)

(* The hold timer ends the session of a node that is gone.                 *)
HoldTimer(n) ==
    /\ n \notin present
    /\ bgp[n] # "down"
    /\ bgp' = [bgp EXCEPT ![n] = "down"]
    /\ unchanged' = unchanged \ {n}
    /\ UNCHANGED <<present, gen, changes, route, agentVars>>

-----------------------------------------------------------------------------
(* The agent.  NextRound is its sleep, or systemd starting it again: the   *)
(* next round uses nothing of this one.                                    *)
NextRound ==
    /\ pc' = "sessions"
    /\ live' = {}
    /\ curEni' = NoEni
    /\ targetEni' = NoEni

(* A call fails, and the round ends with the route as it is.               *)
CallFails ==
    /\ pc # "sessions"
    /\ NextRound
    /\ UNCHANGED <<nodeVars, route, unchanged>>

Established == {n \in Nodes : bgp[n] # "down"}
WithPrefix  == {n \in Nodes : bgp[n] = "prefixed"}

\* Mutant: a blank line when there are no peers.
LiveNodesBlankLine ==
    IF WithPrefix # {} THEN WithPrefix
    ELSE IF Established # {} THEN Established ELSE {NoIp}

(* What live_nodes prints.                                                 *)
LiveNodes == IF WithPrefix # {} THEN WithPrefix ELSE Established

(* live_nodes.  Without an Established peer, or when vtysh fails, the      *)
(* round is over.                                                          *)
ReadSessions ==
    /\ pc = "sessions"
    /\ LiveNodes # {}
    /\ live' = LiveNodes
    /\ unchanged' = present
    /\ pc' = "route"
    /\ UNCHANGED <<nodeVars, route, curEni, targetEni>>

(* current_target_eni.                                                     *)
ReadRoute ==
    /\ pc = "route"
    /\ curEni' = route
    /\ pc' = "eni"
    /\ UNCHANGED <<nodeVars, route, live, targetEni, unchanged>>

\* Mutant: a failed call is taken for an empty result.
AnswersOnError(ip) ==
    /\ pc = "eni"
    /\ ip \in {IF Exists(curEni) THEN curEni.node ELSE NoIp, NoIp}

(* The answers of eni_ip to a call that reached AWS.                       *)
Answers(ip) ==
    /\ pc = "eni"
    /\ IF Exists(curEni) THEN ip = curEni.node ELSE ip = NoIp /\ ~UnknownFails

Sticky(ip) == ip \in live

(* eni_ip, and the loop over LIVE: a target that is live keeps the route.  *)
ReadEni ==
    \E ip \in Nodes \cup {NoIp} :
        /\ Answers(ip)
        /\ IF Sticky(ip)
           THEN NextRound
           ELSE pc' = "resolve" /\ UNCHANGED <<live, curEni, targetEni>>
        /\ UNCHANGED <<nodeVars, route, unchanged>>

\* Mutant: the lowest of all nodes, live or not.
ChosenOfAll == Lowest(Nodes)

Chosen == Lowest(live)

(* ip_eni of the live node with the lowest IP; an IP without an ENI ends   *)
(* the round like a failure.                                               *)
Resolve ==
    /\ pc = "resolve"
    /\ Chosen \in present
    /\ targetEni' = EniOf(Chosen)
    /\ pc' = "replace"
    /\ UNCHANGED <<nodeVars, route, live, curEni, unchanged>>

(* replace-route, which AWS refuses for an ENI that is gone.               *)
Replace ==
    /\ pc = "replace"
    /\ Exists(targetEni)
    /\ route' = targetEni
    /\ NextRound
    /\ UNCHANGED <<nodeVars, unchanged>>

-----------------------------------------------------------------------------
NodesNext ==
    \E n \in Nodes :
        \/ \E s \in {"down", "bare", "prefixed"} : Session(n, s)
        \/ Terminate(n) \/ Replaced(n) \/ HoldTimer(n)

Agent == ReadSessions \/ ReadRoute \/ ReadEni \/ Resolve \/ Replace \/ CallFails

Next == NodesNext \/ Agent

Spec == Init /\ [][Next]_vars

(* The loop goes on, a session of a node that is gone times out, and a     *)
(* call that is repeated every POLL_SECONDS does not fail for ever.        *)
Fairness ==
    /\ \A n \in Nodes : WF_vars(HoldTimer(n))
    /\ WF_vars(Agent)
    /\ SF_vars(ReadRoute) /\ SF_vars(ReadEni)
    /\ SF_vars(Resolve) /\ SF_vars(Replace)

FairSpec == Spec /\ Fairness

-----------------------------------------------------------------------------
(* "Don't flap off a healthy node": the route never leaves a node that the *)
(* round saw live and that has not changed since, whichever calls failed   *)
(* in between.                                                             *)
NeverOffLive ==
    [][route' # route =>
          ~(Exists(route) /\ route.node \in live \cap unchanged)]_vars

(* The route does not stay on a dead target: once nodes and sessions have  *)
(* settled, it comes to a live node and stays there, if there is one.      *)
FailsOver ==
    <>[](LiveNodes = {} \/ (Exists(route) /\ route.node \in LiveNodes))
=============================================================================
