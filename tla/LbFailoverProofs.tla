-------------------------- MODULE LbFailoverProofs --------------------------
(***************************************************************************)
(* Theorems about LbFailover, for every finite set of nodes and every      *)
(* number of changes and replacements.                                     *)
(***************************************************************************)
EXTENDS LbFailover, TLAPS, WellFoundedInduction

(* The target that the round has found is a node it saw live, and that has *)
(* not changed since.                                                      *)
OnLive == Exists(route) /\ route.node \in live \cap unchanged

(* Between the calls: only the agent moves the route, so the ENI it has    *)
(* read is still its target; and it goes on to choose another one only if  *)
(* the target was not such a node when it was read.                        *)
RoundInv ==
    /\ pc = "eni" => curEni = route
    /\ pc \in {"resolve", "replace"} => ~OnLive
    /\ pc = "replace" => targetEni \in Enis

IInv == TypeOK /\ RoundInv

-----------------------------------------------------------------------------
(* Ranks are naturals, so every set of nodes has a lowest one.             *)

Less == {p \in Nat \X Nat : p[1] < p[2]}

(* The order of the naturals, as a relation, is well-founded.              *)
LEMMA LessWellFounded == IsWellFoundedOn(Less, Nat)
<1>1. Less = OpToRel(<, Nat)
  BY DEF Less, OpToRel
<1> QED
  BY <1>1, NatLessThanWellFounded

(* sort -V | head -1 prints one of its lines.                              *)
LEMMA LowestIsOne ==
  ASSUME NEW S \in SUBSET Nat, S # {}
  PROVE  Lowest(S) \in S
<1>1. PICK n \in S : \A m \in S : ~(<<m, n>> \in Less)
  BY LessWellFounded, WFMin
<1>2. \A m \in S : n <= m
  <2> SUFFICES ASSUME NEW m \in S PROVE n <= m
    OBVIOUS
  <2>1. n \in Nat /\ m \in Nat /\ ~(m < n)
    BY <1>1 DEF Less
  <2> QED
    BY <2>1
<1> QED
  BY <1>2 DEF Lowest

(* The ENI of a node, if it has one, is an ENI.                            *)
LEMMA EniOfTyped ==
  ASSUME TypeOK, NEW n \in Nodes
  PROVE  EniOf(n) \in Enis
BY DEF EniOf, Enis, TypeOK

-----------------------------------------------------------------------------
(* Type correctness and the round's invariant, action by action.           *)

(* A change of a node leaves what the round does untouched, and a node     *)
(* that changes is not counted as unchanged, so OnLive does not come true. *)
LEMMA NodesKeep ==
  ASSUME IInv, NodesNext
  PROVE  IInv'
<1> USE DEF IInv, TypeOK, RoundInv, OnLive, Exists, EniOf, Enis, agentVars
<1>0. ASSUME NEW n \in Nodes, Change(n) PROVE changes' \in 0..MaxChanges
  BY <1>0, BoundsNat DEF Change
<1>1. ASSUME NEW n \in Nodes, NEW s \in {"down", "bare", "prefixed"}, Session(n, s)
      PROVE  IInv'
  <2>1. bgp' \in [Nodes -> {"down", "bare", "prefixed"}]
    BY <1>1 DEF Session
  <2>2. OnLive' => OnLive
    BY <1>1 DEF Session, Change
  <2> QED
    BY <1>0, <1>1, <2>1, <2>2 DEF Session, Change
<1>2. ASSUME NEW n \in Nodes, Terminate(n) PROVE IInv'
  <2>1. unchanged' \subseteq present'
    BY <1>2 DEF Terminate, Change
  <2>2. OnLive' => OnLive
    BY <1>2 DEF Terminate, Change
  <2> QED
    BY <1>0, <1>2, <2>1, <2>2 DEF Terminate, Change
<1>3. ASSUME NEW n \in Nodes, Replaced(n) PROVE IInv'
  <2>1. gen' \in [Nodes -> 0..MaxGen]
    BY <1>3, BoundsNat DEF Replaced
  <2>2. unchanged' \subseteq present' /\ present' \subseteq Nodes
    BY <1>3 DEF Replaced, Change
  <2>3. OnLive' => OnLive
    BY <1>3 DEF Replaced, Change
  <2> QED
    BY <1>0, <1>3, <2>1, <2>2, <2>3 DEF Replaced, Change
<1>4. ASSUME NEW n \in Nodes, HoldTimer(n) PROVE IInv'
  BY <1>4 DEF HoldTimer
<1> QED
  BY <1>1, <1>2, <1>3, <1>4 DEF NodesNext

(* Each call of the agent, and its failure.                                *)
LEMMA AgentKeeps ==
  ASSUME IInv, Agent
  PROVE  IInv'
<1> USE DEF IInv, nodeVars
<1>1. CASE ReadSessions
  BY <1>1 DEF ReadSessions, LiveNodes, WithPrefix, Established, TypeOK, RoundInv
<1>2. CASE ReadRoute
  BY <1>2 DEF ReadRoute, TypeOK, RoundInv
<1>3. CASE ReadEni
  <2>1. PICK ip \in Nodes \cup {NoIp} :
            /\ Answers(ip)
            /\ IF Sticky(ip) THEN NextRound
               ELSE pc' = "resolve" /\ UNCHANGED <<live, curEni, targetEni>>
            /\ UNCHANGED <<nodeVars, route, unchanged>>
    BY <1>3 DEF ReadEni
  <2>2. CASE Sticky(ip)
    BY <2>1, <2>2 DEF NextRound, TypeOK, RoundInv
  <2>3. CASE ~Sticky(ip)
    <3>1. ~OnLive
      BY <2>1, <2>3 DEF Answers, Sticky, OnLive, RoundInv
    <3>2. ~OnLive'
      BY <2>1, <2>3, <3>1 DEF OnLive, Exists, EniOf
    <3> QED
      BY <2>1, <2>3, <3>2 DEF TypeOK, RoundInv
  <2> QED
    BY <2>2, <2>3
<1>4. CASE Resolve
  <2>1. Chosen \in Nodes
    BY <1>4 DEF Resolve, TypeOK
  <2>2. targetEni' \in Enis
    BY <1>4, <2>1, EniOfTyped DEF Resolve
  <2>3. OnLive' => OnLive
    BY <1>4 DEF Resolve, OnLive, Exists, EniOf
  <2> QED
    BY <1>4, <2>2, <2>3 DEF Resolve, TypeOK, RoundInv
<1>5. CASE Replace
  BY <1>5 DEF Replace, NextRound, TypeOK, RoundInv
<1>6. CASE CallFails
  BY <1>6 DEF CallFails, NextRound, TypeOK, RoundInv
<1> QED
  BY <1>1, <1>2, <1>3, <1>4, <1>5, <1>6 DEF Agent

(* A stuttering step changes nothing that the invariant reads.             *)
LEMMA StutterKeeps ==
  ASSUME IInv, UNCHANGED vars
  PROVE  IInv'
BY DEF IInv, TypeOK, RoundInv, OnLive, Exists, EniOf, vars, nodeVars, agentVars

(* The inductive invariant of the agent.                                   *)
THEOREM Invariant == Spec => []IInv
<1>1. Init => IInv
  <2> SUFFICES ASSUME Init PROVE IInv
    OBVIOUS
  <2>1. Lowest(Nodes) \in Nodes
    BY NodesRanked, LowestIsOne
  <2>2. route \in Enis
    BY <2>1, BoundsNat DEF Init, EniOf, Enis
  <2> QED
    BY <2>2, BoundsNat DEF Init, IInv, TypeOK, RoundInv
<1>2. IInv /\ [Next]_vars => IInv'
  BY NodesKeep, AgentKeeps, StutterKeeps DEF Next
<1> QED
  BY <1>1, <1>2, PTL DEF Spec

(* Every variable keeps its type, and LIVE holds nothing but IPs of nodes. *)
THEOREM TypeCorrect == Spec => []TypeOK
<1>1. IInv => TypeOK
  BY DEF IInv
<1> QED
  BY Invariant, <1>1, PTL

(* The route never leaves a node that the round saw live and that has not  *)
(* changed since, whatever fails in between: replace-route is the only     *)
(* call that moves it, and a round comes to it only past such a target.    *)
THEOREM NeverLeavesLive == Spec => NeverOffLive
<1>1. IInv /\ [Next]_vars => [route' # route => ~OnLive]_vars
  <2> SUFFICES ASSUME IInv, Next, route' # route PROVE ~OnLive
    OBVIOUS
  <2>1. Replace
    BY DEF Next, NodesNext, Session, Terminate, Replaced, HoldTimer, Change,
           Agent, ReadSessions, ReadRoute, ReadEni, Resolve, CallFails
  <2> QED
    BY <2>1 DEF Replace, IInv, RoundInv
<1>2. IInv /\ [Next]_vars =>
        [route' # route =>
            ~(Exists(route) /\ route.node \in live \cap unchanged)]_vars
  BY <1>1 DEF OnLive
<1> QED
  BY Invariant, <1>2, PTL DEF Spec, NeverOffLive
=============================================================================
