-------------------------- MODULE KubeUpgradeProofs --------------------------
(***************************************************************************)
(* For any number of nodes and failures: what the upgrade playbook leaves  *)
(* behind it is finished (PassedMeansUpgraded), and no kubelet runs ahead  *)
(* of an API server (KubeletNotAhead) as long as play 0 leaves out no      *)
(* control plane.                                                          *)
(*                                                                         *)
(* The invariant says, for each task, what the node the plays have come to *)
(* owes to the tasks before it (Progress); that a fact "new" and a running *)
(* new version both come from an installed package (Installed), which no   *)
(* task removes; and that a package is installed only behind the API       *)
(* servers before it (Skew).                                               *)
(***************************************************************************)
EXTENDS KubeUpgrade, TLAPS

PastUncordon    == {"ready", "confirm"}
PastRestart     == {"uncordon"} \cup PastUncordon
PastHold        == {"restart"} \cup PastRestart
PastKubelet     == {"hold"} \cup PastHold
PastUpgrade     == {"drain", "unhold", "kubelet", "rescue"} \cup PastKubelet
PastHoldKubeadm == {"upgrade"} \cup PastUpgrade
PastKubeadm     == {"holdKubeadm"} \cup PastHoldKubeadm

Installed ==
    \A n \in Nodes : running[n] = "new" \/ fact[n] = "new" => kubelet[n] = "new"

Progress ==
    run = "on" /\ fact[at] # "missing" =>
        /\ step \in PastKubeadm => kubeadm[at] = "new"
        /\ step \in PastHoldKubeadm => "kubeadm" \in held[at]
        /\ step \in PastKubelet => kubelet[at] = "new"
        /\ step \in PastHold => "kubelet" \in held[at]
        /\ step \in PastRestart /\ fact[at] = "old" => running[at] = "new"
        /\ step \in PastUncordon /\ fact[at] = "old" => at \notin cordoned

IInv == TypeOK /\ Installed /\ Progress /\ PassedMeansUpgraded

LEMMA NextSteps ==
    /\ NextStep["unholdKubeadm"] = "kubeadm" /\ NextStep["kubeadm"] = "holdKubeadm"
    /\ NextStep["holdKubeadm"] = "upgrade" /\ NextStep["upgrade"] = "drain"
    /\ NextStep["drain"] = "unhold" /\ NextStep["unhold"] = "kubelet"
    /\ NextStep["kubelet"] = "hold" /\ NextStep["hold"] = "restart"
    /\ NextStep["restart"] = "uncordon" /\ NextStep["uncordon"] = "ready"
    /\ NextStep["ready"] = "confirm"
  BY DEF NextStep

LEMMA StepNames ==
    Steps = {"unholdKubeadm", "kubeadm", "holdKubeadm", "upgrade", "drain",
             "unhold", "kubelet", "hold", "restart", "uncordon", "ready", "confirm"}
  BY DEF Steps, NextStep

LEMMA InitEstablishes == Init => IInv
<1> SUFFICES ASSUME Init PROVE IInv
  OBVIOUS
<1>1. TypeOK
  BY NodesNumbered, MaxFaultsIsNat, StepNames
  DEF Init, TypeOK, Nodes, ControlPlanes, Version, FirstStep, Packages
<1>2. Installed /\ Progress /\ PassedMeansUpgraded
  BY DEF Init, Installed, Progress, PassedMeansUpgraded, Passed
<1> QED
  BY <1>1, <1>2 DEF IInv

(***************************************************************************)
(* What a task does, whichever it is.                                      *)
(***************************************************************************)
TypedNodes ==
    /\ kubeadm \in [Nodes -> Version] /\ kubelet \in [Nodes -> Version]
    /\ running \in [Nodes -> Version]
    /\ held \in [Nodes -> SUBSET Packages] /\ cordoned \subseteq Nodes
    /\ api \in [ControlPlanes -> Version] /\ cluster \in Version

Elsewhere ==
    \A n \in Nodes \ {at} :
        /\ kubeadm'[n] = kubeadm[n] /\ kubelet'[n] = kubelet[n]
        /\ running'[n] = running[n] /\ held'[n] = held[n]
        /\ n \in cordoned' <=> n \in cordoned

Here ==
    /\ kubeadm'[at] = IF step = "kubeadm" THEN "new" ELSE kubeadm[at]
    /\ kubelet'[at] = IF step = "kubelet" THEN "new" ELSE kubelet[at]
    /\ running'[at] = IF step = "restart" THEN kubelet[at] ELSE running[at]
    /\ step # "unholdKubeadm" /\ "kubeadm" \in held[at] => "kubeadm" \in held'[at]
    /\ step = "holdKubeadm" => "kubeadm" \in held'[at]
    /\ step # "unhold" /\ "kubelet" \in held[at] => "kubelet" \in held'[at]
    /\ step = "hold" => "kubelet" \in held'[at]
    /\ step = "uncordon" => at \notin cordoned'
    /\ step # "drain" /\ at \notin cordoned => at \notin cordoned'

LEMMA TaskEffect ==
  ASSUME TypeOK, Task
  PROVE  TypedNodes' /\ Elsewhere /\ Here
<1> USE DEF TypedNodes, Elsewhere, Here, Packages, Version
<1>0. TypedNodes /\ at \in Nodes
  BY DEF TypeOK
<1>1. CASE step = "unholdKubeadm" /\ Unhold("kubeadm")
  BY <1>0, <1>1 DEF Unhold
<1>2. CASE step = "kubeadm" /\ InstallKubeadm
  BY <1>0, <1>2 DEF InstallKubeadm
<1>3. CASE step = "holdKubeadm" /\ Hold("kubeadm")
  BY <1>0, <1>3 DEF Hold
<1>4. CASE step = "upgrade" /\ Upgrade
  BY <1>0, <1>4 DEF Upgrade, packages
<1>5. CASE step = "drain" /\ Drain
  BY <1>0, <1>5 DEF Drain, packages
<1>6. CASE step = "unhold" /\ Unhold("kubelet")
  BY <1>0, <1>6 DEF Unhold
<1>7. CASE step = "kubelet" /\ InstallKubelet
  BY <1>0, <1>7 DEF InstallKubelet
<1>8. CASE step = "hold" /\ Hold("kubelet")
  BY <1>0, <1>8 DEF Hold
<1>9. CASE step = "restart" /\ Restart
  BY <1>0, <1>9 DEF Restart, packages
<1>10. CASE step = "uncordon" /\ Uncordon
  BY <1>0, <1>10 DEF Uncordon, packages
<1>11. CASE step \in {"ready", "confirm"} /\ UNCHANGED nodes
  BY <1>0, <1>11 DEF nodes, packages
<1> QED
  BY <1>1, <1>2, <1>3, <1>4, <1>5, <1>6, <1>7, <1>8, <1>9, <1>10, <1>11 DEF Task

(* No task takes away what makes a version or a fact "new".                *)
LEMMA TaskInstalls ==
  ASSUME TypeOK, Installed, Task, UNCHANGED fact
  PROVE  Installed'
<1>1. Elsewhere /\ Here /\ TypedNodes'
  BY TaskEffect
<1>2. ASSUME NEW n \in Nodes, running'[n] = "new" \/ fact'[n] = "new"
      PROVE  kubelet'[n] = "new"
  <2>1. CASE n = at
    BY <1>1, <1>2, <2>1 DEF Here, Installed
  <2>2. CASE n # at
    BY <1>1, <1>2, <2>2 DEF Elsewhere, Installed
  <2> QED
    BY <2>1, <2>2
<1> QED
  BY <1>2 DEF Installed

(***************************************************************************)
(* A run that ends in failure owes nothing to the nodes.                   *)
(***************************************************************************)
LEMMA AbortPreserves ==
  ASSUME IInv, Abort, Task \/ UNCHANGED nodes, faults' \in 0..MaxFaults
  PROVE  IInv'
<1>1. TypedNodes' /\ Installed'
  <2>1. CASE Task
    BY <2>1, TaskEffect, TaskInstalls DEF IInv, Abort
  <2>2. CASE UNCHANGED nodes
    BY <2>2 DEF IInv, TypeOK, TypedNodes, Installed, Abort, nodes, packages
  <2> QED
    BY <2>1, <2>2
<1>2. TypeOK'
  BY <1>1 DEF IInv, TypeOK, TypedNodes, Abort
<1>3. Progress' /\ PassedMeansUpgraded'
  BY DEF Abort, Progress, PassedMeansUpgraded, Passed
<1> QED
  BY <1>1, <1>2, <1>3 DEF IInv

(***************************************************************************)
(* The steps of a run.                                                     *)
(***************************************************************************)
LEMMA StartPreserves == ASSUME IInv, Start PROVE IInv'
<1>1. /\ UNCHANGED nodes /\ run' = "on" /\ at' = 1 /\ step' = FirstStep
      /\ fact' \in [Nodes -> Version \cup {"missing"}]
      /\ \A n \in Nodes : fact'[n] = "new" => kubelet[n] = "new"
      /\ faults' \in 0..MaxFaults
  BY MaxFaultsIsNat DEF Start, IInv, TypeOK, ReadVersion, Version
<1>2. TypeOK'
  BY <1>1, NodesNumbered, StepNames
  DEF IInv, TypeOK, nodes, packages, Nodes, FirstStep
<1>3. Installed'
  BY <1>1 DEF IInv, Installed, nodes, packages
<1>4. Progress'
  BY <1>1 DEF Progress, FirstStep, PastKubeadm, PastHoldKubeadm, PastUpgrade,
     PastKubelet, PastHold, PastRestart, PastUncordon
<1>5. PassedMeansUpgraded'
  <2>1. ASSUME NEW n \in Nodes PROVE ~Passed(n)'
    BY <1>1, <2>1 DEF Passed, Nodes
  <2> QED
    BY <2>1 DEF PassedMeansUpgraded
<1> QED
  BY <1>2, <1>3, <1>4, <1>5 DEF IInv

LEMMA LeaveOutPreserves == ASSUME IInv, LeaveOut PROVE IInv'
<1>1. /\ UNCHANGED <<nodes, faults, fact>> /\ step' = FirstStep
      /\ run = "on" /\ fact[at] = "missing"
      /\ \/ at = LastNode /\ run' = "done" /\ at' = at
         \/ at # LastNode /\ run' = run /\ at' = at + 1
  BY DEF LeaveOut, NextNode
<1>2. TypeOK'
  BY <1>1, NodesNumbered, StepNames
  DEF IInv, TypeOK, nodes, packages, Nodes, FirstStep
<1>3. Installed'
  BY <1>1 DEF IInv, Installed, nodes, packages
<1>4. Progress'
  BY <1>1 DEF Progress, FirstStep, PastKubeadm, PastHoldKubeadm, PastUpgrade,
     PastKubelet, PastHold, PastRestart, PastUncordon
<1>5. PassedMeansUpgraded'
  <2>1. ASSUME NEW n \in Nodes, Passed(n)' PROVE Passed(n)
    BY <1>1, <2>1, NodesNumbered DEF Passed, Nodes, IInv, TypeOK
  <2> QED
    BY <1>1, <2>1 DEF PassedMeansUpgraded, IInv, nodes, packages
<1> QED
  BY <1>2, <1>3, <1>4, <1>5 DEF IInv

LEMMA SkipPreserves == ASSUME IInv, Skip PROVE IInv'
<1>1. /\ UNCHANGED <<nodes, faults, run, fact, at>> /\ run = "on"
      /\ fact[at] = "new" /\ step \in Conditional /\ step' = NextStep[step]
  BY DEF Skip, Busy, Skipped, Proceed, Conditional
<1>2. TypeOK'
  BY <1>1, NextSteps, StepNames DEF IInv, TypeOK, nodes, packages, Conditional
<1>3. Installed' /\ PassedMeansUpgraded'
  BY <1>1 DEF IInv, Installed, PassedMeansUpgraded, Passed, nodes, packages
<1>4. Progress'
  BY <1>1, NextSteps
  DEF IInv, Progress, Conditional, PastKubeadm, PastHoldKubeadm, PastUpgrade,
      PastKubelet, PastHold, PastRestart, PastUncordon, nodes, packages
<1> QED
  BY <1>2, <1>3, <1>4 DEF IInv

(* A node the run has passed is no other than before, or the one that has  *)
(* just been confirmed.                                                    *)
LEMMA SucceedPreserves == ASSUME IInv, Succeed PROVE IInv'
<1>1. /\ run = "on" /\ fact[at] # "missing" /\ step \in Steps /\ ~Skipped
      /\ step = "confirm" => Confirmed
      /\ Task /\ UNCHANGED <<fact, faults>>
  BY DEF Succeed, Busy, Proceed, NextNode
<1>2. TypedNodes' /\ Elsewhere /\ Here /\ Installed'
  BY <1>1, TaskEffect, TaskInstalls DEF IInv
<1>3. at \in Nodes /\ fact[at] \in Version
  BY <1>1 DEF IInv, TypeOK
<1>4. CASE step # "confirm"
  <2>1. step' = NextStep[step] /\ UNCHANGED <<run, at>>
    BY <1>4 DEF Succeed, Proceed
  <2>2. TypeOK'
    BY <1>1, <1>2, <1>4, <2>1, NextSteps, StepNames DEF IInv, TypeOK, TypedNodes
  <2>3. Progress'
    <3>1. /\ step' \in PastKubeadm => kubeadm'[at] = "new"
          /\ step' \in PastKubelet => kubelet'[at] = "new"
      BY <1>1, <1>2, <1>4, <2>1, NextSteps, StepNames
      DEF IInv, Progress, Here, PastKubeadm, PastHoldKubeadm, PastUpgrade,
          PastKubelet, PastHold, PastRestart, PastUncordon
    <3>2. /\ step' \in PastHoldKubeadm => "kubeadm" \in held'[at]
          /\ step' \in PastHold => "kubelet" \in held'[at]
      BY <1>1, <1>2, <1>4, <2>1, NextSteps, StepNames
      DEF IInv, Progress, Here, PastKubeadm, PastHoldKubeadm, PastUpgrade,
          PastKubelet, PastHold, PastRestart, PastUncordon
    <3>3. step' \in PastRestart /\ fact[at] = "old" => running'[at] = "new"
      BY <1>1, <1>2, <1>4, <2>1, NextSteps, StepNames
      DEF IInv, Progress, Here, PastKubelet, PastHold, PastRestart, PastUncordon,
          Skipped
    <3>4. step' \in PastUncordon /\ fact[at] = "old" => at \notin cordoned'
      BY <1>1, <1>2, <1>4, <2>1, NextSteps, StepNames
      DEF IInv, Progress, Here, PastUncordon
    <3> QED
      BY <1>1, <2>1, <3>1, <3>2, <3>3, <3>4 DEF Progress
  <2>4. PassedMeansUpgraded'
    <3>1. ASSUME NEW n \in Nodes, Passed(n)' PROVE Passed(n) /\ n # at
      BY <1>1, <1>3, <2>1, <3>1 DEF Passed, Nodes
    <3> QED
      BY <1>1, <1>2, <3>1 DEF IInv, PassedMeansUpgraded, Elsewhere
  <2> QED
    BY <1>2, <2>2, <2>3, <2>4 DEF IInv
<1>5. CASE step = "confirm"
  <2>1. /\ UNCHANGED nodes /\ running[at] = "new" /\ step' = FirstStep
        /\ \/ at = LastNode /\ run' = "done" /\ at' = at
           \/ at # LastNode /\ run' = run /\ at' = at + 1
    BY <1>1, <1>5 DEF Task, Succeed, Proceed, NextNode, Confirmed
  <2>2. TypeOK'
    BY <1>1, <1>2, <2>1, NodesNumbered, StepNames
    DEF IInv, TypeOK, TypedNodes, Nodes, FirstStep
  <2>3. Progress'
    BY <2>1 DEF Progress, FirstStep, PastKubeadm, PastHoldKubeadm, PastUpgrade,
       PastKubelet, PastHold, PastRestart, PastUncordon
  <2>4. /\ kubeadm[at] = "new" /\ held[at] = Packages
        /\ fact[at] = "old" => at \notin cordoned
    BY <1>1, <1>3, <1>5
    DEF IInv, TypeOK, Progress, Packages, PastKubeadm, PastHoldKubeadm, PastUpgrade,
        PastKubelet, PastHold, PastRestart, PastUncordon
  <2>5. PassedMeansUpgraded'
    <3>1. ASSUME NEW n \in Nodes, Passed(n)', n # at PROVE Passed(n)
      BY <1>1, <1>3, <2>1, <3>1, NodesNumbered DEF Passed, Nodes
    <3> QED
      BY <1>1, <2>1, <2>4, <3>1 DEF IInv, PassedMeansUpgraded, nodes, packages
  <2> QED
    BY <1>2, <2>2, <2>3, <2>5 DEF IInv
<1> QED
  BY <1>4, <1>5

LEMMA FailPreserves == ASSUME IInv, Fail PROVE IInv'
<1>1. faults' \in 0..MaxFaults
  BY MaxFaultsIsNat DEF Fail, IInv, TypeOK
<1>2. CASE step \notin Block
  BY <1>1, <1>2, AbortPreserves DEF Fail
<1>3. CASE step \in Block
  <2>1. /\ run = "on" /\ fact[at] # "missing" /\ step' = "rescue"
        /\ UNCHANGED <<run, fact, at>>
        /\ Task \/ UNCHANGED nodes
    BY <1>3 DEF Fail, Busy
  <2>2. /\ TypedNodes' /\ Installed' /\ Elsewhere
        /\ kubeadm[at] = "new" => kubeadm'[at] = "new"
        /\ "kubeadm" \in held[at] => "kubeadm" \in held'[at]
    <3>1. CASE Task
      BY <1>3, <2>1, <3>1, TaskEffect, TaskInstalls DEF IInv, Here, Block
    <3>2. CASE UNCHANGED nodes
      BY <2>1, <3>2
      DEF IInv, TypeOK, TypedNodes, Installed, Elsewhere, nodes, packages
    <3> QED
      BY <2>1, <3>1, <3>2
  <2>3. TypeOK'
    BY <1>1, <2>1, <2>2 DEF IInv, TypeOK, TypedNodes
  <2>4. Progress'
    BY <1>3, <2>1, <2>2
    DEF IInv, Progress, Block, PastKubeadm, PastHoldKubeadm, PastUpgrade,
        PastKubelet, PastHold, PastRestart, PastUncordon
  <2>5. PassedMeansUpgraded'
    <3>1. ASSUME NEW n \in Nodes, Passed(n)' PROVE Passed(n) /\ n # at
      BY <2>1, <2>3, <3>1 DEF Passed, Nodes, IInv, TypeOK
    <3> QED
      BY <2>1, <2>2, <3>1 DEF IInv, PassedMeansUpgraded, Elsewhere
  <2> QED
    BY <2>2, <2>3, <2>4, <2>5 DEF IInv
<1> QED
  BY <1>2, <1>3

(* Uncordon outside its own task, too.                                     *)
LEMMA RescuePreserves == ASSUME IInv, Rescue PROVE IInv'
<1>1. /\ UNCHANGED <<kubeadm, kubelet, running, held, api, cluster, fact, at, step>>
      /\ cordoned' \subseteq Nodes /\ run' = "failed" /\ faults' \in 0..MaxFaults
  BY MaxFaultsIsNat DEF Rescue, Abort, Uncordon, IInv, TypeOK, nodes, packages
<1>2. TypeOK' /\ Installed'
  BY <1>1 DEF IInv, TypeOK, Installed
<1>3. Progress' /\ PassedMeansUpgraded'
  BY <1>1 DEF Progress, PassedMeansUpgraded, Passed
<1> QED
  BY <1>2, <1>3 DEF IInv

LEMMA RebootPreserves ==
  ASSUME IInv, NEW n \in Nodes, Reboot(n) PROVE IInv'
<1>1. /\ UNCHANGED <<kubeadm, kubelet, held, cordoned, api, cluster, playbook, faults>>
      /\ running' \in [Nodes -> Version]
      /\ \A m \in Nodes : running[m] = "new" => running'[m] = "new"
      /\ \A m \in Nodes : running'[m] = "new" => kubelet[m] = "new"
  BY DEF Reboot, IInv, TypeOK, Installed, Version, packages
<1>2. TypeOK' /\ Installed'
  BY <1>1 DEF IInv, TypeOK, Installed, playbook
<1>3. Progress'
  BY <1>1 DEF IInv, TypeOK, Progress, playbook
<1>4. PassedMeansUpgraded'
  BY <1>1 DEF IInv, PassedMeansUpgraded, Passed, playbook
<1> QED
  BY <1>2, <1>3, <1>4 DEF IInv

LEMMA StepPreserves == IInv /\ [Next]_vars => IInv'
<1> SUFFICES ASSUME IInv, [Next]_vars PROVE IInv'
  OBVIOUS
<1>1. CASE NotConfirmed
  BY <1>1, AbortPreserves DEF NotConfirmed, IInv, TypeOK
<1>2. CASE Lost
  BY <1>2, AbortPreserves, MaxFaultsIsNat DEF Lost, IInv, TypeOK
<1>3. CASE UNCHANGED vars
  BY <1>3 DEF vars, nodes, packages, playbook, IInv, TypeOK, Installed, Progress,
     PassedMeansUpgraded, Passed
<1> QED
  BY <1>1, <1>2, <1>3, StartPreserves, LeaveOutPreserves, SkipPreserves,
     SucceedPreserves, FailPreserves, RescuePreserves, RebootPreserves
  DEF Next, RunStep

(* The inductive invariant of the playbook, its re-runs and reboots.       *)
THEOREM Invariant == Spec => []IInv
  BY InitEstablishes, StepPreserves, PTL DEF Spec

(* Every variable keeps its type.                                          *)
THEOREM TypeCorrect == Spec => []TypeOK
<1>1. IInv => TypeOK
  BY DEF IInv
<1> QED
  BY <1>1, Invariant, PTL

(* PassedMeansUpgraded for any number of nodes, runs, failures and reboots: *)
(* a run has upgraded what it has passed, whatever earlier runs left.      *)
THEOREM PassedUpgraded == Spec => []PassedMeansUpgraded
<1>1. IInv => PassedMeansUpgraded
  BY DEF IInv
<1> QED
  BY <1>1, Invariant, PTL

(***************************************************************************)
(* The version skew.                                                       *)
(***************************************************************************)
ControlPlanesAnswer == ControlPlanes \cap MayMiss = {}

Asked == run = "on" => \A c \in ControlPlanes : fact[c] # "missing"

Skew ==
    \A n \in Nodes, c \in ControlPlanes :
        c <= n /\ kubelet[n] = "new" => api[c] = "new"

ClusterFirst == \A c \in ControlPlanes : api[c] = "new" => cluster = "new"

UpTo(n) == \A c \in ControlPlanes : c <= n => api[c] = "new"

Reached ==
    run = "on" /\ fact[at] # "missing" /\ step \in PastUpgrade => UpTo(at)

SInv == Asked /\ Skew /\ ClusterFirst /\ Reached

(* The control planes a run has passed have brought theirs up.             *)
LEMMA PassedApi ==
  ASSUME IInv, SInv, run = "on", NEW c \in ControlPlanes, c < at
  PROVE  api[c] = "new"
<1>1. c \in Nodes /\ Passed(c)
  BY NodesNumbered DEF SInv, Asked, ControlPlanes, Nodes, Passed
<1>2. kubelet[c] = "new"
  BY <1>1 DEF IInv, PassedMeansUpgraded, Installed
<1> QED
  BY <1>1, <1>2 DEF SInv, Skew, ControlPlanes

LEMMA TaskSkew ==
  ASSUME IInv, SInv, Busy, Task
  PROVE  /\ Skew' /\ ClusterFirst'
         /\ \A c \in ControlPlanes : api[c] = "new" => api'[c] = "new"
         /\ step = "upgrade" => \A c \in ControlPlanes : c <= at => api'[c] = "new"
<1>1. /\ Elsewhere /\ Here /\ TypedNodes' /\ TypeOK
      /\ run = "on" /\ fact[at] # "missing" /\ at \in Nodes
  BY TaskEffect DEF IInv, TypeOK, Busy
<1>2. CASE step = "upgrade"
  <2>1. Upgrade
    BY <1>2 DEF Task
  <2>2. UNCHANGED kubelet
    BY <2>1 DEF Upgrade, packages
  <2>3. cluster' = "new"
    <3>1. CASE at = 1
      BY <2>1, <3>1 DEF Upgrade
    <3>2. CASE at # 1
      <4>1. 1 \in ControlPlanes /\ 1 < at
        BY <1>1, <3>2, NodesNumbered DEF Nodes, ControlPlanes
      <4>2. api[1] = "new"
        BY <1>1, <4>1, PassedApi
      <4> QED
        BY <2>1, <3>2, <4>1, <4>2 DEF Upgrade, SInv, ClusterFirst
    <3> QED
      BY <3>1, <3>2
  <2>4. \A c \in ControlPlanes : api'[c] = IF c = at THEN "new" ELSE api[c]
    BY <1>1, <2>1, <2>3 DEF Upgrade, TypeOK
  <2>5. \A c \in ControlPlanes : c <= at => api'[c] = "new"
    BY <1>1, <2>4, PassedApi DEF ControlPlanes, Nodes
  <2> QED
    BY <2>2, <2>3, <2>4, <2>5 DEF SInv, Skew, ClusterFirst
<1>3. CASE step # "upgrade"
  <2>1. UNCHANGED <<api, cluster>>
    BY <1>3 DEF Task, Unhold, InstallKubeadm, Hold, Drain, InstallKubelet, Restart,
       Uncordon, nodes
  <2>2. ASSUME NEW n \in Nodes, NEW c \in ControlPlanes, c <= n, kubelet'[n] = "new"
        PROVE  api'[c] = "new"
    <3>1. CASE n = at /\ step = "kubelet"
      BY <1>1, <2>1, <2>2, <3>1 DEF SInv, Reached, UpTo, PastUpgrade
    <3>2. CASE n # at \/ step # "kubelet"
      <4>1. kubelet[n] = "new"
        BY <1>1, <2>2, <3>2 DEF Elsewhere, Here
      <4> QED
        BY <2>1, <2>2, <4>1 DEF SInv, Skew
    <3> QED
      BY <3>1, <3>2
  <2> QED
    BY <1>3, <2>1, <2>2 DEF SInv, Skew, ClusterFirst
<1> QED
  BY <1>2, <1>3

LEMMA SkewSteps ==
  ASSUME ControlPlanesAnswer, IInv, SInv, Next, IInv'
  PROVE  SInv'
<1>1. CASE Start
  <2>1. UNCHANGED nodes /\ step' = FirstStep
    BY <1>1 DEF Start
  <2>2. ASSUME NEW c \in ControlPlanes PROVE fact'[c] # "missing"
    <3>1. PICK missed \in SUBSET MayMiss :
            fact' = [n \in Nodes |-> IF n \in missed THEN "missing" ELSE kubelet[n]]
      BY <1>1 DEF Start, ReadVersion
    <3>2. c \notin missed
      BY <2>2, Zenon DEF ControlPlanesAnswer
    <3>3. c \in Nodes /\ kubelet[c] \in Version
      BY <2>2, NodesNumbered DEF ControlPlanes, Nodes, IInv, TypeOK
    <3> QED
      BY <3>1, <3>2, <3>3 DEF Version
  <2> QED
    BY <2>1, <2>2 DEF SInv, Asked, Skew, ClusterFirst, Reached, nodes, packages,
       FirstStep, PastUpgrade, PastKubelet, PastHold, PastRestart, PastUncordon
<1>2. CASE LeaveOut
  BY <1>2 DEF LeaveOut, NextNode, SInv, Asked, Skew, ClusterFirst, Reached, nodes,
     packages, FirstStep, PastUpgrade, PastKubelet, PastHold, PastRestart,
     PastUncordon
<1>3. CASE Skip
  <2>1. /\ UNCHANGED <<nodes, run, fact, at>> /\ fact[at] = "new"
        /\ step \in Conditional /\ step' = NextStep[step]
    BY <1>3 DEF Skip, Busy, Skipped, Proceed, Conditional
  <2>2. at \in Nodes /\ kubelet[at] = "new"
    BY <2>1 DEF IInv, TypeOK, Installed
  <2>3. UpTo(at)
    BY <2>2 DEF SInv, Skew, UpTo
  <2> QED
    BY <2>1, <2>3 DEF SInv, Asked, Skew, ClusterFirst, Reached, UpTo, nodes, packages
<1>4. CASE Succeed
  <2>1. /\ Skew' /\ ClusterFirst'
        /\ \A c \in ControlPlanes : api[c] = "new" => api'[c] = "new"
        /\ step = "upgrade" => \A c \in ControlPlanes : c <= at => api'[c] = "new"
    BY <1>4, TaskSkew DEF Succeed
  <2>2. UNCHANGED fact /\ run = "on" /\ fact[at] # "missing" /\ step \in Steps
    BY <1>4 DEF Succeed, Proceed, NextNode, Busy
  <2>3. CASE step # "confirm"
    <3>1. step' = NextStep[step] /\ UNCHANGED <<run, at>>
      BY <1>4, <2>3 DEF Succeed, Proceed
    <3>2. step' \in PastUpgrade => step \in PastUpgrade \/ step = "upgrade"
      BY <2>2, <2>3, <3>1, NextSteps, StepNames
      DEF PastUpgrade, PastKubelet, PastHold, PastRestart, PastUncordon
    <3> QED
      BY <2>1, <2>2, <3>1, <3>2 DEF SInv, Asked, Reached, UpTo
  <2>4. CASE step = "confirm"
    BY <1>4, <2>1, <2>2, <2>4
    DEF Succeed, Proceed, NextNode, SInv, Asked, Reached, FirstStep, PastUpgrade,
        PastKubelet, PastHold, PastRestart, PastUncordon
  <2> QED
    BY <2>3, <2>4
<1>5. CASE Fail
  <2>1. /\ Skew' /\ ClusterFirst'
        /\ \A c \in ControlPlanes : api[c] = "new" => api'[c] = "new"
    <3>1. CASE Task
      BY <1>5, <3>1, TaskSkew DEF Fail
    <3>2. CASE UNCHANGED nodes
      BY <3>2 DEF SInv, Skew, ClusterFirst, nodes, packages
    <3> QED
      BY <1>5, <3>1, <3>2 DEF Fail
  <2>2. CASE step \in Block
    BY <1>5, <2>1, <2>2
    DEF Fail, Busy, SInv, Asked, Reached, UpTo, Block, PastUpgrade, PastKubelet,
        PastHold
  <2>3. CASE step \notin Block
    BY <1>5, <2>1, <2>3 DEF Fail, Abort, SInv, Asked, Reached
  <2> QED
    BY <2>2, <2>3
<1>6. CASE NotConfirmed \/ Rescue \/ Lost
  <2>1. run' = "failed" /\ UNCHANGED <<kubelet, api, cluster>>
    BY <1>6 DEF NotConfirmed, Rescue, Lost, Abort, Uncordon, nodes, packages
  <2> QED
    BY <2>1 DEF SInv, Asked, Skew, ClusterFirst, Reached
<1>7. CASE \E n \in Nodes : Reboot(n)
  BY <1>7 DEF Reboot, SInv, Asked, Skew, ClusterFirst, Reached, UpTo, packages, playbook
<1> QED
  BY <1>1, <1>2, <1>3, <1>4, <1>5, <1>6, <1>7 DEF Next, RunStep

(* KubeletNotAhead for any number of nodes, runs, failures and reboots:    *)
(* whatever the playbook has left half done, no kubelet is newer than the  *)
(* API servers up to its own, unless play 0 may leave out a control plane. *)
THEOREM NoKubeletAhead ==
  ASSUME ControlPlanesAnswer
  PROVE  Spec => []KubeletNotAhead
<1>1. Init => SInv
  BY DEF Init, SInv, Asked, Skew, ClusterFirst, Reached
<1>2. IInv /\ IInv' /\ SInv /\ [Next]_vars => SInv'
  BY SkewSteps
  DEF vars, nodes, packages, playbook, SInv, Asked, Skew, ClusterFirst, Reached, UpTo
<1>3. IInv /\ SInv => KubeletNotAhead
  BY DEF IInv, SInv, Installed, Skew, KubeletNotAhead
<1> QED
  BY <1>1, <1>2, <1>3, Invariant, PTL DEF Spec

=============================================================================
