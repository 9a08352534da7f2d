----------------------------- MODULE KubeUpgrade -----------------------------
(***************************************************************************)
(* The in-place upgrade playbook (ansible/upgrade.yml and the two task     *)
(* files it imports): play 0 reads every node's version, then one node     *)
(* after the other runs the tasks of Steps, each of which may fail; the    *)
(* operator runs the playbook again, and nodes reboot.                     *)
(*                                                                         *)
(* Data: a version is old or new, new being the one the run is asked for.  *)
(* The nodes are numbered in the order of the plays: 1 is the primary      *)
(* control plane, the other control planes follow, then the workers.       *)
(* kube_packages_hold has its default, TRUE.  Ansible, kubeadm and kubectl *)
(* are external.  A task that fails may have had its effect or not; a task *)
(* whose host is lost, or a run the operator interrupts, ends without the  *)
(* rescue; with serial: 1 a node that fails ends the run; and a node that  *)
(* failed play 0 is left out of the plays that follow.                     *)
(***************************************************************************)
EXTENDS Integers

CONSTANTS
    LastNode,   \* the nodes are 1..LastNode
    LastCP,     \* the control planes are 1..LastCP
    MayMiss,    \* nodes that may fail play 0
    MaxFaults   \* bound of the model: failing tasks

ASSUME NodesNumbered == LastNode \in Nat /\ LastCP \in 1..LastNode
ASSUME MaxFaultsIsNat == MaxFaults \in Nat

Nodes         == 1..LastNode
ControlPlanes == 1..LastCP
Version       == {"old", "new"}

VARIABLES
    kubeadm,   \* per node: version of the kubeadm package
    kubelet,   \* per node: version of the kubelet package: its binary
    running,   \* per node: version of the running kubelet, the one it reports
    held,      \* per node: packages dpkg holds
    cordoned,  \* nodes that are unschedulable
    api,       \* per control plane: version of its API server
    cluster,   \* kubernetesVersion of kubeadm's ClusterConfiguration
    run,       \* "none", "on", "failed" or "done"
    fact,      \* upgrade_running_version of each node; "missing" if it failed play 0
    at,        \* the node the plays have come to
    step,      \* the next task
    faults

packages == <<kubeadm, kubelet, held>>
nodes    == <<packages, running, cordoned, api, cluster>>
playbook == <<run, fact, at, step>>
vars     == <<nodes, playbook, faults>>

Packages == {"kubeadm", "kubelet"}

NextStep == [
    unholdKubeadm |-> "kubeadm", kubeadm |-> "holdKubeadm",
    holdKubeadm |-> "upgrade", upgrade |-> "drain", drain |-> "unhold",
    unhold |-> "kubelet", kubelet |-> "hold", hold |-> "restart",
    restart |-> "uncordon", uncordon |-> "ready", ready |-> "confirm"]

FirstStep == "unholdKubeadm"
Steps     == DOMAIN NextStep \cup {"confirm"}
Block     == {"drain", "unhold", "kubelet", "hold", "restart"}

(* Tasks with upgrade_running_version != kube_upgrade_version.             *)
Conditional == {"upgrade", "drain", "restart", "uncordon"}

Init ==
    /\ kubeadm = [n \in Nodes |-> "old"] /\ kubelet = [n \in Nodes |-> "old"]
    /\ running = [n \in Nodes |-> "old"] /\ held = [n \in Nodes |-> Packages]
    /\ cordoned = {} /\ api = [c \in ControlPlanes |-> "old"] /\ cluster = "old"
    /\ run = "none" /\ fact = [n \in Nodes |-> "missing"]
    /\ at = 1 /\ step = FirstStep
    /\ faults = 0

(***************************************************************************)
(* What the tasks do to the node the plays have come to.                   *)
(***************************************************************************)
Unhold(p) ==
    /\ held' = [held EXCEPT ![at] = @ \ {p}]
    /\ UNCHANGED <<kubeadm, kubelet, running, cordoned, api, cluster>>

Hold(p) ==
    /\ held' = [held EXCEPT ![at] = @ \cup {p}]
    /\ UNCHANGED <<kubeadm, kubelet, running, cordoned, api, cluster>>

InstallKubeadm ==
    /\ kubeadm' = [kubeadm EXCEPT ![at] = "new"]
    /\ UNCHANGED <<kubelet, running, held, cordoned, api, cluster>>

InstallKubelet ==
    /\ kubelet' = [kubelet EXCEPT ![at] = "new"]
    /\ UNCHANGED <<kubeadm, running, held, cordoned, api, cluster>>

(* kubeadm upgrade apply on the primary; kubeadm upgrade node brings a     *)
(* secondary to the version of the ClusterConfiguration, and a worker has  *)
(* no API server.                                                          *)
Upgrade ==
    /\ cluster' = IF at = 1 THEN "new" ELSE cluster
    /\ api' = IF at \in ControlPlanes THEN [api EXCEPT ![at] = cluster'] ELSE api
    /\ UNCHANGED <<packages, running, cordoned>>

Drain ==
    /\ cordoned' = cordoned \cup {at}
    /\ UNCHANGED <<packages, running, api, cluster>>

Restart ==
    /\ running' = [running EXCEPT ![at] = kubelet[at]]
    /\ UNCHANGED <<packages, cordoned, api, cluster>>

Uncordon ==
    /\ cordoned' = cordoned \ {at}
    /\ UNCHANGED <<packages, running, api, cluster>>

TaskBeforeUpgrade ==  \* mutant: the packages first, kubeadm upgrade last
    \/ step = "unholdKubeadm" /\ Unhold("kubeadm")
    \/ step = "kubeadm" /\ InstallKubeadm
    \/ step = "holdKubeadm" /\ Hold("kubeadm")
    \/ step = "uncordon" /\ Upgrade
    \/ step = "drain" /\ Drain
    \/ step = "unhold" /\ Unhold("kubelet")
    \/ step = "kubelet" /\ InstallKubelet
    \/ step = "hold" /\ Hold("kubelet")
    \/ step = "restart" /\ Restart
    \/ step = "upgrade" /\ Uncordon
    \/ step \in {"ready", "confirm"} /\ UNCHANGED nodes

Task ==
    \/ step = "unholdKubeadm" /\ Unhold("kubeadm")
    \/ step = "kubeadm" /\ InstallKubeadm
    \/ step = "holdKubeadm" /\ Hold("kubeadm")
    \/ step = "upgrade" /\ Upgrade
    \/ step = "drain" /\ Drain
    \/ step = "unhold" /\ Unhold("kubelet")
    \/ step = "kubelet" /\ InstallKubelet
    \/ step = "hold" /\ Hold("kubelet")
    \/ step = "restart" /\ Restart
    \/ step = "uncordon" /\ Uncordon
    \/ step \in {"ready", "confirm"} /\ UNCHANGED nodes

(***************************************************************************)
(* A run.                                                                  *)
(***************************************************************************)
(* `kubelet --version` prints the version of the binary.                   *)
ReadVersionKubeadm(n) == kubeadm[n]  \* mutant: `kubeadm version`
ReadVersion(n) == kubelet[n]

(* Play 0: every node is asked; a node that fails is left out.             *)
Start ==
    /\ run # "on"
    /\ \E missed \in SUBSET MayMiss :
        /\ missed # Nodes
        /\ faults < MaxFaults \/ missed = {}
        /\ faults' = IF missed = {} THEN faults ELSE faults + 1
        /\ fact' = [n \in Nodes |-> IF n \in missed THEN "missing" ELSE ReadVersion(n)]
    /\ run' = "on" /\ at' = 1 /\ step' = FirstStep
    /\ UNCHANGED nodes

Skipped == step \in Conditional /\ fact[at] = "new"
ConfirmedInstalled == kubelet[at] = "new"  \* mutant: as play 0 reads it
Confirmed == running[at] = "new"

(* On to the next task, or from the last one to the next node.             *)
NextNodePastEnd ==  \* mutant: the last node is not the end
    /\ step' = FirstStep /\ at' = at + 1
    /\ UNCHANGED <<run, fact>>

NextNode ==
    /\ step' = FirstStep
    /\ IF at = LastNode THEN run' = "done" /\ at' = at ELSE run' = run /\ at' = at + 1
    /\ UNCHANGED fact

Proceed ==
    IF step = "confirm" THEN NextNode
    ELSE step' = NextStep[step] /\ UNCHANGED <<run, fact, at>>

Abort == run' = "failed" /\ UNCHANGED <<fact, at, step>>

Busy == run = "on" /\ fact[at] # "missing"

LeaveOut ==
    /\ run = "on" /\ fact[at] = "missing"
    /\ NextNode /\ UNCHANGED <<nodes, faults>>

Skip == Busy /\ Skipped /\ Proceed /\ UNCHANGED <<nodes, faults>>

Succeed ==
    /\ Busy /\ step \in Steps /\ ~Skipped
    /\ step = "confirm" => Confirmed
    /\ Task /\ Proceed
    /\ UNCHANGED faults

NotConfirmed ==
    /\ Busy /\ step = "confirm" /\ ~Confirmed
    /\ Abort /\ UNCHANGED <<nodes, faults>>

(* A failing task of the block goes to the rescue.                         *)
Fail ==
    /\ Busy /\ step \in Steps /\ ~Skipped
    /\ faults < MaxFaults /\ faults' = faults + 1
    /\ Task \/ UNCHANGED nodes
    /\ IF step \in Block THEN step' = "rescue" /\ UNCHANGED <<run, fact, at>> ELSE Abort

(* It uncordons, whether that fails or not, and fails with the error.      *)
Rescue ==
    /\ Busy /\ step = "rescue" /\ Abort
    /\ \/ Uncordon /\ UNCHANGED faults
       \/ faults < MaxFaults /\ faults' = faults + 1 /\ UNCHANGED nodes

(* The run is interrupted or its host is lost: no rescue.                  *)
Lost ==
    /\ run = "on" /\ faults < MaxFaults /\ faults' = faults + 1
    /\ Abort
    /\ UNCHANGED nodes

(* A node reboots at any time, and runs the binary that is installed.      *)
Reboot(n) ==
    /\ running[n] # kubelet[n]
    /\ running' = [running EXCEPT ![n] = kubelet[n]]
    /\ UNCHANGED <<packages, cordoned, api, cluster, playbook, faults>>

RunStep == LeaveOut \/ Skip \/ Succeed \/ NotConfirmed \/ Rescue

Next == Start \/ RunStep \/ Fail \/ Lost \/ \E n \in Nodes : Reboot(n)

(* A run goes on, and the operator runs the playbook again after a         *)
(* failure.  Nobody reboots a node.                                        *)
Fairness == WF_vars(RunStep) /\ WF_vars(run = "failed" /\ Start)

Spec == Init /\ [][Next]_vars /\ Fairness

(***************************************************************************)
(* Properties.                                                             *)
(***************************************************************************)

(* Types: a play is at one task of one node; held packages, cordons and    *)
(* API servers are those of the inventory's nodes.                         *)
TypeOK ==
    /\ kubeadm \in [Nodes -> Version] /\ kubelet \in [Nodes -> Version]
    /\ running \in [Nodes -> Version]
    /\ held \in [Nodes -> SUBSET Packages] /\ cordoned \subseteq Nodes
    /\ api \in [ControlPlanes -> Version] /\ cluster \in Version
    /\ run \in {"none", "on", "failed", "done"}
    /\ fact \in [Nodes -> Version \cup {"missing"}]
    /\ at \in Nodes /\ step \in Steps \cup {"rescue"}
    /\ faults \in 0..MaxFaults

Passed(n) == fact[n] # "missing" /\ (run = "done" \/ (run = "on" /\ n < at))

(* What a run has behind it is finished, whatever earlier runs left of it: *)
(* a node it has passed runs the new version, holds its packages, and      *)
(* takes pods again if the run drained it.                                 *)
PassedMeansUpgraded ==
    \A n \in Nodes : Passed(n) =>
        /\ kubeadm[n] = "new" /\ running[n] = "new" /\ held[n] = Packages
        /\ fact[n] = "old" => n \notin cordoned

(* The version skew Kubernetes forbids: no kubelet is newer than an API    *)
(* server of a control plane before it in the order, its own included; in  *)
(* every state, over failures, lost runs, reboots and runs that are made   *)
(* again, as long as no control plane is left out by play 0.               *)
KubeletNotAhead ==
    \A n \in Nodes, c \in ControlPlanes :
        c <= n /\ running[n] = "new" => api[c] = "new"

Finished == run = "done" /\ cordoned = {} /\ \A n \in Nodes : running[n] = "new"

(* What running the playbook again repairs: once the failures are over, a  *)
(* failed run that left no node between its package and its restart, and   *)
(* none of the new version cordoned, is followed by one that finishes.     *)
Repairable ==
    /\ faults = MaxFaults /\ run = "failed"
    /\ \A n \in Nodes : /\ kubelet[n] = running[n]
                        /\ n \in cordoned => kubelet[n] = "old"
RerunRepairs == Repairable ~> Finished

(* tasks/upgrade_kubelet.yml:66: "node uncordoned again; packages may be   *)
(* partially upgraded -- re-run after fixing": once the failures are over, *)
(* a failed run is followed by one that finishes.                          *)
RerunFinishes == (faults = MaxFaults /\ run = "failed") ~> Finished
=============================================================================
