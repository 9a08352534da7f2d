------------------------------- MODULE AwsCost -------------------------------
(***************************************************************************)
(* The estimate cycle of awscost (apps/awscost: poller.go, estimate.go,    *)
(* pricing.go, emit.go): it lists instances and volumes in two calls,      *)
(* fetches the prices it does not know yet, computes what the fleet costs  *)
(* a day and records one gauge per instance and part, while the fleet      *)
(* changes.  When a cycle runs is module AwsLoops.                         *)
(*                                                                         *)
(* Data: prices and sizes are numbers, values are in 1/730 USD a day (the  *)
(* hours of a month), so that a storage price per month needs no division. *)
(* The attributes of a series that tell series apart are its instance, the *)
(* instance's state and the part (compute, public_ipv4, or a volume).  The *)
(* code's two maps of prices are one function here: no instance type is a  *)
(* volume type.  AWS is external: any call may fail, and a call past the   *)
(* cycle's deadline does; a price query answers with a list of documents,  *)
(* each of them the set of the pricePerUnit.USD it holds.                  *)
(***************************************************************************)
EXTENDS Integers, Sequences

Blank    == -1  \* a pricePerUnit.USD that is ""
Garbled  == -2  \* one that is no number; also a document that is no JSON
NoPrice  == -3  \* an error

CONSTANTS
    Instances, Volumes,
    InstanceType, VolumeType,  \* of each instance, of each volume
    Size,                      \* of each volume, GiB
    IPv4Hourly,                \* PUBLIC_IPV4_HOURLY_USD
    PriceLists,                \* of each type: what GetProducts may answer
    MaxChanges                 \* bound of the model: changes of the fleet

ASSUME IPv4HourlyIsNat == IPv4Hourly \in Nat
ASSUME PriceListsAreDocuments ==
    \A t \in DOMAIN PriceLists :
        PriceLists[t] \subseteq Seq(SUBSET (Nat \cup {Blank, Garbled}))
ASSUME TypesAreAskedFor ==
    /\ \A i \in Instances : InstanceType[i] \in DOMAIN PriceLists
    /\ \A v \in Volumes : VolumeType[v] \in DOMAIN PriceLists
    /\ \A i \in Instances, v \in Volumes : InstanceType[i] # VolumeType[v]
ASSUME PartsAreNoVolumes == "compute" \notin Volumes /\ "public_ipv4" \notin Volumes
ASSUME MaxChangesIsNat == MaxChanges \in Nat

VARIABLES
    fleet,     \* AWS: the state of every instance; "gone" before and after
    address,   \* AWS: instances with a public address
    attached,  \* AWS: the instances a volume is attached to (Multi-Attach)
    changes,   \* how often the fleet has changed
    step,      \* "idle", "creds", "instances", "volumes", "prices", "emit"
    listed,    \* what DescribeInstances answered: [instance -> state, hasIP]
    disks,     \* what DescribeVolumes answered: volume -> its attachments
    todo,      \* lookups of ensurePrices that are left
    book,      \* PriceBook: the prices of the types fetched so far
    gauges,    \* exported: series -> value; a series once recorded stays
    credsOK    \* the gauge aws.cost.poller.credentials_ok

aws      == <<fleet, address, attached, changes>>
cycle    == <<step, listed, disks, todo>>
costVars == <<aws, cycle, book, gauges, credsOK>>

Types    == DOMAIN PriceLists
Nothing  == <<>>  \* the empty map
States   == {"gone", "running", "stopped"}
Over(f, g) ==  \* f, and g where f is undefined
    [x \in DOMAIN f \cup DOMAIN g |-> IF x \in DOMAIN f THEN f[x] ELSE g[x]]
Series   == [id : Instances, state : States,
             part : {"compute", "public_ipv4"} \cup Volumes]

CostInit ==
    /\ fleet = [i \in Instances |-> "gone"] /\ address = {}
    /\ attached = [v \in Volumes |-> {}] /\ changes = 0
    /\ step = "idle" /\ listed = Nothing /\ disks = Nothing /\ todo = {}
    /\ book = Nothing /\ gauges = Nothing /\ credsOK = TRUE

(***************************************************************************)
(* The fleet.  A terminated instance that AWS still lists is "stopped" to  *)
(* the program: it is not running.                                         *)
(***************************************************************************)
Change ==
    /\ changes < MaxChanges /\ changes' = changes + 1
    /\ \/ \E i \in Instances, s \in States, a \in BOOLEAN :
            /\ s # fleet[i]
            /\ fleet' = [fleet EXCEPT ![i] = s]
            /\ address' = IF a /\ s # "gone" THEN address \cup {i} ELSE address \ {i}
            /\ attached' = [v \in Volumes |-> IF s = "gone" THEN attached[v] \ {i}
                                              ELSE attached[v]]
       \/ \E v \in Volumes, on \in SUBSET {i \in Instances : fleet[i] # "gone"} :
            /\ on # attached[v]
            /\ attached' = [attached EXCEPT ![v] = on]
            /\ UNCHANGED <<fleet, address>>
    /\ UNCHANGED <<cycle, book, gauges, credsOK>>

(***************************************************************************)
(* A cycle: EmitEstimated and inventory.                                   *)
(***************************************************************************)
Begin ==
    /\ step = "idle" /\ step' = "creds"
    /\ UNCHANGED <<aws, listed, disks, todo, book, gauges, credsOK>>

GiveUp ==
    /\ step' = "idle" /\ listed' = Nothing /\ disks' = Nothing /\ todo' = {}
    /\ UNCHANGED <<aws, book, gauges>>

CredentialsFail   == step = "creds" /\ credsOK' = FALSE /\ GiveUp
CredentialsUsable ==
    /\ step = "creds" /\ step' = "instances" /\ credsOK' = TRUE
    /\ UNCHANGED <<aws, listed, disks, todo, book, gauges>>

DescribeFails ==
    /\ step \in {"instances", "volumes"}
    /\ GiveUp /\ UNCHANGED credsOK

DescribeInstances ==
    /\ step = "instances" /\ step' = "volumes"
    /\ listed' = [i \in {j \in Instances : fleet[j] # "gone"} |->
                    [state |-> fleet[i], hasIP |-> i \in address]]
    /\ UNCHANGED <<aws, disks, todo, book, gauges, credsOK>>

(* inventory joins the volumes with the instances listed before, a volume  *)
(* with each of its attachments; that of an instance that was not listed   *)
(* is left out.                                                            *)
volumesOf(i) == {v \in DOMAIN disks : i \in disks[v]}

(* Every distinct lookup of the inventory; ensurePrices makes them one     *)
(* after the other, again for each instance of a type while it fails.      *)
Lookups(vols) ==
    {InstanceType[i] : i \in DOMAIN listed}
    \cup {VolumeType[v] : v \in {w \in DOMAIN vols : vols[w] \cap DOMAIN listed # {}}}

DescribeVolumes ==
    /\ step = "volumes" /\ step' = "prices"
    /\ disks' = attached
    /\ todo' = Lookups(disks')
    /\ UNCHANGED <<aws, listed, book, gauges, credsOK>>

(***************************************************************************)
(* Prices: EnsureInstance, EnsureEBS, fetch and parseOnDemandUSD.          *)
(***************************************************************************)
parseOnDemandUSDZero(doc) ==  \* mutant: ParseFloat's error is ignored
    LET usd == doc \ {Blank}
    IN  IF usd = {} THEN {NoPrice} ELSE {IF u = Garbled THEN 0 ELSE u : u \in usd}

(* The first USD that is not blank, in the order of a Go map: any of them. *)
parseOnDemandUSD(doc) ==
    LET usd == doc \ {Blank}
    IN  IF usd = {} THEN {NoPrice}
        ELSE {IF u = Garbled THEN NoPrice ELSE u : u \in usd}

(* What fetch may return for a type: an error, or what the first document  *)
(* of a list says.                                                         *)
Fetched(t) ==
    {NoPrice} \cup UNION {parseOnDemandUSD(Head(list)) : list \in PriceLists[t] \ {<<>>}}

Known(t) == t \in DOMAIN book

Ensure(t) ==
    /\ step = "prices" /\ t \in todo
    /\ todo' = todo \ {t}
    /\ IF Known(t) THEN UNCHANGED book
       ELSE \E price \in Fetched(t) :
            book' = IF price = NoPrice THEN book ELSE Over(book, [x \in {t} |-> price])
    /\ UNCHANGED <<aws, step, listed, disks, gauges, credsOK>>

EndPricesEarly ==  \* mutant: ensurePrices returns at the first error
    /\ step = "prices" /\ step' = "emit"
    /\ UNCHANGED <<aws, listed, disks, todo, book, gauges, credsOK>>

EndPrices ==
    /\ step = "prices" /\ todo = {} /\ step' = "emit"
    /\ UNCHANGED <<aws, listed, disks, todo, book, gauges, credsOK>>

(***************************************************************************)
(* Compute and the gauges.                                                 *)
(***************************************************************************)
daily(hourly) == 24 * 730 * hourly

(* A stopped instance computes for nothing; a running one whose price is   *)
(* unknown has no sample.                                                  *)
compute(i) ==
    IF listed[i].state # "running" THEN [p \in {"compute"} |-> 0]
    ELSE IF Known(InstanceType[i])
    THEN [p \in {"compute"} |-> daily(book[InstanceType[i]])]
    ELSE Nothing

storageRunning(i) ==  \* mutant: a stopped instance has no storage cost
    [v \in {w \in volumesOf(i) : Known(VolumeType[w]) /\ listed[i].state = "running"} |->
        24 * book[VolumeType[v]] * Size[v]]

storage(i) ==
    [v \in {w \in volumesOf(i) : Known(VolumeType[w])} |->
        24 * book[VolumeType[v]] * Size[v]]

publicIPv4(i) ==
    IF listed[i].hasIP THEN [p \in {"public_ipv4"} |-> daily(IPv4Hourly)]
    ELSE Nothing

Sample(i) == Over(compute(i), Over(storage(i), publicIPv4(i)))

Samples ==
    [s \in {r \in Series : r.id \in DOMAIN listed
                           /\ r.state = listed[r.id].state
                           /\ r.part \in DOMAIN Sample(r.id)} |->
        Sample(s.id)[s.part]]

Emit ==
    /\ step = "emit"
    /\ gauges' = Over(Samples, gauges)
    /\ step' = "idle" /\ listed' = Nothing /\ disks' = Nothing
    /\ UNCHANGED <<aws, todo, book, credsOK>>

CostNext ==
    \/ Change \/ Begin \/ CredentialsFail \/ CredentialsUsable
    \/ DescribeInstances \/ DescribeVolumes \/ DescribeFails
    \/ (\E t \in todo : Ensure(t)) \/ EndPrices \/ Emit

(* The loop begins cycle after cycle and no call hangs; AWS does not fail  *)
(* a call that is made again and again every time, and in the end answers  *)
(* a price query with a price.                                             *)
Fairness ==
    /\ WF_costVars(Begin \/ DescribeFails \/ EndPrices \/ Emit)
    /\ SF_costVars(CredentialsUsable)
    /\ SF_costVars(DescribeInstances)
    /\ SF_costVars(DescribeVolumes)
    /\ \A t \in Types :
        /\ WF_costVars(Ensure(t))
        /\ SF_costVars(Ensure(t) /\ t \in DOMAIN book')

CostSpec == CostInit /\ [][CostNext]_costVars /\ Fairness

(***************************************************************************)
(* Properties.                                                             *)
(***************************************************************************)

(* Types, and the estimate is made when every lookup has been tried.       *)
CostTypeOK ==
    /\ fleet \in [Instances -> States] /\ address \subseteq Instances
    /\ attached \in [Volumes -> SUBSET Instances]
    /\ step \in {"idle", "creds", "instances", "volumes", "prices", "emit"}
    /\ DOMAIN listed \subseteq Instances /\ DOMAIN disks \subseteq Volumes
    /\ todo \subseteq Types /\ (step # "prices" => todo = {})
    /\ DOMAIN book \subseteq Types /\ DOMAIN gauges \subseteq Series

(* The prices AWS quotes for a type: the numbers of the documents that may *)
(* be the first of its list.  A well-filtered query has one of them.       *)
Quoted(t) ==
    UNION {Head(list) \ {Blank, Garbled} : list \in PriceLists[t] \ {<<>>}}

(* The type a series is priced by, if any, and its value at given prices.  *)
Needs(s) ==
    CASE s.part = "compute" -> IF s.state = "running" THEN {InstanceType[s.id]} ELSE {}
      [] s.part = "public_ipv4" -> {}
      [] OTHER -> {VolumeType[s.part]}

Value(s, price) ==
    CASE s.part = "compute" ->
            IF s.state = "running" THEN daily(price[InstanceType[s.id]]) ELSE 0
      [] s.part = "public_ipv4" -> daily(IPv4Hourly)
      [] OTHER -> 24 * price[VolumeType[s.part]] * Size[s.part]

(* The types that some exported series is priced by.                       *)
Priced == UNION {Needs(s) : s \in DOMAIN gauges}

(* No guesses (estimate.go:73-105): whatever documents AWS answers, calls  *)
(* fail and the fleet does, everything exported, in this cycle or an       *)
(* earlier one, has the value it has at one price per type, and that is a  *)
(* price AWS quotes for this very type.                                    *)
NeverGuessed ==
    \E price \in [Priced -> UNION {Quoted(t) : t \in Types}] :
        /\ \A t \in Priced : price[t] \in Quoted(t)
        /\ \A s \in DOMAIN gauges : gauges[s] = Value(s, price)

(* What AWS charges for now: every part of every instance in its state.    *)
Charged(i) ==
    {"compute"} \cup {v \in Volumes : i \in attached[v]}
    \cup (IF i \in address THEN {"public_ipv4"} ELSE {})

Due == {s \in Series : /\ fleet[s.id] # "gone" /\ s.state = fleet[s.id]
                        /\ s.part \in Charged(s.id)}

(* Nothing stays out of the total, and a join of two moments does not      *)
(* last (poller.go:214-246, 251): once the fleet has stopped changing, all *)
(* that is charged is exported, and each cycle records exactly that.       *)
CatchesUp ==
    <>[](Due \subseteq DOMAIN gauges /\ (step = "emit" => DOMAIN Samples = Due))
=============================================================================
