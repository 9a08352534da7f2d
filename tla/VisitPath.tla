------------------------------ MODULE VisitPath ------------------------------
(***************************************************************************)
(* A request's way through edge (apps/edge/main.go) to helloworld          *)
(* (apps/helloworld/main.go), whose visit goes to Kafka through an         *)
(* asynchronous writer; and how edge and helloworld stop: SIGTERM,         *)
(* Shutdown for five seconds at most, and then the deferred calls, of      *)
(* which helloworld's visitW.Close flushes the writer.  static and wsfeed  *)
(* are here what edge sees of them: they answer or they do not.            *)
(*                                                                         *)
(* Data: a request is its path's kind; a visit is the request that caused  *)
(* it.  net/http's Shutdown, the reverse proxy and kafka-go are external:  *)
(* Shutdown closes the listener and waits for the requests it has          *)
(* accepted, hijacked connections (/ws) excepted; Close refuses new        *)
(* messages and waits for the batches, each of which ends with Completion  *)
(* after a bounded number of attempts.                                     *)
(***************************************************************************)
EXTENDS Integers, FiniteSets

CONSTANTS
    Requests,
    Backends,   \* the replicas of helloworld
    Edge,       \* one replica of edge: a client's connection is with one
    NoServer,
    MaxFaults   \* bound of the model: servers that die, broker errors

ASSUME ServersDiffer == Edge \notin Backends /\ NoServer \notin Backends \cup {Edge}
ASSUME MaxFaultsIsNat == MaxFaults \in Nat

Servers == Backends \cup {Edge}
Kinds   == {"healthz", "ws", "hw", "long", "other"}

VARIABLES
    phase,  \* per server: "up", "stopping", "closing", "exited" or "died"
    late,   \* history: servers whose Shutdown gave up after its timeout
    kind,   \* per request: its path: of edge itself, /ws, /hw..., or another;
            \* "long" is a path under /hw of more than maxVisitPathLen bytes
    req,    \* per request: where it has come to, seen from edge
    via,    \* the replica of helloworld it was handed to
    work,   \* per request: how far helloworld's handler is
    visit,  \* per request: what became of its visit
    faults

requests == <<kind, req, via, work>>
vars     == <<phase, late, requests, visit, faults>>

Alive(s) == phase[s] \notin {"exited", "died"}

Init ==
    /\ phase = [s \in Servers |-> "up"] /\ late = {}
    /\ kind \in [Requests -> Kinds]
    /\ req = [q \in Requests |-> "new"] /\ via = [q \in Requests |-> NoServer]
    /\ work = [q \in Requests |-> "none"]
    /\ visit = [q \in Requests |-> "none"]
    /\ faults = 0

Move(q, place) == req' = [req EXCEPT ![q] = place]

(***************************************************************************)
(* edge: the mux, and the reverse proxy of each route.                     *)
(***************************************************************************)
Arrive(q) ==
    /\ req[q] = "new" /\ phase[Edge] = "up"
    /\ Move(q, "edge")
    /\ UNCHANGED <<phase, late, kind, via, work, visit, faults>>

(* The client goes away, which cancels the contexts of its request.        *)
ClientLeaves(q) ==
    /\ req[q] \in {"edge", "proxied", "session"} /\ Alive(Edge)
    /\ Move(q, "left")
    /\ UNCHANGED <<phase, late, kind, via, work, visit, faults>>

(* /healthz is edge's own; / goes to static, which answers, or to nobody;  *)
(* /ws is hijacked for as long as its session lasts.                       *)
Route(q) ==
    /\ req[q] = "edge" /\ Alive(Edge)
    /\ CASE kind[q] = "healthz" -> Move(q, "answered")
         [] kind[q] = "other"   -> Move(q, "answered") \/ Move(q, "badGateway")
         [] kind[q] = "ws"      -> Move(q, "session") \/ Move(q, "badGateway")
         [] OTHER               -> FALSE
    /\ UNCHANGED <<phase, late, kind, via, work, visit, faults>>

ProxyTo(q, b) ==
    /\ req[q] = "edge" /\ Alive(Edge) /\ kind[q] \in {"hw", "long"}
    /\ IF phase[b] = "up"
       THEN /\ Move(q, "proxied") /\ via' = [via EXCEPT ![q] = b]
            /\ work' = [work EXCEPT ![q] = "accepted"]
       ELSE Move(q, "badGateway") /\ UNCHANGED <<via, work>>
    /\ UNCHANGED <<phase, late, kind, visit, faults>>

(* The answer of helloworld reaches the client.                            *)
Relay(q) ==
    /\ req[q] = "proxied" /\ work[q] = "replied" /\ Alive(Edge)
    /\ Move(q, "answered")
    /\ UNCHANGED <<phase, late, kind, via, work, visit, faults>>

(***************************************************************************)
(* helloworld: the handler and the writer.                                 *)
(***************************************************************************)
(* publishVisit; an error of WriteMessages is discarded.                   *)
PublishVisit(q) ==
    /\ work[q] = "accepted" /\ Alive(via[q])
    /\ work' = [work EXCEPT ![q] = "published"]
    /\ \/ /\ kind[q] = "long"
          /\ UNCHANGED <<visit, faults>>
       \/ /\ kind[q] = "hw"
          /\ visit' = [visit EXCEPT ![q] =
                IF phase[via[q]] = "closing" THEN "refused" ELSE "pending"]
          /\ UNCHANGED faults
       \/ /\ kind[q] = "hw" /\ faults < MaxFaults /\ faults' = faults + 1
          /\ visit' = [visit EXCEPT ![q] = "noBroker"]
       \/ /\ kind[q] = "hw" /\ req[q] \in {"left", "cut"}
          /\ visit' = [visit EXCEPT ![q] = "canceled"]
          /\ UNCHANGED faults
    /\ UNCHANGED <<phase, late, kind, req, via>>

Reply(q) ==
    /\ work[q] = "published" /\ Alive(via[q])
    /\ work' = [work EXCEPT ![q] = "replied"]
    /\ UNCHANGED <<phase, late, kind, req, via, visit, faults>>

Pending(b) == {q \in Requests : via[q] = b /\ visit[q] = "pending"}

(* A batch is written, or Completion logs that it was not.                 *)
WriteBatch(b) ==
    /\ Alive(b)
    /\ \E batch \in SUBSET Pending(b) \ {{}}, ok \in BOOLEAN :
        /\ ok \/ faults < MaxFaults
        /\ faults' = IF ok THEN faults ELSE faults + 1
        /\ visit' = [q \in Requests |->
                        IF q \in batch THEN IF ok THEN "written" ELSE "failed"
                        ELSE visit[q]]
    /\ UNCHANGED <<phase, late, requests>>

(***************************************************************************)
(* How a server stops.                                                     *)
(***************************************************************************)
Phase(s, p) == phase' = [phase EXCEPT ![s] = p]

Sigterm(s) ==
    /\ phase[s] = "up" /\ Phase(s, "stopping")
    /\ UNCHANGED <<late, requests, visit, faults>>

InFlight(s) ==
    IF s = Edge THEN {q \in Requests : req[q] \in {"edge", "proxied", "session"}}
    ELSE {q \in Requests : via[q] = s /\ work[q] \in {"accepted", "published"}}

(* The requests Shutdown waits for.                                        *)
Active(s) == {q \in InFlight(s) : s = Edge => req[q] # "session"}

ShutdownReturnsAtOnce(s) ==  \* mutant: srv.Close() for srv.Shutdown
    /\ phase[s] = "stopping"
    /\ Phase(s, "closing")
    /\ UNCHANGED <<late, requests, visit, faults>>

ShutdownReturns(s) ==
    /\ phase[s] = "stopping" /\ Active(s) = {}
    /\ Phase(s, "closing")
    /\ UNCHANGED <<late, requests, visit, faults>>

ShutdownExpiresNever(s) == FALSE /\ UNCHANGED vars  \* mutant: context.Background()

ShutdownExpires(s) ==
    /\ phase[s] = "stopping" /\ Active(s) # {}
    /\ Phase(s, "closing") /\ late' = late \cup {s}
    /\ UNCHANGED <<requests, visit, faults>>

(* The connections of a process that ends are cut: edge answers what it    *)
(* had proxied with a 502, and the clients of edge get nothing.            *)
Ends(s) ==
    /\ req' = [q \in Requests |->
            IF q \notin InFlight(s) THEN req[q]
            ELSE IF s = Edge THEN "cut"
            ELSE IF req[q] = "proxied" THEN "badGateway" ELSE req[q]]
    /\ work' = [q \in Requests |->
            IF s # Edge /\ q \in InFlight(s) THEN "gone" ELSE work[q]]

ExitUnflushed(s) ==  \* mutant: os.Exit, or no visitW.Close
    /\ phase[s] = "closing"
    /\ Phase(s, "exited") /\ Ends(s)
    /\ visit' = [q \in Requests |-> IF q \in Pending(s) THEN "lost" ELSE visit[q]]
    /\ UNCHANGED <<late, kind, via, faults>>

(* main returns after its deferred calls: visitW.Close has nothing left to *)
(* wait for.                                                               *)
Exit(s) ==
    /\ phase[s] = "closing" /\ Pending(s) = {}
    /\ Phase(s, "exited") /\ Ends(s)
    /\ UNCHANGED <<late, kind, via, visit, faults>>

(* log.Fatal of a listener that fails, or a SIGKILL: no deferred call.     *)
Die(s) ==
    /\ Alive(s) /\ faults < MaxFaults /\ faults' = faults + 1
    /\ Phase(s, "died") /\ Ends(s)
    /\ visit' = [q \in Requests |-> IF q \in Pending(s) THEN "lost" ELSE visit[q]]
    /\ UNCHANGED <<late, kind, via>>

Next ==
    \/ \E q \in Requests :
        \/ Arrive(q) \/ ClientLeaves(q) \/ Route(q) \/ PublishVisit(q) \/ Reply(q) \/ Relay(q)
        \/ \E b \in Backends : ProxyTo(q, b)
    \/ \E b \in Backends : WriteBatch(b)
    \/ \E s \in Servers :
        \/ Sigterm(s) \/ ShutdownReturns(s) \/ ShutdownExpires(s)
        \/ Exit(s) \/ Die(s)

(* Shutdown's timer fires, and the writer ends its batches.  Nothing makes *)
(* a handler end: an upstream may hang and a client may not read.          *)
Fairness ==
    /\ \A s \in Servers : WF_vars(ShutdownReturns(s) \/ ShutdownExpires(s)) /\ WF_vars(Exit(s))
    /\ \A b \in Backends : WF_vars(WriteBatch(b))

Spec == Init /\ [][Next]_vars /\ Fairness

(***************************************************************************)
(* Properties.                                                             *)
(***************************************************************************)

(* Types: where a request, its handler, its visit and each server can be.  *)
TypeOK ==
    /\ phase \in [Servers -> {"up", "stopping", "closing", "exited", "died"}]
    /\ late \subseteq Servers
    /\ kind \in [Requests -> Kinds]
    /\ req \in [Requests -> {"new", "edge", "proxied", "session", "answered",
                             "badGateway", "left", "cut"}]
    /\ via \in [Requests -> Backends \cup {NoServer}]
    /\ work \in [Requests -> {"none", "accepted", "published", "replied", "gone"}]
    /\ visit \in [Requests -> {"none", "pending", "written", "failed",
                               "noBroker", "canceled", "refused", "lost"}]
    /\ faults \in 0..MaxFaults

(* A visit is counted although it is only handed to a buffer: what a       *)
(* helloworld that returned from main in time has served is in Kafka,      *)
(* unless the broker failed it or its client had gone; other than that     *)
(* only a process that dies or overruns its five seconds loses visits.     *)
CleanExitFlushes ==
    \A q \in Requests :
        /\ kind[q] = "hw" /\ via[q] # NoServer
        /\ phase[via[q]] = "exited" /\ via[q] \notin late
        => visit[q] \in {"written", "failed", "noBroker", "canceled"}

(* A request that was accepted is answered: it is cut only by an edge that *)
(* died or overran its five seconds (a /ws session by any exit), and a     *)
(* request helloworld had accepted turns into a 502 only if that replica   *)
(* did.                                                                    *)
AcceptedIsAnswered ==
    \A q \in Requests :
        /\ (req[q] = "cut" /\ kind[q] # "ws")
            => phase[Edge] = "died" \/ Edge \in late
        /\ (req[q] = "badGateway" /\ via[q] # NoServer)
            => phase[via[q]] = "died" \/ via[q] \in late

(* A server that is told to stop ends, whatever hangs in its handlers and  *)
(* however long /ws sessions last.                                         *)
ShutdownEnds == \A s \in Servers : phase[s] = "stopping" ~> ~Alive(s)
=============================================================================
