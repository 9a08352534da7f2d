--------------------------- MODULE VisitPathProofs ---------------------------
(***************************************************************************)
(* For any number of requests, replicas and faults: what a helloworld that *)
(* returned in time has served is in Kafka (CleanExitFlushes), and what a  *)
(* server accepted is answered (AcceptedIsAnswered).                       *)
(*                                                                         *)
(* Both rest on what Shutdown leaves behind: a replica that was not late   *)
(* has answered everything it accepted (BackendQuiet), so nothing is       *)
(* published after visitW.Close began, and an edge that was not late has   *)
(* nothing but /ws sessions (EdgeQuiet).                                   *)
(***************************************************************************)
EXTENDS VisitPath, TLAPS

(* Where a request is with edge and with helloworld agree.                 *)
Handed ==
    \A q \in Requests :
        /\ via[q] = NoServer <=> work[q] = "none"
        /\ req[q] \in {"new", "edge"} => via[q] = NoServer
        /\ req[q] = "session" => kind[q] = "ws"
        /\ work[q] = "gone" => ~Alive(via[q])

(* What became of a visit, and of the replica it was made at.              *)
Visited ==
    \A q \in Requests :
        /\ visit[q] # "none" => via[q] # NoServer
        /\ kind[q] = "hw" /\ visit[q] = "none" => work[q] \in {"none", "accepted", "gone"}
        /\ visit[q] = "pending" => Alive(via[q])
        /\ visit[q] = "lost" => phase[via[q]] = "died"
        /\ visit[q] = "refused" => via[q] \in late

BackendQuiet ==
    \A q \in Requests :
        via[q] # NoServer /\ phase[via[q]] \in {"closing", "exited"} /\ via[q] \notin late
            => work[q] = "replied"

EdgeQuiet ==
    phase[Edge] \in {"closing", "exited"} /\ Edge \notin late =>
        \A q \in Requests : req[q] \notin {"edge", "proxied"}

IInv == TypeOK /\ Handed /\ Visited /\ BackendQuiet /\ EdgeQuiet /\ AcceptedIsAnswered

LEMMA InitEstablishes == Init => IInv
BY MaxFaultsIsNat, ServersDiffer
   DEF Init, IInv, TypeOK, Handed, Visited, BackendQuiet, EdgeQuiet,
       AcceptedIsAnswered, Servers, Alive

(***************************************************************************)
(* edge's steps.                                                           *)
(***************************************************************************)
LEMMA ArrivePreserves ==
  ASSUME IInv, NEW q \in Requests, Arrive(q)
  PROVE  IInv'
<1> USE DEF Arrive, Move
<1>1. TypeOK'
  BY DEF IInv, TypeOK
<1>2. Handed'
  BY DEF IInv, TypeOK, Handed, Alive
<1>3. Visited'
  BY DEF IInv, Visited, Alive
<1>4. BackendQuiet'
  BY DEF IInv, BackendQuiet
<1>5. EdgeQuiet'
  BY DEF IInv, EdgeQuiet
<1>6. AcceptedIsAnswered'
  BY DEF IInv, TypeOK, AcceptedIsAnswered
<1> QED
  BY <1>1, <1>2, <1>3, <1>4, <1>5, <1>6 DEF IInv

LEMMA ClientLeavesPreserves ==
  ASSUME IInv, NEW q \in Requests, ClientLeaves(q)
  PROVE  IInv'
<1> USE DEF ClientLeaves, Move
<1>1. TypeOK'
  BY DEF IInv, TypeOK
<1>2. Handed'
  BY DEF IInv, TypeOK, Handed, Alive
<1>3. Visited'
  BY DEF IInv, Visited, Alive
<1>4. BackendQuiet'
  BY DEF IInv, BackendQuiet
<1>5. EdgeQuiet'
  BY DEF IInv, TypeOK, EdgeQuiet
<1>6. AcceptedIsAnswered'
  BY DEF IInv, TypeOK, AcceptedIsAnswered
<1> QED
  BY <1>1, <1>2, <1>3, <1>4, <1>5, <1>6 DEF IInv

LEMMA RoutePreserves ==
  ASSUME IInv, NEW q \in Requests, Route(q)
  PROVE  IInv'
<1>1. /\ req[q] = "edge" /\ UNCHANGED <<phase, late, kind, via, work, visit, faults>>
      /\ \/ Move(q, "answered")
         \/ Move(q, "badGateway")
         \/ kind[q] = "ws" /\ Move(q, "session")
  BY DEF Route, IInv, TypeOK, Kinds
<1> USE <1>1 DEF Move
<1>2. TypeOK'
  BY DEF IInv, TypeOK
<1>3. Handed'
  BY DEF IInv, TypeOK, Handed, Alive
<1>4. Visited'
  BY DEF IInv, Visited, Alive
<1>5. BackendQuiet'
  BY DEF IInv, BackendQuiet
<1>6. EdgeQuiet'
  BY DEF IInv, TypeOK, EdgeQuiet
<1>7. AcceptedIsAnswered'
  BY DEF IInv, TypeOK, Handed, AcceptedIsAnswered
<1> QED
  BY <1>2, <1>3, <1>4, <1>5, <1>6, <1>7 DEF IInv

LEMMA ProxyToPreserves ==
  ASSUME IInv, NEW q \in Requests, NEW b \in Backends, ProxyTo(q, b)
  PROVE  IInv'
<1>1. CASE phase[b] = "up"
  <2>1. /\ req[q] = "edge" /\ Move(q, "proxied") /\ via' = [via EXCEPT ![q] = b]
        /\ work' = [work EXCEPT ![q] = "accepted"]
        /\ UNCHANGED <<phase, late, kind, visit, faults>>
        /\ b # NoServer /\ via[q] = NoServer /\ visit[q] = "none"
    BY <1>1, ServersDiffer DEF ProxyTo, IInv, Handed, Visited
  <2> USE <2>1 DEF Move
  <2>2. TypeOK'
    BY DEF IInv, TypeOK
  <2>3. Handed'
    BY DEF IInv, TypeOK, Handed, Alive
  <2>4. Visited'
    BY DEF IInv, TypeOK, Visited, Alive
  <2>5. BackendQuiet'
    BY <1>1 DEF IInv, TypeOK, BackendQuiet
  <2>6. EdgeQuiet'
    BY DEF IInv, TypeOK, EdgeQuiet
  <2>7. AcceptedIsAnswered'
    BY DEF IInv, TypeOK, AcceptedIsAnswered
  <2> QED
    BY <2>2, <2>3, <2>4, <2>5, <2>6, <2>7 DEF IInv
<1>2. CASE phase[b] # "up"
  <2>1. /\ req[q] = "edge" /\ Move(q, "badGateway")
        /\ UNCHANGED <<phase, late, kind, via, work, visit, faults>>
    BY <1>2 DEF ProxyTo
  <2> USE <2>1 DEF Move
  <2>2. TypeOK'
    BY DEF IInv, TypeOK
  <2>3. Handed'
    BY DEF IInv, TypeOK, Handed, Alive
  <2>4. Visited'
    BY DEF IInv, Visited, Alive
  <2>5. BackendQuiet'
    BY DEF IInv, BackendQuiet
  <2>6. EdgeQuiet'
    BY DEF IInv, TypeOK, EdgeQuiet
  <2>7. AcceptedIsAnswered'
    BY DEF IInv, TypeOK, Handed, AcceptedIsAnswered
  <2> QED
    BY <2>2, <2>3, <2>4, <2>5, <2>6, <2>7 DEF IInv
<1> QED
  BY <1>1, <1>2

LEMMA RelayPreserves ==
  ASSUME IInv, NEW q \in Requests, Relay(q)
  PROVE  IInv'
<1> USE DEF Relay, Move
<1>1. TypeOK'
  BY DEF IInv, TypeOK
<1>2. Handed'
  BY DEF IInv, TypeOK, Handed, Alive
<1>3. Visited'
  BY DEF IInv, Visited, Alive
<1>4. BackendQuiet'
  BY DEF IInv, BackendQuiet
<1>5. EdgeQuiet'
  BY DEF IInv, TypeOK, EdgeQuiet
<1>6. AcceptedIsAnswered'
  BY DEF IInv, TypeOK, AcceptedIsAnswered
<1> QED
  BY <1>1, <1>2, <1>3, <1>4, <1>5, <1>6 DEF IInv

(***************************************************************************)
(* helloworld's steps.                                                     *)
(***************************************************************************)
LEMMA PublishVisitPreserves ==
  ASSUME IInv, NEW q \in Requests, PublishVisit(q)
  PROVE  IInv'
<1>1. /\ work[q] = "accepted" /\ Alive(via[q])
      /\ work' = [work EXCEPT ![q] = "published"]
      /\ UNCHANGED <<phase, late, kind, req, via>>
      /\ faults' \in 0..MaxFaults
  BY MaxFaultsIsNat DEF PublishVisit, IInv, TypeOK
<1>2. \/ kind[q] = "long" /\ visit' = visit
      \/ \E v \in {"pending", "refused", "noBroker", "canceled"} :
            /\ visit' = [visit EXCEPT ![q] = v]
            /\ v = "refused" => phase[via[q]] = "closing"
  BY DEF PublishVisit
<1>3. via[q] # NoServer
  BY <1>1 DEF IInv, Handed
<1>4. phase[via[q]] = "closing" => via[q] \in late
  BY <1>1, <1>3 DEF IInv, BackendQuiet
<1>5. TypeOK'
  BY <1>1, <1>2 DEF IInv, TypeOK
<1>6. Handed'
  BY <1>1 DEF IInv, TypeOK, Handed, Alive
<1>7. Visited'
  BY <1>1, <1>2, <1>3, <1>4 DEF IInv, TypeOK, Visited, Alive
<1>8. BackendQuiet'
  BY <1>1 DEF IInv, TypeOK, BackendQuiet
<1>9. EdgeQuiet' /\ AcceptedIsAnswered'
  BY <1>1 DEF IInv, EdgeQuiet, AcceptedIsAnswered
<1> QED
  BY <1>5, <1>6, <1>7, <1>8, <1>9 DEF IInv

LEMMA ReplyPreserves ==
  ASSUME IInv, NEW q \in Requests, Reply(q)
  PROVE  IInv'
<1> USE DEF Reply
<1>1. TypeOK'
  BY DEF IInv, TypeOK
<1>2. Handed'
  BY DEF IInv, TypeOK, Handed, Alive
<1>3. Visited'
  BY DEF IInv, TypeOK, Visited, Alive
<1>4. BackendQuiet'
  BY DEF IInv, TypeOK, BackendQuiet
<1>5. EdgeQuiet' /\ AcceptedIsAnswered'
  BY DEF IInv, EdgeQuiet, AcceptedIsAnswered
<1> QED
  BY <1>1, <1>2, <1>3, <1>4, <1>5 DEF IInv

LEMMA WriteBatchPreserves ==
  ASSUME IInv, NEW b \in Backends, WriteBatch(b)
  PROVE  IInv'
<1>1. PICK batch \in SUBSET Pending(b), ok \in BOOLEAN :
        /\ ok \/ faults < MaxFaults
        /\ faults' = IF ok THEN faults ELSE faults + 1
        /\ visit' = [q \in Requests |->
                        IF q \in batch THEN IF ok THEN "written" ELSE "failed"
                        ELSE visit[q]]
  BY DEF WriteBatch
<1>2. UNCHANGED <<phase, late, kind, req, via, work>>
  BY DEF WriteBatch, requests
<1>3. \A q \in Requests :
        \/ visit'[q] = visit[q]
        \/ visit[q] = "pending" /\ visit'[q] \in {"written", "failed"}
  BY <1>1 DEF Pending
<1>4. TypeOK'
  BY <1>1, <1>2, MaxFaultsIsNat DEF IInv, TypeOK
<1>5. Handed'
  BY <1>2 DEF IInv, Handed, Alive
<1>6. Visited'
  BY <1>2, <1>3 DEF IInv, Visited, Alive
<1>7. BackendQuiet' /\ EdgeQuiet' /\ AcceptedIsAnswered'
  BY <1>2 DEF IInv, BackendQuiet, EdgeQuiet, AcceptedIsAnswered
<1> QED
  BY <1>4, <1>5, <1>6, <1>7 DEF IInv

(***************************************************************************)
(* How servers stop.                                                       *)
(***************************************************************************)
LEMMA SigtermPreserves ==
  ASSUME IInv, NEW s \in Servers, Sigterm(s)
  PROVE  IInv'
<1>1. /\ phase[s] = "up" /\ phase' = [phase EXCEPT ![s] = "stopping"]
      /\ UNCHANGED <<late, kind, req, via, work, visit, faults>>
  BY DEF Sigterm, Phase, requests
<1>2. TypeOK'
  BY <1>1 DEF IInv, TypeOK
<1>3. Handed'
  BY <1>1 DEF IInv, TypeOK, Handed, Alive, Servers
<1>4. \A q \in Requests : via[q] # NoServer => via[q] \in Servers
  BY DEF IInv, TypeOK, Servers
<1>5. Visited'
  BY <1>1, <1>4 DEF IInv, TypeOK, Visited, Alive
<1>6. BackendQuiet'
  BY <1>1, <1>4 DEF IInv, TypeOK, BackendQuiet
<1>7. EdgeQuiet'
  BY <1>1 DEF IInv, TypeOK, EdgeQuiet, Servers
<1>8. AcceptedIsAnswered'
  BY <1>1, <1>4 DEF IInv, TypeOK, AcceptedIsAnswered, Servers
<1> QED
  BY <1>2, <1>3, <1>5, <1>6, <1>7, <1>8 DEF IInv

(* Both ends of Shutdown: s goes on to its deferred calls, with nothing    *)
(* active or marked late.                                                  *)
LEMMA ShutdownPreserves ==
  ASSUME IInv, NEW s \in Servers, ShutdownReturns(s) \/ ShutdownExpires(s)
  PROVE  IInv'
<1>1. /\ phase[s] = "stopping" /\ phase' = [phase EXCEPT ![s] = "closing"]
      /\ late \subseteq late' /\ late' \subseteq Servers
      /\ s \in late' \/ Active(s) = {}
      /\ UNCHANGED <<kind, req, via, work, visit, faults>>
  BY DEF ShutdownReturns, ShutdownExpires, Phase, requests, IInv, TypeOK
<1>2. \A q \in Requests : via[q] # NoServer => via[q] \in Backends
  BY DEF IInv, TypeOK
<1>3. TypeOK'
  BY <1>1 DEF IInv, TypeOK
<1>4. Handed'
  BY <1>1 DEF IInv, TypeOK, Handed, Alive, Servers
<1>5. Visited'
  BY <1>1, <1>2 DEF IInv, TypeOK, Visited, Alive, Servers
<1>6. BackendQuiet'
  <2> SUFFICES ASSUME NEW q \in Requests, via[q] # NoServer,
                      phase'[via[q]] \in {"closing", "exited"}, via[q] \notin late'
               PROVE  work[q] = "replied"
    BY <1>1 DEF BackendQuiet
  <2>1. CASE via[q] = s
    <3>1. s # Edge /\ q \notin Active(s)
      BY <1>1, <1>2, <2>1, ServersDiffer
    <3>2. phase[s] # "exited" /\ work[q] \notin {"accepted", "published"}
      BY <1>1, <2>1, <3>1 DEF Active, InFlight
    <3>3. work[q] # "gone"
      BY <1>1, <2>1 DEF IInv, Handed, Alive
    <3> QED
      BY <3>2, <3>3 DEF IInv, TypeOK, Handed
  <2>2. CASE via[q] # s
    BY <1>1, <1>2, <2>2 DEF IInv, TypeOK, BackendQuiet, Servers
  <2> QED
    BY <2>1, <2>2
<1>7. EdgeQuiet'
  <2> SUFFICES ASSUME phase'[Edge] \in {"closing", "exited"}, Edge \notin late',
                      NEW q \in Requests
               PROVE  req[q] \notin {"edge", "proxied"}
    BY <1>1 DEF EdgeQuiet
  <2>1. CASE s = Edge
    BY <1>1, <2>1 DEF Active, InFlight
  <2>2. CASE s # Edge
    BY <1>1, <2>2 DEF IInv, TypeOK, EdgeQuiet, Servers
  <2> QED
    BY <2>1, <2>2
<1>8. AcceptedIsAnswered'
  BY <1>1, <1>2 DEF IInv, TypeOK, AcceptedIsAnswered, Servers
<1> QED
  BY <1>3, <1>4, <1>5, <1>6, <1>7, <1>8 DEF IInv

(* What the end of a server does to the requests.                          *)
LEMMA EndsMoves ==
  ASSUME TypeOK, NEW s \in Servers, Ends(s)
  PROVE  /\ req' \in [Requests -> {"new", "edge", "proxied", "session", "answered",
                                   "badGateway", "left", "cut"}]
         /\ work' \in [Requests -> {"none", "accepted", "published", "replied", "gone"}]
         /\ \A q \in Requests :
              /\ \/ req'[q] = req[q]
                 \/ q \in InFlight(s) /\ s = Edge /\ req'[q] = "cut"
                 \/ q \in InFlight(s) /\ s # Edge /\ req[q] = "proxied"
                      /\ req'[q] = "badGateway"
              /\ \/ work'[q] = work[q]
                 \/ q \in InFlight(s) /\ s # Edge /\ work'[q] = "gone"
BY DEF Ends, TypeOK

LEMMA ExitPreserves ==
  ASSUME IInv, NEW s \in Servers, Exit(s)
  PROVE  IInv'
<1>1. /\ phase[s] = "closing" /\ phase' = [phase EXCEPT ![s] = "exited"]
      /\ Pending(s) = {} /\ Ends(s)
      /\ UNCHANGED <<late, kind, via, visit, faults>>
  BY DEF Exit, Phase
<1>2. \A q \in Requests : via[q] # NoServer => via[q] \in Backends
  BY DEF IInv, TypeOK
<1>3. s # Edge => s \in Backends
  BY DEF Servers
<1>4. TypeOK
  BY DEF IInv
<1>5. s \notin late => \A q \in InFlight(s) : s = Edge /\ req[q] = "session"
  <2> SUFFICES ASSUME s \notin late, NEW q \in InFlight(s)
               PROVE  s = Edge /\ req[q] = "session"
    OBVIOUS
  <2>1. CASE s = Edge
    BY <1>1, <2>1 DEF IInv, EdgeQuiet, InFlight
  <2>2. CASE s # Edge
    BY <1>1, <1>3, <2>2, ServersDiffer DEF IInv, BackendQuiet, InFlight
  <2> QED
    BY <2>1, <2>2
<1>6. TypeOK'
  BY <1>1, <1>4, EndsMoves DEF TypeOK
<1>7. Handed'
  <2> SUFFICES ASSUME NEW q \in Requests
               PROVE  /\ via[q] = NoServer <=> work'[q] = "none"
                      /\ req'[q] \in {"new", "edge"} => via[q] = NoServer
                      /\ req'[q] = "session" => kind[q] = "ws"
                      /\ work'[q] = "gone" => phase'[via[q]] \in {"exited", "died"}
    BY <1>1 DEF Handed, Alive
  <2>1. work'[q] = "none" <=> work[q] = "none"
    BY <1>1, <1>4, EndsMoves DEF InFlight
  <2>2. req'[q] \in {"new", "edge", "session"} => req'[q] = req[q]
    BY <1>1, <1>4, EndsMoves
  <2>3. work'[q] = "gone" => phase'[via[q]] \in {"exited", "died"}
    <3>1. CASE q \in InFlight(s) /\ s # Edge
      BY <1>1, <1>4, <3>1 DEF InFlight, TypeOK
    <3>2. CASE work'[q] = work[q]
      <4>1. work'[q] = "gone" =>
              /\ via[q] \in Servers /\ phase[via[q]] \in {"exited", "died"}
        BY <1>2, <3>2 DEF IInv, Handed, Alive, Servers
      <4> QED
        BY <1>1, <1>4, <4>1 DEF TypeOK
    <3> QED
      BY <1>1, <1>4, <3>1, <3>2, EndsMoves
  <2> QED
    BY <2>1, <2>2, <2>3 DEF IInv, Handed
<1>8. Visited'
  <2> SUFFICES ASSUME NEW q \in Requests
               PROVE  /\ visit[q] # "none" => via[q] # NoServer
                      /\ kind[q] = "hw" /\ visit[q] = "none"
                            => work'[q] \in {"none", "accepted", "gone"}
                      /\ visit[q] = "pending" => Alive(via[q])'
                      /\ visit[q] = "lost" => phase'[via[q]] = "died"
                      /\ visit[q] = "refused" => via[q] \in late
    BY <1>1 DEF Visited
  <2>1. work'[q] \in {work[q], "gone"}
    BY <1>1, <1>4, EndsMoves
  <2>2. visit[q] = "pending" => via[q] # s
    BY <1>1 DEF Pending
  <2>3. via[q] # s => phase'[via[q]] = phase[via[q]]
    BY <1>1, <1>4 DEF TypeOK
  <2>4. visit[q] = "lost" => via[q] # s
    BY <1>1 DEF IInv, Visited
  <2> QED
    BY <1>1, <2>1, <2>2, <2>3, <2>4 DEF IInv, Visited, Alive
<1>9. BackendQuiet'
  <2> SUFFICES ASSUME NEW q \in Requests, via[q] # NoServer,
                      phase'[via[q]] \in {"closing", "exited"}, via[q] \notin late
               PROVE  work'[q] = "replied"
    BY <1>1 DEF BackendQuiet
  <2>1. phase[via[q]] \in {"closing", "exited"}
    BY <1>1, <1>4 DEF TypeOK
  <2>2. work[q] = "replied"
    BY <2>1 DEF IInv, BackendQuiet
  <2> QED
    BY <1>1, <1>4, <2>2, EndsMoves DEF InFlight
<1>10. EdgeQuiet'
  <2> SUFFICES ASSUME phase'[Edge] \in {"closing", "exited"}, Edge \notin late,
                      NEW q \in Requests
               PROVE  req'[q] \notin {"edge", "proxied"}
    BY <1>1 DEF EdgeQuiet
  <2>1. phase[Edge] \in {"closing", "exited"}
    BY <1>1, <1>4 DEF TypeOK
  <2>2. req[q] \notin {"edge", "proxied"}
    BY <2>1 DEF IInv, EdgeQuiet
  <2> QED
    BY <1>1, <1>4, <2>2, EndsMoves
<1>11. AcceptedIsAnswered'
  <2> SUFFICES ASSUME NEW q \in Requests
               PROVE  /\ req'[q] = "cut" /\ kind[q] # "ws"
                            => phase'[Edge] = "died" \/ Edge \in late
                      /\ req'[q] = "badGateway" /\ via[q] # NoServer
                            => phase'[via[q]] = "died" \/ via[q] \in late
    BY <1>1 DEF AcceptedIsAnswered
  <2>1. \A r \in Servers : phase[r] = "died" => phase'[r] = "died"
    BY <1>1, <1>4 DEF TypeOK
  <2>2. CASE req'[q] = req[q]
    BY <1>2, <2>1, <2>2 DEF IInv, AcceptedIsAnswered, Servers
  <2>3. CASE q \in InFlight(s) /\ s = Edge /\ req'[q] = "cut"
    BY <1>5, <2>3 DEF IInv, Handed
  <2>4. CASE q \in InFlight(s) /\ s # Edge /\ req'[q] = "badGateway"
    BY <1>5, <2>4 DEF InFlight
  <2> QED
    BY <1>1, <1>4, <2>2, <2>3, <2>4, EndsMoves
<1> QED
  BY <1>6, <1>7, <1>8, <1>9, <1>10, <1>11 DEF IInv

LEMMA DiePreserves ==
  ASSUME IInv, NEW s \in Servers, Die(s)
  PROVE  IInv'
<1>1. /\ Alive(s) /\ phase' = [phase EXCEPT ![s] = "died"] /\ Ends(s)
      /\ faults < MaxFaults /\ faults' = faults + 1
      /\ visit' = [q \in Requests |-> IF q \in Pending(s) THEN "lost" ELSE visit[q]]
      /\ UNCHANGED <<late, kind, via>>
  BY DEF Die, Phase
<1>2. \A q \in Requests : via[q] # NoServer => via[q] \in Backends
  BY DEF IInv, TypeOK
<1>3. TypeOK
  BY DEF IInv
<1>4. \A r \in Servers : phase'[r] = IF r = s THEN "died" ELSE phase[r]
  BY <1>1, <1>3 DEF TypeOK
<1>5. TypeOK'
  BY <1>1, <1>3, EndsMoves, MaxFaultsIsNat DEF TypeOK
<1>6. Handed'
  <2> SUFFICES ASSUME NEW q \in Requests
               PROVE  /\ via[q] = NoServer <=> work'[q] = "none"
                      /\ req'[q] \in {"new", "edge"} => via[q] = NoServer
                      /\ req'[q] = "session" => kind[q] = "ws"
                      /\ work'[q] = "gone" => phase'[via[q]] \in {"exited", "died"}
    BY <1>1 DEF Handed, Alive
  <2>1. work'[q] = "none" <=> work[q] = "none"
    BY <1>1, <1>3, EndsMoves DEF InFlight
  <2>2. req'[q] \in {"new", "edge", "session"} => req'[q] = req[q]
    BY <1>1, <1>3, EndsMoves
  <2>3. work'[q] = "gone" => phase'[via[q]] \in {"exited", "died"}
    <3>1. CASE q \in InFlight(s) /\ s # Edge
      BY <1>1, <1>3, <3>1 DEF InFlight, TypeOK
    <3>2. CASE work'[q] = work[q]
      <4>1. work'[q] = "gone" =>
              /\ via[q] \in Servers /\ phase[via[q]] \in {"exited", "died"}
        BY <1>2, <3>2 DEF IInv, Handed, Alive, Servers
      <4> QED
        BY <1>4, <4>1 DEF TypeOK
    <3> QED
      BY <1>1, <1>3, <3>1, <3>2, EndsMoves
  <2> QED
    BY <2>1, <2>2, <2>3 DEF IInv, Handed
<1>7. Visited'
  <2> SUFFICES ASSUME NEW q \in Requests
               PROVE  /\ visit'[q] # "none" => via[q] # NoServer
                      /\ kind[q] = "hw" /\ visit'[q] = "none"
                            => work'[q] \in {"none", "accepted", "gone"}
                      /\ visit'[q] = "pending" => Alive(via[q])'
                      /\ visit'[q] = "lost" => phase'[via[q]] = "died"
                      /\ visit'[q] = "refused" => via[q] \in late
    BY <1>1 DEF Visited
  <2>1. work'[q] \in {work[q], "gone"}
    BY <1>1, <1>3, EndsMoves
  <2>2. via[q] # NoServer =>
            phase'[via[q]] = IF via[q] = s THEN "died" ELSE phase[via[q]]
    BY <1>2, <1>4 DEF Servers
  <2>3. CASE q \in Pending(s)
    BY <1>1, <2>2, <2>3 DEF Pending, IInv, Visited
  <2>4. CASE q \notin Pending(s)
    <3>1. visit'[q] = visit[q]
      BY <1>1, <2>4
    <3>2. visit[q] = "pending" => via[q] # s
      BY <2>4 DEF Pending
    <3> QED
      BY <1>1, <2>1, <2>2, <3>1, <3>2 DEF IInv, Visited, Alive
  <2> QED
    BY <2>3, <2>4
<1>8. BackendQuiet'
  <2> SUFFICES ASSUME NEW q \in Requests, via[q] # NoServer,
                      phase'[via[q]] \in {"closing", "exited"}, via[q] \notin late
               PROVE  work'[q] = "replied"
    BY <1>1 DEF BackendQuiet
  <2>1. phase[via[q]] \in {"closing", "exited"} /\ via[q] # s
    BY <1>2, <1>4 DEF Servers
  <2>2. work[q] = "replied"
    BY <2>1 DEF IInv, BackendQuiet
  <2> QED
    BY <1>1, <1>3, <2>2, EndsMoves DEF InFlight
<1>9. EdgeQuiet'
  <2> SUFFICES ASSUME phase'[Edge] \in {"closing", "exited"}, Edge \notin late,
                      NEW q \in Requests
               PROVE  req'[q] \notin {"edge", "proxied"}
    BY <1>1 DEF EdgeQuiet
  <2>1. phase[Edge] \in {"closing", "exited"}
    BY <1>4 DEF Servers
  <2>2. req[q] \notin {"edge", "proxied"}
    BY <2>1 DEF IInv, EdgeQuiet
  <2> QED
    BY <1>1, <1>3, <2>2, EndsMoves
<1>10. AcceptedIsAnswered'
  <2> SUFFICES ASSUME NEW q \in Requests
               PROVE  /\ req'[q] = "cut" /\ kind[q] # "ws"
                            => phase'[Edge] = "died" \/ Edge \in late
                      /\ req'[q] = "badGateway" /\ via[q] # NoServer
                            => phase'[via[q]] = "died" \/ via[q] \in late
    BY <1>1 DEF AcceptedIsAnswered
  <2>1. CASE req'[q] = req[q]
    BY <1>2, <1>4, <2>1 DEF IInv, AcceptedIsAnswered, Servers
  <2>2. CASE s = Edge /\ req'[q] = "cut"
    BY <1>4, <2>2
  <2>3. CASE q \in InFlight(s) /\ s # Edge /\ req'[q] = "badGateway"
    BY <1>4, <2>3 DEF InFlight
  <2> QED
    BY <1>1, <1>3, <2>1, <2>2, <2>3, EndsMoves
<1> QED
  BY <1>5, <1>6, <1>7, <1>8, <1>9, <1>10 DEF IInv

LEMMA StepPreserves == IInv /\ [Next]_vars => IInv'
<1> SUFFICES ASSUME IInv, [Next]_vars PROVE IInv'
  OBVIOUS
<1>1. CASE UNCHANGED vars
  BY <1>1 DEF vars, requests, IInv, TypeOK, Handed, Visited, BackendQuiet,
     EdgeQuiet, AcceptedIsAnswered, Alive
<1>2. CASE Next
  BY <1>2, ArrivePreserves, ClientLeavesPreserves, RoutePreserves, ProxyToPreserves,
     RelayPreserves, PublishVisitPreserves, ReplyPreserves, WriteBatchPreserves,
     SigtermPreserves, ShutdownPreserves, ExitPreserves, DiePreserves DEF Next
<1> QED
  BY <1>1, <1>2

(* The inductive invariant: Shutdown leaves nothing unanswered behind it   *)
(* where it returned in time (helloworld/main.go:149, edge/main.go:120).   *)
THEOREM Invariant == Spec => []IInv
BY InitEstablishes, StepPreserves, PTL DEF Spec

(* Every variable keeps its type.                                          *)
THEOREM TypeCorrect == Spec => []TypeOK
<1>1. IInv => TypeOK
  BY DEF IInv
<1> QED
  BY <1>1, Invariant, PTL

(* visitW.Close, deferred before the server starts, runs when nothing      *)
(* publishes any more: no visit of a replica that returned in time is      *)
(* lost.                                                                   *)
THEOREM ExitFlushes == Spec => []CleanExitFlushes
<1>1. IInv => CleanExitFlushes
  <2> SUFFICES ASSUME IInv, NEW q \in Requests, kind[q] = "hw", via[q] # NoServer,
                      phase[via[q]] = "exited", via[q] \notin late
               PROVE  visit[q] \in {"written", "failed", "noBroker", "canceled"}
    BY DEF CleanExitFlushes
  <2>1. work[q] = "replied"
    BY DEF IInv, BackendQuiet
  <2>2. visit[q] \notin {"none", "pending", "lost", "refused"}
    BY <2>1 DEF IInv, Visited, Alive
  <2> QED
    BY <2>2 DEF IInv, TypeOK
<1> QED
  BY <1>1, Invariant, PTL

(* No request that edge or helloworld accepted is cut or turned into a 502 *)
(* by a server that returned in time.                                      *)
THEOREM AcceptedAnswered == Spec => []AcceptedIsAnswered
<1>1. IInv => AcceptedIsAnswered
  BY DEF IInv
<1> QED
  BY <1>1, Invariant, PTL
=============================================================================
