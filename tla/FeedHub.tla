------------------------------ MODULE FeedHub ------------------------------
(***************************************************************************)
(* The hub of one wsfeed process (apps/wsfeed/main.go): the latest         *)
(* envelope per subject, the /ws sessions, each with its own outbound      *)
(* queue, and the ordered shutdown on SIGTERM.                             *)
(*                                                                         *)
(* Processes: the writer that holds hub.mu (whichever of the two consume   *)
(* goroutines is inside publish), one serveWS goroutine per session, the   *)
(* main goroutine and drain's waiter.  A step is what one goroutine does   *)
(* between two points where another can run: publish holds hub.mu through  *)
(* its whole fan-out, but enqueue leaves client.mu before it sends on      *)
(* notify, so a session may take its queue between the two.                *)
(*                                                                         *)
(* Data: an envelope is its subject and a version, the number of envelopes *)
(* published for the subject so far; version 0 stands for "no envelope".   *)
(***************************************************************************)
EXTENDS Naturals, Sequences, FiniteSets, Functions

CONSTANTS
    Subjects,    \* subjects of both feeds
    Clients,     \* browsers; each has at most one session here at a time
    MaxClients,  \* hub.maxClients, WS_MAX_CLIENTS
    MaxVersion,  \* bound of the model: envelopes published per subject
    NoSubject,   \* hub.mu is not held by publish
    NoClient     \* publish is not between a queue's unlock and its notify

ASSUME MaxClientsPositive == MaxClients \in Nat \ {0}
ASSUME MaxVersionNat      == MaxVersion \in Nat
ASSUME ClientsFinite      == IsFiniteSet(Clients)
ASSUME NoSubjectNew       == NoSubject \notin Subjects
ASSUME NoClientNew        == NoClient \notin Clients

VARIABLES
    state,       \* hub.state: version of the latest envelope per subject
    clients,     \* hub.clients
    sessions,    \* hub.sessions, the WaitGroup's counter
    publishing,  \* subject publish is fanning out, while it holds hub.mu
    todo,        \* clients publish has not queued the envelope for yet
    adding,      \* client whose queue has the envelope, its notify not yet sent
    pending,     \* client.pending, per client: version queued per subject
    order,       \* client.order: the subjects of pending, first arrival first
    notify,      \* client.notify: whether its one-slot buffer is full
    pc,          \* where the client's serveWS goroutine is
    seed,        \* the seed envelopes not yet written
    out,         \* the versions of take's result not yet written...
    outOrder,    \* ...and the order it lists them in
    recv,        \* last version written to the client, per subject
    gone,        \* CloseRead's context is cancelled: the client disconnected
    main,        \* where the main goroutine is
    quiet,       \* srv.Shutdown returned nil: no request is left in the server
    waited,      \* drain's goroutine came back from sessions.Wait
    drained      \* what drain returned

hubVars     == <<state, clients, sessions>>
publishVars == <<publishing, todo, adding>>
queueVars   == <<pending, order, notify>>
sessionVars == <<pc, seed, out, outOrder, recv, gone>>
mainVars    == <<main, quiet, waited, drained>>
vars == <<hubVars, publishVars, queueVars, sessionVars, mainVars>>

Version  == 0..MaxVersion
Versions == [Subjects -> Version]
None     == [s \in Subjects |-> 0]

\* Points of serveWS at which another goroutine can run.
Streaming  == {"seeding", "loop", "woken", "writing"}
Accepted   == Streaming \cup {"snapshot"}
Registered == Accepted \cup {"accepting", "closing", "leaving"}
Points     == Registered \cup {"out", "refused", "removed"}

(* Types: envelopes are versions of subjects, a session is at a point of   *)
(* serveWS, and the WaitGroup's counter is never negative.                 *)
TypeOK ==
    /\ state \in Versions
    /\ clients \subseteq Clients
    /\ sessions \in Nat
    /\ publishing \in Subjects \cup {NoSubject}
    /\ todo \subseteq Clients
    /\ adding \in Clients \cup {NoClient}
    /\ pending \in [Clients -> Versions]
    /\ order \in [Clients -> Seq(Subjects)]
    /\ notify \in [Clients -> BOOLEAN]
    /\ pc \in [Clients -> Points]
    /\ seed \in [Clients -> Versions]
    /\ out \in [Clients -> Versions]
    /\ outOrder \in [Clients -> Seq(Subjects)]
    /\ recv \in [Clients -> Versions]
    /\ gone \in [Clients -> BOOLEAN]
    /\ main \in {"serving", "closing", "draining", "exited"}
    /\ quiet \in BOOLEAN /\ waited \in BOOLEAN /\ drained \in BOOLEAN

Init ==
    /\ state = None
    /\ clients = {}
    /\ sessions = 0
    /\ publishing = NoSubject
    /\ todo = {}
    /\ adding = NoClient
    /\ pending = [c \in Clients |-> None]
    /\ order = [c \in Clients |-> <<>>]
    /\ notify = [c \in Clients |-> FALSE]
    /\ pc = [c \in Clients |-> "out"]
    /\ seed = [c \in Clients |-> None]
    /\ out = [c \in Clients |-> None]
    /\ outOrder = [c \in Clients |-> <<>>]
    /\ recv = [c \in Clients |-> None]
    /\ gone = [c \in Clients |-> FALSE]
    /\ main = "serving"
    /\ quiet = FALSE
    /\ waited = FALSE
    /\ drained = FALSE

Alive      == main # "exited"
HubMuFree  == publishing = NoSubject
Goto(c, p) == pc' = [pc EXCEPT ![c] = p]

-----------------------------------------------------------------------------
(* publish and enqueue, run by a consume goroutine.                        *)

(* publish takes hub.mu, stores the envelope and starts ranging over the   *)
(* clients.  MaxVersion bounds the model.                                  *)
PublishBegin(s) ==
    /\ Alive
    /\ HubMuFree
    /\ state[s] < MaxVersion
    /\ state' = [state EXCEPT ![s] = @ + 1]
    /\ publishing' = s
    /\ todo' = clients
    /\ UNCHANGED <<clients, sessions, adding, queueVars, sessionVars, mainVars>>

\* Mutant: the order lists a subject once per envelope.
QueuedAlways(c, s) ==
    /\ order' = [order EXCEPT ![c] = Append(@, s)]
    /\ pending' = [pending EXCEPT ![c][s] = state[s]]

\* Mutant: the envelope that is already queued is kept.
QueuedFirstWins(c, s) ==
    IF pending[c][s] = 0
    THEN /\ order' = [order EXCEPT ![c] = Append(@, s)]
         /\ pending' = [pending EXCEPT ![c][s] = state[s]]
    ELSE UNCHANGED <<order, pending>>

(* What enqueue does under client.mu.                                      *)
Queued(c, s) ==
    /\ order' = [order EXCEPT ![c] = IF pending[c][s] = 0 THEN Append(@, s) ELSE @]
    /\ pending' = [pending EXCEPT ![c][s] = state[s]]

EnqueueAdd(c) ==
    /\ Alive
    /\ publishing # NoSubject
    /\ adding = NoClient
    /\ c \in todo
    /\ todo' = todo \ {c}
    /\ adding' = c
    /\ Queued(c, publishing)
    /\ UNCHANGED <<hubVars, publishing, notify, sessionVars, mainVars>>

\* Mutant: an unbuffered notify channel, received only by a waiting session.
SignalledUnbuffered(c) ==
    notify' = [notify EXCEPT ![c] = pc[c] = "loop"]

(* The non-blocking send on notify: a full buffer stays full.              *)
Signalled(c) ==
    notify' = [notify EXCEPT ![c] = TRUE]

EnqueueNotify(c) ==
    /\ Alive
    /\ adding = c
    /\ Signalled(c)
    /\ adding' = NoClient
    /\ UNCHANGED <<hubVars, publishing, todo, pending, order, sessionVars, mainVars>>

(* The fan-out is over: publish releases hub.mu.                           *)
PublishEnd ==
    /\ Alive
    /\ publishing # NoSubject
    /\ todo = {}
    /\ adding = NoClient
    /\ publishing' = NoSubject
    /\ UNCHANGED <<hubVars, todo, adding, queueVars, sessionVars, mainVars>>

-----------------------------------------------------------------------------
(* serveWS: admission, websocket.Accept, seed, live loop, unregister.      *)

\* Mutant: the cap admits one client too many.
AtCapOffByOne == Cardinality(clients) > MaxClients

AtCap == Cardinality(clients) >= MaxClients

(* A request can still reach its handler after SIGTERM, while Shutdown     *)
(* waits for it, and even later when Shutdown gave up on it.               *)
Accepting ==
    \/ main \in {"serving", "closing"}
    \/ main = "draining" /\ ~quiet

\* Mutant: the session is not counted in the WaitGroup.
RegisterUncounted(c) ==
    /\ Accepting
    /\ pc[c] \in {"out", "refused"}
    /\ HubMuFree
    /\ ~AtCap
    /\ clients' = clients \cup {c}
    /\ Goto(c, "accepting")
    /\ UNCHANGED <<state, sessions, publishVars, queueVars, seed, out, outOrder,
                   recv, gone, mainVars>>

(* register: one step under hub.mu.  The client's queue is a new one.      *)
Register(c) ==
    /\ Accepting
    /\ pc[c] \in {"out", "refused"}
    /\ HubMuFree
    /\ ~AtCap
    /\ clients' = clients \cup {c}
    /\ sessions' = sessions + 1
    /\ Goto(c, "accepting")
    /\ UNCHANGED <<state, publishVars, queueVars, seed, out, outOrder, recv,
                   gone, mainVars>>

(* register returned nil: the request is answered 503.                     *)
Refuse(c) ==
    /\ Accepting
    /\ pc[c] = "out"
    /\ HubMuFree
    /\ AtCap
    /\ Goto(c, "refused")
    /\ UNCHANGED <<hubVars, publishVars, queueVars, seed, out, outOrder, recv,
                   gone, mainVars>>

(* websocket.Accept failed (a foreign Origin, a request that is no upgrade *)
(* or an I/O error), or it hijacked the connection.                        *)
Accept(c) ==
    /\ Alive
    /\ pc[c] = "accepting"
    /\ Goto(c, "snapshot") \/ Goto(c, "leaving")
    /\ UNCHANGED <<hubVars, publishVars, queueVars, seed, out, outOrder, recv,
                   gone, mainVars>>

(* The client closes the connection or it breaks, which the reader started *)
(* by CloseRead turns into a cancelled context.                            *)
Disconnect(c) ==
    /\ Alive
    /\ pc[c] \in Accepted
    /\ ~gone[c]
    /\ gone' = [gone EXCEPT ![c] = TRUE]
    /\ UNCHANGED <<hubVars, publishVars, queueVars, pc, seed, out, outOrder,
                   recv, mainVars>>

(* snapshot copies the state under the read lock of hub.mu.                *)
Snapshot(c) ==
    /\ Alive
    /\ pc[c] = "snapshot"
    /\ HubMuFree
    /\ seed' = [seed EXCEPT ![c] = state]
    /\ Goto(c, IF state = None THEN "loop" ELSE "seeding")
    /\ UNCHANGED <<hubVars, publishVars, queueVars, out, outOrder, recv, gone,
                   mainVars>>

\* Mutant: an envelope of the seed is kept and written again beside the loop.
WriteSeedAgain(c, s) ==
    /\ Alive
    /\ pc[c] \in {"seeding", "loop"}
    /\ seed[c][s] # 0
    /\ ~gone[c]
    /\ recv' = [recv EXCEPT ![c][s] = seed[c][s]]
    /\ Goto(c, "loop")
    /\ UNCHANGED <<hubVars, publishVars, queueVars, seed, out, outOrder, gone, mainVars>>

(* One seed envelope is written.  Go ranges over a map, so the next one    *)
(* may be of any subject; after the last one the loop begins.              *)
WriteSeed(c, s) ==
    /\ Alive
    /\ pc[c] = "seeding"
    /\ seed[c][s] # 0
    /\ ~gone[c]
    /\ recv' = [recv EXCEPT ![c][s] = seed[c][s]]
    /\ seed' = [seed EXCEPT ![c][s] = 0]
    /\ Goto(c, IF seed'[c] = None THEN "loop" ELSE "seeding")
    /\ UNCHANGED <<hubVars, publishVars, queueVars, out, outOrder, gone, mainVars>>

(* A write fails: the client is gone, the connection broke or the client   *)
(* was too slow for the ten seconds writeJSON allows.  serveWS returns.    *)
WriteFails(c) ==
    /\ Alive
    /\ pc[c] \in {"seeding", "writing"}
    /\ Goto(c, "leaving")
    /\ UNCHANGED <<hubVars, publishVars, queueVars, seed, out, outOrder, recv,
                   gone, mainVars>>

(* The loop's select, whose ready cases are taken in any order: the client *)
(* is gone; ...                                                            *)
LoopGone(c) ==
    /\ Alive
    /\ pc[c] = "loop"
    /\ gone[c]
    /\ Goto(c, "leaving")
    /\ UNCHANGED <<hubVars, publishVars, queueVars, seed, out, outOrder, recv,
                   gone, mainVars>>

\* Mutant: shutdownCtx was left at context.Background() and is never done.
LoopShutdownNever(c) == FALSE /\ UNCHANGED vars

(* ... SIGTERM came, so the session starts its close handshake; ...        *)
LoopShutdown(c) ==
    /\ Alive
    /\ pc[c] = "loop"
    /\ main # "serving"
    /\ Goto(c, "closing")
    /\ UNCHANGED <<hubVars, publishVars, queueVars, seed, out, outOrder, recv,
                   gone, mainVars>>

(* ... or the token of notify is received.                                 *)
LoopNotify(c) ==
    /\ Alive
    /\ pc[c] = "loop"
    /\ notify[c]
    /\ notify' = [notify EXCEPT ![c] = FALSE]
    /\ Goto(c, "woken")
    /\ UNCHANGED <<hubVars, publishVars, pending, order, seed, out, outOrder,
                   recv, gone, mainVars>>

(* take, under client.mu.  The queue may be empty: the token of an earlier *)
(* enqueue can outlive the envelope, taken before the token was sent.      *)
Take(c) ==
    /\ Alive
    /\ pc[c] = "woken"
    /\ out' = [out EXCEPT ![c] = pending[c]]
    /\ outOrder' = [outOrder EXCEPT ![c] = order[c]]
    /\ pending' = [pending EXCEPT ![c] = None]
    /\ order' = [order EXCEPT ![c] = <<>>]
    /\ Goto(c, IF order[c] = <<>> THEN "loop" ELSE "writing")
    /\ UNCHANGED <<hubVars, publishVars, notify, seed, recv, gone, mainVars>>

(* The next envelope of take's result is written.                          *)
WriteNext(c) ==
    /\ Alive
    /\ pc[c] = "writing"
    /\ ~gone[c]
    /\ LET s == Head(outOrder[c])
       IN  /\ recv' = [recv EXCEPT ![c][s] = out[c][s]]
           /\ out' = [out EXCEPT ![c][s] = 0]
    /\ outOrder' = [outOrder EXCEPT ![c] = Tail(@)]
    /\ Goto(c, IF Len(outOrder[c]) = 1 THEN "loop" ELSE "writing")
    /\ UNCHANGED <<hubVars, publishVars, queueVars, seed, gone, mainVars>>

(* The close handshake is done, or the peer did not answer in time.        *)
CloseDone(c) ==
    /\ Alive
    /\ pc[c] = "closing"
    /\ Goto(c, "leaving")
    /\ UNCHANGED <<hubVars, publishVars, queueVars, seed, out, outOrder, recv,
                   gone, mainVars>>

(* The deferred unregister, its first half under hub.mu.                   *)
Unregister(c) ==
    /\ Alive
    /\ pc[c] = "leaving"
    /\ HubMuFree
    /\ clients' = clients \ {c}
    /\ Goto(c, "removed")
    /\ UNCHANGED <<state, sessions, publishVars, queueVars, seed, out, outOrder,
                   recv, gone, mainVars>>

\* Mutant: a failed Accept calls Done and the deferred unregister does again.
DoneTwice == sessions' = sessions - 2

Done == sessions' = sessions - 1

(* sessions.Done, after hub.mu is released; the session's queue and locals *)
(* are garbage from here on.                                               *)
SessionDone(c) ==
    /\ Alive
    /\ pc[c] = "removed"
    /\ Done
    /\ Goto(c, "out")
    /\ pending' = [pending EXCEPT ![c] = None]
    /\ order' = [order EXCEPT ![c] = <<>>]
    /\ notify' = [notify EXCEPT ![c] = FALSE]
    /\ seed' = [seed EXCEPT ![c] = None]
    /\ out' = [out EXCEPT ![c] = None]
    /\ outOrder' = [outOrder EXCEPT ![c] = <<>>]
    /\ recv' = [recv EXCEPT ![c] = None]
    /\ gone' = [gone EXCEPT ![c] = FALSE]
    /\ UNCHANGED <<state, clients, publishVars, mainVars>>

-----------------------------------------------------------------------------
(* main, after the HTTP server is up.                                      *)

(* SIGTERM cancels the root context, which is shutdownCtx too, and main    *)
(* calls srv.Shutdown.                                                     *)
Sigterm ==
    /\ main = "serving"
    /\ main' = "closing"
    /\ UNCHANGED <<hubVars, publishVars, queueVars, sessionVars, quiet, waited, drained>>

(* ListenAndServe failed: log.Fatal ends the process at once.              *)
ListenFails ==
    /\ main = "serving"
    /\ main' = "exited"
    /\ UNCHANGED <<hubVars, publishVars, queueVars, sessionVars, quiet, waited, drained>>

(* Shutdown waits for every connection that is not hijacked: requests in   *)
(* front of Accept; or it gives up after five seconds.                     *)
ShutdownReturns ==
    /\ main = "closing"
    /\ \A c \in Clients : pc[c] # "accepting"
    /\ main' = "draining"
    /\ quiet' = TRUE
    /\ UNCHANGED <<hubVars, publishVars, queueVars, sessionVars, waited, drained>>

ShutdownTimesOut ==
    /\ main = "closing"
    /\ main' = "draining"
    /\ UNCHANGED <<hubVars, publishVars, queueVars, sessionVars, quiet, waited, drained>>

(* drain's goroutine comes back from sessions.Wait and closes done.        *)
WaitReturns ==
    /\ main = "draining"
    /\ sessions = 0
    /\ ~waited
    /\ waited' = TRUE
    /\ UNCHANGED <<hubVars, publishVars, queueVars, sessionVars, main, quiet, drained>>

(* drain's select: done is closed, or five seconds have passed.  main then *)
(* returns, and every goroutine that is left ends with the process.        *)
DrainReturns ==
    /\ main = "draining"
    /\ waited
    /\ main' = "exited"
    /\ drained' = TRUE
    /\ UNCHANGED <<hubVars, publishVars, queueVars, sessionVars, quiet, waited>>

DrainTimesOut ==
    /\ main = "draining"
    /\ main' = "exited"
    /\ UNCHANGED <<hubVars, publishVars, queueVars, sessionVars, quiet, waited, drained>>

(* The process has ended; nothing happens in it any more.                  *)
Terminated ==
    /\ main = "exited"
    /\ UNCHANGED vars

-----------------------------------------------------------------------------
Publisher ==
    \/ \E c \in Clients : EnqueueAdd(c) \/ EnqueueNotify(c)
    \/ PublishEnd

Write(c) == WriteNext(c) \/ WriteFails(c) \/ \E s \in Subjects : WriteSeed(c, s)

Loop(c) == LoopGone(c) \/ LoopShutdown(c) \/ LoopNotify(c)

Leave(c) == CloseDone(c) \/ Unregister(c) \/ SessionDone(c)

Session(c) ==
    \/ Accept(c) \/ Snapshot(c)
    \/ Write(c)
    \/ Loop(c) \/ Take(c)
    \/ Leave(c)

Shutdown ==
    \/ ShutdownReturns \/ ShutdownTimesOut
    \/ WaitReturns \/ DrainReturns \/ DrainTimesOut

Next ==
    \/ \E s \in Subjects : PublishBegin(s)
    \/ Publisher
    \/ \E c \in Clients : Register(c) \/ Refuse(c) \/ Disconnect(c) \/ Session(c)
    \/ Sigterm \/ ListenFails \/ Shutdown
    \/ Terminated

Spec == Init /\ [][Next]_vars

(* A runnable goroutine eventually runs and a write ends within its ten    *)
(* seconds, with or without success.  Nothing is assumed of the browser,   *)
(* of the feeds, of SIGTERM or of either five-second timeout.              *)
Fairness ==
    /\ WF_vars(Publisher)
    /\ \A c \in Clients : WF_vars(Session(c))
    /\ WF_vars(ShutdownReturns)
    /\ WF_vars(WaitReturns)
    /\ WF_vars(DrainReturns)

FairSpec == Spec /\ Fairness

-----------------------------------------------------------------------------
(* Safety.                                                                 *)

(* q lists the subjects that have an envelope in v, each of them once.     *)
Lists(q, v) == Range(q) = {s \in Subjects : v[s] # 0} /\ IsInjective(q)

(* A client's order lists its pending subjects, and each once, so take     *)
(* skips no envelope and sends no zero one; the same holds for what take   *)
(* returned, as it is written.  (enqueue and take set the two fields of    *)
(* the queue separately.)                                                  *)
QueueConsistent ==
    \A c \in Clients : Lists(order[c], pending[c]) /\ Lists(outOrder[c], out[c])

(* A session that waits with envelopes in its queue will be woken: the     *)
(* token is in notify, or enqueue is about to send it.                     *)
NoLostWakeup ==
    \A c \in Clients :
        pc[c] # "woken" /\ order[c] # <<>> => notify[c] \/ adding = c

(* Where the latest envelope of a subject can be, seen from a session that *)
(* has its snapshot.                                                       *)
OnItsWay(c, s) ==
    \/ publishing = s /\ c \in todo
    \/ state[s] \in {pending[c][s], out[c][s], seed[c][s], recv[c][s]}

(* "A slow client never loses an update": whatever publish, take, snapshot *)
(* and register interleave to, a session that streams has been sent the    *)
(* latest envelope of every subject, or it is still going to be.           *)
NoLostUpdate ==
    \A c \in Clients : pc[c] \in Streaming => \A s \in Subjects : OnItsWay(c, s)

\* The sessions whose Done is due.
Counted == {c \in Clients : pc[c] \in Registered \cup {"removed"}}

(* The hub holds at most maxClients queues, hub.clients is exactly the     *)
(* sessions between register and unregister, and the WaitGroup counts them *)
(* and those whose Done is still due.                                      *)
Admission ==
    /\ clients = {c \in Clients : pc[c] \in Registered}
    /\ Cardinality(clients) <= MaxClients
    /\ sessions = Cardinality(Counted)

(* When Shutdown saw every request off and drain returned true, main's     *)
(* deferred closes run with no /ws session left.                           *)
DrainedMeansIdle ==
    main = "exited" /\ quiet /\ drained =>
        \A c \in Clients : pc[c] \in {"out", "refused"}

(* Within a session the browser never receives an older value of a subject *)
(* after a newer one, although the seed is read from the state and the     *)
(* live values come through the queue.                                     *)
NeverBackwards ==
    [][\A c \in Clients : pc'[c] # "out" =>
          \A s \in Subjects : recv'[c][s] >= recv[c][s]]_vars

-----------------------------------------------------------------------------
(* Liveness, under FairSpec.                                               *)

(* Once Shutdown has seen every request off, each session ends by itself,  *)
(* so drain returns and the process exits without its timeout having to    *)
(* fire: the hijacked connections, which Shutdown ignores, watch           *)
(* shutdownCtx.                                                            *)
GracefulExit == main = "draining" /\ quiet ~> main = "exited"

-----------------------------------------------------------------------------
(* What the hub promises, abstractly.  An exit closes every session.       *)
Feed == INSTANCE LatestFeed WITH
    latest <- state,
    open   <- IF Alive THEN {c \in Clients : pc[c] \notin {"out", "refused"}} ELSE {},
    seen   <- IF Alive THEN recv ELSE [c \in Clients |-> None]

(* Every step of the hub is a step of LatestFeed or changes nothing in it. *)
ImplementsFeed == Feed!Spec

(* ... and under FairSpec it delivers what LatestFeed says it delivers.    *)
ImplementsFairFeed == Feed!FairSpec
=============================================================================
