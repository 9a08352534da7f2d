----------------------------- MODULE LatestFeed -----------------------------
(***************************************************************************)
(* What wsfeed promises a browser, without queues, locks or wake-ups:      *)
(* while its session is open it sees a latest value per subject, may miss  *)
(* intermediate ones, never sees an older one again, and catches up.       *)
(* FeedHub implements this.                                                *)
(***************************************************************************)
EXTENDS Naturals

CONSTANTS Subjects, Clients, MaxVersion

VARIABLES
    latest,  \* version of the newest value per subject, 0 for none
    open,    \* clients with a session
    seen     \* the version each client has been sent last, per subject

vars == <<latest, open, seen>>

Nothing == [s \in Subjects |-> 0]

Init ==
    /\ latest = Nothing
    /\ open = {}
    /\ seen = [c \in Clients |-> Nothing]

Update(s) ==
    /\ latest[s] < MaxVersion
    /\ latest' = [latest EXCEPT ![s] = @ + 1]
    /\ UNCHANGED <<open, seen>>

Open(c) ==
    /\ c \notin open
    /\ open' = open \cup {c}
    /\ UNCHANGED <<latest, seen>>

(* A client is sent a value it has not seen, not necessarily the next.     *)
Deliver(c, s) ==
    /\ c \in open
    /\ \E v \in seen[c][s]+1..latest[s] : seen' = [seen EXCEPT ![c][s] = v]
    /\ UNCHANGED <<latest, open>>

(* Sessions end: one, or all of them with the process.                     *)
Close(C) ==
    /\ open' = open \ C
    /\ seen' = [c \in Clients |-> IF c \in C THEN Nothing ELSE seen[c]]
    /\ UNCHANGED latest

Next ==
    \/ \E s \in Subjects : Update(s)
    \/ \E c \in Clients : Open(c) \/ \E s \in Subjects : Deliver(c, s)
    \/ \E C \in SUBSET open : Close(C)

Spec == Init /\ [][Next]_vars

FairSpec == Spec /\ \A c \in Clients, s \in Subjects : WF_vars(Deliver(c, s))
=============================================================================
