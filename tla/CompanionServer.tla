-------------------------- MODULE CompanionServer --------------------------
(***************************************************************************)
(* The HTTP server of each wrapper's companion (companion.rs, http.rs): a   *)
(* thread accepts connections and gives each a thread of its own, of which  *)
(* there are at most Limit; a request is read until it is whole, it takes    *)
(* too long, or the server is told to stop; a server is joined once the      *)
(* accepting thread has ended and no request is active.                     *)
(*                                                                         *)
(* A connection is a record of its client, the server it was made to, the    *)
(* token and request it carries, whether the client sends all of it, whether  *)
(* he still waits, and how far the server has come with it.  What a request   *)
(* does is left to the module that uses this one.                           *)
(***************************************************************************)
EXTENDS Integers, FiniteSets

CONSTANTS
    Sessions,   \* the wrappers, named by their sessions
    Clients,    \* who connects to them
    Limit       \* MAX_ACTIVE_REQUESTS

ASSUME ServerAssumption == Limit \in Nat \ {0} /\ IsFiniteSet(Sessions)

VARIABLES
    listening,  \* the server's socket is open
    acceptor,   \* the accepting thread
    stop,       \* the server is told to stop
    count,      \* ActiveRequests: how many there are
    conns,      \* the connections
    reply       \* what each client was answered and has not read yet

serverVars == <<listening, acceptor, stop, count, conns, reply>>

NoReply == [kind |-> "none"]
Answer(kind) == [kind |-> kind]

Queued  == {k \in conns : k.phase = "queued"}
Reading == {k \in conns : k.phase = "reading"}
Running == {k \in conns : k.phase = "running"}
At(s)   == {k \in conns : k.server = s}

InitServer ==
    /\ listening = [s \in Sessions |-> FALSE]
    /\ acceptor = [s \in Sessions |-> "none"]
    /\ stop = [s \in Sessions |-> FALSE]
    /\ count = [s \in Sessions |-> 0]
    /\ conns = {}
    /\ reply = [c \in Clients |-> NoReply]

Listen(s) ==
    /\ listening' = [listening EXCEPT ![s] = TRUE]
    /\ acceptor' = [acceptor EXCEPT ![s] = "looping"]

Connect(c, s, token, request, whole) ==
    /\ conns' = conns \cup
         {[client |-> c, server |-> s, token |-> token, request |-> request,
           whole |-> whole, awaited |-> whole, phase |-> "queued"]}
    /\ UNCHANGED reply

\* Some connections end, and those who wait for them are told so.
Replied(ended, answer) ==
    [c \in Clients |->
        IF \E k \in ended : k.client = c /\ k.awaited THEN answer ELSE reply[c]]

Forget(c) == reply' = [reply EXCEPT ![c] = NoReply]

(* ------------------------- the accepting thread ------------------------- *)

\* When the thread ends, the socket is closed and what was not accepted is reset.
AcceptorEnds(s) ==
    LET lost == At(s) \cap Queued
    IN  /\ acceptor' = [acceptor EXCEPT ![s] = "ended"]
        /\ listening' = [listening EXCEPT ![s] = FALSE]
        /\ conns' = conns \ lost
        /\ reply' = Replied(lost, Answer("reset"))
        /\ UNCHANGED <<stop, count>>

\* The flag is read before each wait for a connection: a thread that was waiting
\* when it was set accepts one more, if one comes.
AcceptorStops(s) ==
    /\ stop[s]
    /\ \/ acceptor[s] = "looping"
       \/ acceptor[s] = "last" /\ At(s) \cap Queued = {}
    /\ AcceptorEnds(s)

AcceptorFails(s) ==
    /\ acceptor[s] \in {"looping", "last"}
    /\ AcceptorEnds(s)

CountsFaulty == FALSE
\* The request is counted by the accepting thread, before its own is started.
Counts == TRUE

Accept(k) ==
    /\ k \in Queued
    /\ \/ acceptor[k.server] = "last"
       \/ acceptor[k.server] = "looping" /\ ~stop[k.server]
    /\ acceptor' = [acceptor EXCEPT ![k.server] = "looping"]
    /\ IF count[k.server] < Limit
       THEN /\ count' = [count EXCEPT ![k.server] = IF Counts THEN @ + 1 ELSE @]
            /\ conns' = (conns \ {k}) \cup {[k EXCEPT !.phase = "reading"]}
            /\ UNCHANGED reply
       ELSE /\ conns' = conns \ {k}  \* "companion is busy"
            /\ reply' = Replied({k}, Answer("busy"))
            /\ UNCHANGED count
    /\ UNCHANGED <<listening, stop>>

(* --------------------------- request threads ---------------------------- *)

ReadWhole(k) ==
    /\ k \in Reading /\ k.whole /\ ~stop[k.server]
    /\ conns' = (conns \ {k}) \cup {[k EXCEPT !.phase = "running"]}
    /\ UNCHANGED <<listening, acceptor, stop, count, reply>>

\* ActiveRequest is dropped, however the thread ends.
EndRequest(k, answer) ==
    /\ conns' = conns \ {k}
    /\ count' = [count EXCEPT ![k.server] = IF @ > 0 THEN @ - 1 ELSE 0]
    /\ reply' = Replied({k}, answer)
    /\ UNCHANGED <<listening, acceptor, stop>>

\* What ends the reading of a request that does not become whole: it takes five
\* seconds, the client goes away, or the server stops.
ReadEndsFaulty(k) == k.whole /\ stop[k.server]
ReadEnds(k) == ~k.whole \/ stop[k.server]

ReadFails(k) ==
    /\ k \in Reading
    /\ ReadEnds(k)
    /\ EndRequest(k, Answer("failed"))

(* ------------------------------- shutdown ------------------------------- *)

TellToStop(s) ==
    /\ stop' = [stop EXCEPT ![s] = TRUE]
    /\ acceptor' \in {[acceptor EXCEPT ![s] = IF @ = "ended" THEN @ ELSE position] :
                        position \in {"looping", "last"}}
    /\ UNCHANGED <<listening, count, conns, reply>>

\* CompanionServer::join
Joinable(s) == acceptor[s] = "ended" /\ count[s] = 0

\* The process is gone, with its sockets and threads.
Crash(s) ==
    /\ listening' = [listening EXCEPT ![s] = FALSE]
    /\ acceptor' = [acceptor EXCEPT ![s] = "ended"]
    /\ conns' = conns \ At(s)
    /\ count' = [count EXCEPT ![s] = 0]
    /\ reply' = Replied(At(s), Answer("reset"))
    /\ UNCHANGED stop

\* The client waits no longer; the server does not know.
Abandon(k) ==
    /\ k \in conns /\ k.awaited
    /\ conns' = (conns \ {k}) \cup {[k EXCEPT !.awaited = FALSE]}
    /\ reply' = [reply EXCEPT ![k.client] = Answer("late")]
    /\ UNCHANGED <<listening, acceptor, stop, count>>

ServerSteps ==
    \/ \E s \in Sessions : AcceptorStops(s)
    \/ \E k \in conns : Accept(k) \/ ReadWhole(k) \/ ReadFails(k)
=============================================================================
