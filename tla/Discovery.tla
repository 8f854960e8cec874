----------------------------- MODULE Discovery ------------------------------
(***************************************************************************)
(* The discovery of servers: a scan of the remote watcher                  *)
(* (process_session_discovery in src/bin/plugin/lifecycle.rs) lists the    *)
(* session's forwards, reads the panes one after another, and then asks    *)
(* the companion to delete and to create forwards, while processes come    *)
(* and go, listen and stop, and while the user adds and removes forwards.  *)
(*                                                                         *)
(* A forward is what Registry says of it, without its local port and       *)
(* without being paused, which a scan does not look at.  The companion     *)
(* answers one request at a time.                                          *)
(*                                                                         *)
(* A definition named ...Faulty is a slip in the definition after it that  *)
(* one of the properties at the end must notice.                           *)
(***************************************************************************)
EXTENDS Naturals, FiniteSets

CONSTANTS
    Panes,              \* panes of the Herdr session
    ProcessesPerPane,   \* bound on the processes of a pane
    Ports,              \* remote ports
    Hosts,              \* loopback addresses of the remote host
    NoPane, NoProcess,  \* none of them
    MaxFailures         \* bound on the calls that fail

ASSUME DiscoveryAssumption ==
    /\ NoPane \notin Panes /\ ProcessesPerPane \in Nat /\ MaxFailures \in Nat
    /\ NoProcess \notin Panes \X (1..ProcessesPerPane)
    /\ IsFiniteSet(Ports) /\ IsFiniteSet(Hosts)

Processes == Panes \X (1..ProcessesPerPane)
PaneOf(p) == p[1]
Endpoints == Ports \X Hosts

VARIABLES
    front,      \* the processes in the foreground of their panes, children included
    listener,   \* the process that listens at an endpoint, or NoProcess
    forwards,   \* the forwards of the session
    pc,         \* where the scan is; "idle" between two scans
    previous,   \* the forwards as they were when the scan began
    unread,     \* the panes that are left to read
    active,     \* the processes found
    detected,   \* the listeners found
    deletions,  \* the identifiers to delete
    requests,   \* the listeners to request a forward for
    created,    \* has the companion answered such a request?
    errors,     \* did a request of this scan fail?
    failures,   \* how many calls have failed
    quiet,      \* has nothing but the scan happened since it began?
    fresh       \* has this scan really added a forward?

world == <<front, listener>>
found == <<previous, unread, active, detected>>
plan == <<deletions, requests>>
outcome == <<created, errors>>
notes == <<failures, quiet, fresh>>
vars == <<world, forwards, pc, found, plan, outcome, notes>>

Ids == 1..2 * Cardinality(Endpoints)
Forward == [at : Endpoints, id : Ids, pane : Panes \cup {NoPane},
            process : Processes \cup {NoProcess}, automatic : BOOLEAN]
Listener == [at : Endpoints, pane : Panes, process : Processes]
PortOf(x) == x.at[1]

-----------------------------------------------------------------------------
(* The remote host.                                                        *)

Disturb ==
    /\ quiet' = FALSE
    /\ UNCHANGED <<pc, found, plan, outcome, failures, fresh>>

\* A process starts, or comes back to the foreground.
Appear(p) ==
    /\ p \notin front /\ front' = front \cup {p}
    /\ UNCHANGED <<listener, forwards>> /\ Disturb

\* A process is sent to the background.
Suspend(p) ==
    /\ p \in front /\ front' = front \ {p}
    /\ UNCHANGED <<listener, forwards>> /\ Disturb

Exit(p) ==
    /\ p \in front /\ front' = front \ {p}
    /\ listener' = [e \in Endpoints |-> IF listener[e] = p THEN NoProcess ELSE listener[e]]
    /\ UNCHANGED forwards /\ Disturb

Listen(p, e) ==
    /\ p \in front /\ listener[e] = NoProcess /\ listener' = [listener EXCEPT ![e] = p]
    /\ UNCHANGED <<front, forwards>> /\ Disturb

Unlisten(e) ==
    /\ listener[e] # NoProcess /\ listener' = [listener EXCEPT ![e] = NoProcess]
    /\ UNCHANGED <<front, forwards>> /\ Disturb

-----------------------------------------------------------------------------
(* The companion.                                                          *)

At(e) == {f \in forwards : f.at = e}

\* Identifiers are not used again: a new one is none that somebody still knows.
KnownIds == {f.id : f \in forwards \cup previous} \cup deletions
NewId == CHOOSE i \in Ids \ KnownIds : TRUE

PostFaulty(e, pane, process, automatic) ==
    forwards' = IF At(e) # {} THEN forwards
                ELSE forwards \cup {[at |-> e, id |-> NewId, pane |-> pane,
                                     process |-> process, automatic |-> automatic]}

PostTwiceFaulty(e, pane, process, automatic) ==
    LET known == {f \in At(e) : f.automatic = automatic}
    IN  forwards' =
            IF known # {} THEN (forwards \ known) \cup
                {[f EXCEPT !.process = IF process = NoProcess THEN @ ELSE process] : f \in known}
            ELSE forwards \cup {[at |-> e, id |-> NewId, pane |-> pane,
                                 process |-> process, automatic |-> automatic]}

\* POST /v1/forwards: the forward that is there already learns the process of the request.
Post(e, pane, process, automatic) ==
    forwards' =
        IF At(e) # {} THEN (forwards \ At(e)) \cup
            {[f EXCEPT !.process = IF process = NoProcess THEN @ ELSE process] : f \in At(e)}
        ELSE forwards \cup {[at |-> e, id |-> NewId, pane |-> pane,
                             process |-> process, automatic |-> automatic]}

\* The user adds a forward by hand, or removes one.
Add(e) == Post(e, NoPane, NoProcess, FALSE) /\ UNCHANGED world /\ Disturb

Remove(f) == f \in forwards /\ forwards' = forwards \ {f} /\ UNCHANGED world /\ Disturb

-----------------------------------------------------------------------------
(* The scan.                                                               *)

Fails == failures < MaxFailures /\ failures' = failures + 1 /\ UNCHANGED <<quiet, fresh>>

Begin ==
    /\ pc = "idle" /\ pc' = "panes"
    /\ previous' = forwards /\ unread' = Panes /\ active' = {} /\ detected' = {}
    /\ created' = FALSE /\ errors' = FALSE /\ quiet' = TRUE /\ fresh' = FALSE
    /\ UNCHANGED <<world, forwards, plan, failures>>

\* What lsof and ss list of the given processes: one listener of each port.
Listing(processes) ==
    LET all == {l \in Listener : l.process \in processes /\ l.process = listener[l.at]
                                    /\ l.pane = PaneOf(l.process)}
    IN  {some \in SUBSET all :
            /\ {PortOf(l) : l \in some} = {PortOf(l) : l \in all}
            /\ \A l, m \in some : PortOf(l) = PortOf(m) => l = m}

ReadPane(pane) ==
    /\ pc = "panes" /\ pane \in unread /\ unread' = unread \ {pane}
    /\ LET here == {p \in front : PaneOf(p) = pane}
       IN  /\ active' = active \cup here
           /\ \E some \in Listing(here) : detected' = detected \cup some
    /\ UNCHANGED <<world, forwards, pc, previous, plan, outcome, notes>>

ReadFailsFaulty(pane) ==
    /\ pc = "panes" /\ pane \in unread /\ unread' = unread \ {pane} /\ Fails
    /\ UNCHANGED <<world, forwards, pc, previous, active, detected, plan, outcome>>

\* A pane cannot be read, or 8 seconds are over: the scan is given up.
ReadFails(pane) ==
    /\ pc = "panes" /\ pane \in unread /\ Fails
    /\ pc' = "idle" /\ previous' = {} /\ unread' = {} /\ active' = {} /\ detected' = {}
    /\ UNCHANGED <<world, forwards, plan, outcome>>

\* The watcher is killed; the next one begins anew.
Killed ==
    /\ pc # "idle" /\ Fails
    /\ pc' = "idle" /\ previous' = {} /\ unread' = {} /\ active' = {} /\ detected' = {}
    /\ deletions' = {} /\ requests' = {}
    /\ UNCHANGED <<world, forwards, outcome>>

GoneFaulty(f) ==
    \/ ~\E p \in active : p = f.process /\ PaneOf(p) = f.pane
    \/ ~\E l \in detected : l.pane = f.pane /\ PortOf(l) = PortOf(f)

\* The pane, the process or the port of an automatic forward was not found again.
Gone(f) ==
    /\ f.automatic
    /\ \/ ~\E p \in active : p = f.process /\ PaneOf(p) = f.pane
       \/ ~\E l \in detected : l.pane = f.pane /\ PortOf(l) = PortOf(f)

ServedFaulty(l) == \E f \in previous : f.pane = l.pane /\ PortOf(f) = PortOf(l)

\* automatic_requests_to_create: not for what is known to be forwarded.
Served(l) ==
    \E f \in previous :
        f.automatic /\ f.pane = l.pane /\ f.process = l.process /\ PortOf(f) = PortOf(l)

Decide ==
    /\ pc = "panes" /\ unread = {} /\ pc' = "requests"
    /\ deletions' = {f.id : f \in {g \in previous : Gone(g)}}
    /\ requests' = {l \in detected : ~Served(l)}
    /\ previous' = {} /\ active' = {} /\ detected' = {}
    /\ UNCHANGED <<world, forwards, unread, outcome, notes>>

\* reconcile_forward_requests: the deletions one by one, ...
Deleting(i) ==
    /\ pc = "requests" /\ i \in deletions /\ deletions' = deletions \ {i}
    /\ UNCHANGED <<world, pc, found, requests, created>>

Delete(i) ==
    /\ Deleting(i) /\ i \in {f.id : f \in forwards}
    /\ forwards' = {f \in forwards : f.id # i}
    /\ UNCHANGED <<errors, notes>>

\* The user was faster.
DeleteUnknown(i) ==
    /\ Deleting(i) /\ i \notin {f.id : f \in forwards}
    /\ errors' = TRUE /\ UNCHANGED <<forwards, notes>>

DeleteFails(i) == Deleting(i) /\ Fails /\ errors' = TRUE /\ UNCHANGED forwards

\* ... then the new forwards.
Creating(l) ==
    /\ pc = "requests" /\ deletions = {} /\ l \in requests /\ requests' = requests \ {l}
    /\ UNCHANGED <<world, pc, found, deletions>>

Create(l) ==
    /\ Creating(l) /\ Post(l.at, l.pane, l.process, TRUE)
    /\ created' = TRUE /\ fresh' = (fresh \/ At(l.at) = {})
    /\ UNCHANGED <<errors, failures, quiet>>

CreateFails(l) ==
    /\ Creating(l) /\ Fails /\ errors' = TRUE /\ UNCHANGED <<forwards, created>>

Leaving(here, there) ==
    /\ pc = here /\ pc' = there
    /\ UNCHANGED <<world, forwards, found, plan, outcome>>

Requested ==
    /\ Leaving("requests", IF created THEN "show" ELSE "end")
    /\ deletions = {} /\ requests = {} /\ UNCHANGED notes

\* show_after_forward: the dashboard opens.
Show == Leaving("show", "end") /\ UNCHANGED notes

ShowFails == Leaving("show", "idle") /\ Fails

\* The sidebar, the dashboard and the notifications follow.
End == Leaving("end", "idle") /\ UNCHANGED notes

-----------------------------------------------------------------------------
Init ==
    /\ front = {} /\ listener = [e \in Endpoints |-> NoProcess]
    /\ forwards = {} /\ pc = "idle"
    /\ previous = {} /\ unread = {} /\ active = {} /\ detected = {}
    /\ deletions = {} /\ requests = {} /\ created = FALSE /\ errors = FALSE
    /\ failures = 0 /\ quiet = FALSE /\ fresh = FALSE

Host ==
    \/ \E p \in Processes :
        Appear(p) \/ Suspend(p) \/ Exit(p) \/ (\E e \in Endpoints : Listen(p, e))
    \/ \E e \in Endpoints : Unlisten(e)

User == (\E e \in Endpoints : Add(e)) \/ (\E f \in forwards : Remove(f))

Scan ==
    \/ Begin \/ Decide \/ Requested \/ Show \/ ShowFails \/ End
    \/ \E pane \in Panes : ReadPane(pane) \/ ReadFails(pane)
    \/ \E i \in Ids : Delete(i) \/ DeleteUnknown(i) \/ DeleteFails(i)
    \/ \E l \in requests : Create(l) \/ CreateFails(l)

Next == Host \/ User \/ Scan \/ Killed

\* A scan is made at least every 15 seconds.
Spec == Init /\ [][Next]_vars /\ WF_vars(Scan)

-----------------------------------------------------------------------------
(* What discovery promises.                                                *)

\* The values the variables take, and one forward per endpoint.
TypeOK ==
    /\ front \subseteq Processes /\ listener \in [Endpoints -> Processes \cup {NoProcess}]
    /\ forwards \subseteq Forward /\ \A f, g \in forwards : f.at = g.at \/ f.id = g.id => f = g
    /\ pc \in {"idle", "panes", "requests", "show", "end"}
    /\ previous \subseteq Forward /\ unread \subseteq Panes
    /\ active \subseteq Processes /\ detected \subseteq Listener
    /\ deletions \subseteq Ids /\ requests \subseteq Listener
    /\ created \in BOOLEAN /\ errors \in BOOLEAN
    /\ failures \in 0..MaxFailures /\ quiet \in BOOLEAN /\ fresh \in BOOLEAN

\* Every server in the foreground has a forward, and every automatic forward is the one of
\* the process that listens there.
Exact ==
    /\ \A e \in Endpoints : listener[e] \in front => At(e) # {}
    /\ \A f \in forwards : f.automatic =>
        listener[f.at] = f.process /\ f.process \in front /\ f.pane = PaneOf(f.process)

\* After a scan that was not disturbed and met no error, whatever happened before, the
\* forwards match the servers.
QuietScanIsExact == pc = "end" /\ quiet /\ ~errors => Exact

\* "The plugin removes a mapping when its listener or owning process disappears"
\* (docs/plugin.md:90): after such a scan no automatic forward leads nowhere.  With two
\* Hosts the code does not keep this, because it never compares them.
DeadAreGone ==
    pc = "end" /\ quiet /\ ~errors =>
        \A f \in forwards : f.automatic => listener[f.at] # NoProcess

\* A scan, even if calls fail in it, does not delete the forward of a server that was there
\* all the time, if the forward has the server's pane and process.
LiveIsKept ==
    [][quiet /\ quiet' => \A f \in forwards :
        listener[f.at] = f.process /\ f.process \in front /\ f.pane = PaneOf(f.process) =>
            f.id \in {g.id : g \in forwards'}]_vars

\* A scan deletes and takes over nothing that the user added, not even if the user did
\* so while the scan was under way.
ManualIsKept ==
    [][~User => \A f \in forwards :
        ~f.automatic => \E g \in forwards' : g.id = f.id /\ g.at = f.at /\ ~g.automatic]_vars

\* When processes and user come to rest, the forwards match the servers, and stay so.
Converges == <>[][~Host /\ ~User]_vars => <>[]Exact

\* "Discovery is idempotent" (docs/plugin.md:94): after a scan that was not disturbed the
\* dashboard opens only if it added a forward.  The code does not keep this: the companion
\* answers with the user's own forward at the server's endpoint, which counts as created.
ShownIfNew == [][Show /\ quiet => fresh]_vars
\* The companion has one forward per endpoint at all times, and exactly the right ones
\* after a scan that nothing disturbed.
ScanIsSound == TypeOK /\ QuietScanIsExact

\* A scan takes nothing away from a running server or from the user.
ScanIsGentle == LiveIsKept /\ ManualIsKept
=============================================================================
