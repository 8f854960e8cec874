------------------------------ MODULE Watcher -------------------------------
(***************************************************************************)
(* The remote side of a session: the files a wrapper leaves on the remote  *)
(* host, the watcher that finds them there (watch_loop and what it calls   *)
(* in src/bin/plugin/lifecycle.rs and session.rs), and the workspaces it   *)
(* opens in Herdr for their dashboards.                                    *)
(*                                                                         *)
(* A watcher has two threads: its main thread looks for sessions and scans *)
(* them, its worker sends heartbeats.  Before there is a session the main  *)
(* thread does the worker's rounds itself.  Both close what belongs to     *)
(* sessions that are gone.  They share nothing but the directory, so that  *)
(* every access to it and every call to Herdr is a step of its own.        *)
(*                                                                         *)
(* A definition named ...Faulty is a slip in the definition after it that  *)
(* one of the properties at the end must notice.                           *)
(***************************************************************************)
EXTENDS Naturals, FiniteSets, TLC

CONSTANTS
    Sessions,       \* wrappers, and the session files they own
    NoSession,      \* none of them
    EmptyScans,     \* rounds without a session before a new watcher ends (8)
    MaxVersion,     \* bound on the session files published
    MaxSpace,       \* bound on the workspaces created
    Failures        \* may Herdr fail to close a workspace, or a watcher be killed?

ASSUME WatcherAssumption ==
    /\ NoSession \notin Sessions /\ EmptyScans \in Nat \ {0}
    /\ MaxVersion \in Nat /\ MaxSpace \in Nat
    /\ Failures \in BOOLEAN

VARIABLES
    wrapper,        \* the wrapper of each session
    channel,        \* the published version whose address leads to the wrapper, or 0
    versions,       \* how many session files have been published
    file,           \* the version in each session file; 0 if there is no file
    marker,         \* the workspace named in each dashboard marker; 0 if there is none
    open,           \* the workspaces open in Herdr that a watcher created
    spaces,         \* how many workspaces have been created
    main,           \* where the main thread is; "gone" if no watcher runs
    beat,           \* where the thread that sends heartbeats is
    todo,           \* per thread: the sessions of its round that are left
    orphans,        \* per thread: the sessions whose markers it is going to close
    on,             \* per thread: the session it is busy with
    scanning,       \* does the main thread list for a scan, or only to see what is there?
    listed,         \* the sessions of the heartbeat round
    failing,        \* per session: no heartbeat failed, some did, for 60 seconds
    made,           \* the workspace the main thread has just created, or 0
    empty,          \* rounds without a session
    trouble         \* has a workspace not been closed, or a watcher been killed?

net == <<wrapper, channel, versions>>
dir == <<file, marker>>
herdr == <<open, spaces>>
threads == <<todo, orphans, on>>
scan == <<scanning, made>>
round == <<listed, failing, empty>>
vars == <<net, dir, herdr, main, beat, threads, scan, round, trouble>>

\* The sessions are interchangeable (for TLC).
Alike == Permutations(Sessions)

Spaces == 1..MaxSpace
None == [s \in Sessions |-> "no"]

\* The session file leads to the companion: it is there and its address is the last one.
Reachable(s) == file[s] # 0 /\ file[s] = channel[s]

Running == main \notin {"gone", "leaving"}

-----------------------------------------------------------------------------
(* The wrappers, the network and the user.                                 *)

\* A session file is installed, at the start or in a recovery.
Publish(s) ==
    /\ wrapper[s] = "new" \/ (wrapper[s] = "attached" /\ channel[s] = 0)
    /\ wrapper' = [wrapper EXCEPT ![s] = "waking"]
    /\ versions < MaxVersion /\ versions' = versions + 1
    /\ file' = [file EXCEPT ![s] = versions'] /\ channel' = [channel EXCEPT ![s] = versions']
    /\ UNCHANGED <<marker, herdr, main, beat, threads, scan, round, trouble>>

\* A watcher is spawned. It takes the lock, or ends because another one holds it.
Spawn ==
    /\ main' = IF main = "gone" THEN "starting" ELSE main
    /\ UNCHANGED <<dir, herdr, beat, threads, scan, round, trouble>>

\* The wake action of the plugin.
Wake(s) ==
    /\ wrapper[s] = "waking" /\ wrapper' = [wrapper EXCEPT ![s] = "attached"]
    /\ Spawn /\ UNCHANGED <<channel, versions>>

\* The startup hook of Herdr, or one of the events of the panes.
Hook == main = "gone" /\ Spawn /\ UNCHANGED net

LinkLost(s) ==
    /\ channel[s] # 0 /\ channel' = [channel EXCEPT ![s] = 0]
    /\ UNCHANGED <<wrapper, versions, dir, herdr, main, beat, threads, scan, round, trouble>>

\* The wrapper ends. The session file can be removed only over a link that works.
Exit(s) ==
    /\ wrapper[s] = "attached" /\ wrapper' = [wrapper EXCEPT ![s] = "ended"]
    /\ channel' = [channel EXCEPT ![s] = 0]
    /\ file' = [file EXCEPT ![s] = IF channel[s] # 0 THEN 0 ELSE @]
    /\ UNCHANGED <<versions, marker, herdr, main, beat, threads, scan, round, trouble>>

\* Heartbeats have failed for 60 seconds. The local lease of 10 seconds and the recovery of 30
\* seconds are over by then: the connection is restored or the wrapper has ended.
GracePasses(s) ==
    /\ failing[s] = "some" /\ failing' = [failing EXCEPT ![s] = "long"]
    /\ wrapper[s] = "ended"
    /\ UNCHANGED <<net, dir, herdr, main, beat, threads, scan, listed, empty, trouble>>

UserCloses(w) ==
    /\ w \in open /\ open' = open \ {w}
    /\ UNCHANGED <<net, dir, spaces, main, beat, threads, scan, round, trouble>>

-----------------------------------------------------------------------------
(* What both threads do: list the directory, and close orphaned dashboards. *)

\* Thread t is done with its rounds' data.
Forget(t) ==
    /\ todo' = [todo EXCEPT ![t] = {}] /\ orphans' = [orphans EXCEPT ![t] = {}]
    /\ on' = [on EXCEPT ![t] = NoSession]

ListTidyingLateFaulty(t) ==
    /\ todo' = [todo EXCEPT ![t] = {s \in Sessions : file[s] # 0}]
    /\ orphans' = [orphans EXCEPT ![t] =
           IF todo'[t] = {} THEN {} ELSE {s \in Sessions : marker[s] # 0 /\ file[s] = 0}]
    /\ UNCHANGED on

\* session_files: the listing that the round is about.
List(t) ==
    /\ todo' = [todo EXCEPT ![t] = {s \in Sessions : file[s] # 0}]
    /\ orphans' = [orphans EXCEPT ![t] = {s \in Sessions : marker[s] # 0 /\ file[s] = 0}]
    /\ UNCHANGED on

\* The workspace that the marker names is closed, or found to be closed already.
CloseWorkspace(s) ==
    /\ marker[s] # 0 /\ open' = open \ {marker[s]}
    /\ UNCHANGED <<spaces, trouble>>

CloseFails(s) ==
    /\ Failures /\ marker[s] \in open
    /\ trouble' = TRUE /\ UNCHANGED herdr

\* fs::remove_file of the marker.
Unlink(s) == marker' = [marker EXCEPT ![s] = 0] /\ UNCHANGED file

\* Thread t goes on to the next orphan; the result of the last one is only logged.
NextOrphan(t, s) ==
    /\ orphans' = [orphans EXCEPT ![t] = @ \ {s}] /\ on' = [on EXCEPT ![t] = NoSession]
    /\ UNCHANGED todo

OrphanGone(t) ==
    /\ on[t] = NoSession
    /\ \E s \in orphans[t] : marker[s] = 0 /\ NextOrphan(t, s)
    /\ UNCHANGED <<net, dir, herdr, main, beat, scan, round, trouble>>

CloseOrphan(t) ==
    /\ on[t] = NoSession
    /\ \E s \in orphans[t] : CloseWorkspace(s) /\ on' = [on EXCEPT ![t] = s]
    /\ UNCHANGED <<net, dir, main, beat, todo, orphans, scan, round>>

CloseOrphanFails(t) ==
    /\ on[t] = NoSession
    /\ \E s \in orphans[t] : CloseFails(s) /\ NextOrphan(t, s)
    /\ UNCHANGED <<net, dir, main, beat, scan, round>>

UnlinkOrphan(t) ==
    /\ on[t] \in orphans[t] /\ Unlink(on[t]) /\ NextOrphan(t, on[t])
    /\ UNCHANGED <<net, herdr, main, beat, scan, round, trouble>>

Tidy(t) == OrphanGone(t) \/ CloseOrphan(t) \/ CloseOrphanFails(t) \/ UnlinkOrphan(t)

-----------------------------------------------------------------------------
(* Rounds of heartbeats (heartbeat_once).                                  *)

Begin ==
    /\ Running /\ beat = "idle" /\ beat' = "orphans"
    /\ List("beat") /\ listed' = todo'["beat"]
    /\ UNCHANGED <<net, dir, herdr, main, scan, failing, empty, trouble>>

BeatTidied ==
    /\ beat = "orphans" /\ orphans["beat"] = {} /\ beat' = "beats"
    /\ UNCHANGED <<net, dir, herdr, main, threads, scan, round, trouble>>

NextBeat(s) == todo' = [todo EXCEPT !["beat"] = @ \ {s}] /\ UNCHANGED orphans

HeartbeatFailsFaulty(s) ==
    /\ beat = "beats" /\ s \in todo["beat"] /\ ~Reachable(s) /\ failing[s] # "long"
    /\ failing' = [failing EXCEPT ![s] = "some"]
    /\ beat' = "idle" /\ Forget("beat") /\ listed' = {}
    /\ UNCHANGED <<net, dir, herdr, main, scan, empty, trouble>>

Heartbeat(s) ==
    /\ beat = "beats" /\ s \in todo["beat"] /\ Reachable(s)
    /\ failing' = [failing EXCEPT ![s] = "no"]
    /\ NextBeat(s)
    /\ UNCHANGED <<net, dir, herdr, main, beat, on, scan, listed, empty, trouble>>

HeartbeatFails(s) ==
    /\ beat = "beats" /\ s \in todo["beat"] /\ ~Reachable(s) /\ failing[s] # "long"
    /\ failing' = [failing EXCEPT ![s] = "some"]
    /\ NextBeat(s)
    /\ UNCHANGED <<net, dir, herdr, main, beat, on, scan, listed, empty, trouble>>

ExpireFaulty(s) ==
    /\ beat = "beats" /\ s \in todo["beat"] /\ ~Reachable(s) /\ failing[s] # "no"
    /\ beat' = "close" /\ on' = [on EXCEPT !["beat"] = s]
    /\ UNCHANGED <<net, dir, herdr, main, todo, orphans, scan, listed, failing, empty, trouble>>

\* A heartbeat fails after 60 seconds of failures: the session is to be cleaned up.
Expire(s) ==
    /\ beat = "beats" /\ s \in todo["beat"] /\ ~Reachable(s) /\ failing[s] = "long"
    /\ beat' = "close" /\ on' = [on EXCEPT !["beat"] = s]
    /\ UNCHANGED <<net, dir, herdr, main, todo, orphans, scan, listed, failing, empty, trouble>>

\* The clean-up of an expired session goes from one step to the next.
Expiring(here, there) ==
    /\ beat = here /\ beat' = there
    /\ UNCHANGED <<net, main, scan, listed, empty>>

CloseExpired ==
    /\ Expiring("close", "unlink") /\ CloseWorkspace(on["beat"])
    /\ UNCHANGED <<dir, threads, failing>>

NoDashboard ==
    /\ Expiring("close", "remove") /\ marker[on["beat"]] = 0
    /\ UNCHANGED <<dir, herdr, threads, failing, trouble>>

UnlinkExpired ==
    /\ Expiring("unlink", "remove") /\ marker[on["beat"]] # 0 /\ Unlink(on["beat"])
    /\ UNCHANGED <<herdr, threads, failing, trouble>>

RemoveSession ==
    /\ Expiring("remove", "beats") /\ file[on["beat"]] # 0
    /\ file' = [file EXCEPT ![on["beat"]] = 0]
    /\ failing' = [failing EXCEPT ![on["beat"]] = "no"]
    /\ NextBeat(on["beat"]) /\ on' = [on EXCEPT !["beat"] = NoSession]
    /\ UNCHANGED <<marker, herdr, trouble>>

\* A step of the clean-up fails, and with it the whole round.
AbortRound ==
    /\ beat' = "idle" /\ Forget("beat") /\ listed' = {}
    /\ UNCHANGED <<net, dir, main, scan, failing, empty>>

CloseExpiredFails == beat = "close" /\ CloseFails(on["beat"]) /\ AbortRound

AlreadyGone ==
    /\ \/ beat = "unlink" /\ marker[on["beat"]] = 0
       \/ beat = "remove" /\ file[on["beat"]] = 0
    /\ AbortRound /\ UNCHANGED <<herdr, trouble>>

KeptFaulty == None

\* What failed and was listed is remembered.
Kept == [s \in Sessions |-> IF s \in listed THEN failing[s] ELSE "no"]

RoundOver ==
    /\ beat = "beats" /\ todo["beat"] = {} /\ beat' = "idle" /\ listed' = {}
    /\ UNCHANGED <<net, dir, herdr, threads, made, trouble>>

EndRound ==
    /\ RoundOver /\ main # "starting" /\ failing' = Kept
    /\ UNCHANGED <<main, scanning, empty>>

FoundNothing ==
    /\ RoundOver /\ main = "starting" /\ listed = {}
    /\ IF empty + 1 < EmptyScans THEN empty' = empty + 1 /\ UNCHANGED main
                                 ELSE empty' = 0 /\ main' = "gone"
    /\ failing' = Kept /\ UNCHANGED scanning

\* The worker starts, with failures of its own, and so does the first scan.
FoundSession ==
    /\ RoundOver /\ main = "starting" /\ listed # {}
    /\ main' = "list" /\ UNCHANGED scanning
    /\ empty' = 0 /\ failing' = None

Round ==
    \/ Begin \/ Tidy("beat") \/ BeatTidied
    \/ \E s \in Sessions : Heartbeat(s) \/ HeartbeatFails(s) \/ Expire(s)
    \/ CloseExpired \/ NoDashboard \/ UnlinkExpired \/ RemoveSession
    \/ CloseExpiredFails \/ AlreadyGone
    \/ EndRound \/ FoundNothing \/ FoundSession

-----------------------------------------------------------------------------
(* The main thread (watch_loop, scan_once).                                *)

Goto(here, there) ==
    /\ main = here /\ main' = there
    /\ UNCHANGED <<net, beat, round>>

\* The sessions are listed to see whether any is left, ...
Look ==
    /\ Goto("wait", "orphans") /\ List("main") /\ scanning' = FALSE
    /\ UNCHANGED <<dir, herdr, made, trouble>>

\* ... or to be scanned.
ListSessions ==
    /\ Goto("list", "orphans") /\ List("main") /\ scanning' = TRUE
    /\ UNCHANGED <<dir, herdr, made, trouble>>

Tidied == orphans["main"] = {} /\ UNCHANGED <<dir, herdr, made, trouble>>

StartScan ==
    /\ Goto("orphans", "sessions") /\ Tidied /\ scanning /\ scanning' = FALSE
    /\ UNCHANGED threads

\* Nothing happened in the panes, ...
NoEvent ==
    /\ Goto("orphans", "wait") /\ Tidied /\ ~scanning /\ todo["main"] # {}
    /\ Forget("main") /\ UNCHANGED scanning

\* ... or something did, or 15 seconds are over.
Event ==
    /\ Goto("orphans", "list") /\ Tidied /\ ~scanning /\ todo["main"] # {}
    /\ Forget("main") /\ UNCHANGED scanning

\* The subscription to the events was lost and is made again: a scan, without a look.
Resubscribe ==
    /\ Goto("wait", "list")
    /\ UNCHANGED <<dir, herdr, threads, scan, trouble>>

NoSessionLeft ==
    /\ Goto("orphans", "leaving") /\ Tidied /\ ~scanning /\ todo["main"] = {}
    /\ UNCHANGED <<threads, scanning>>

\* The main thread is done with the session it is on.
NextSession(s) ==
    /\ todo' = [todo EXCEPT !["main"] = @ \ {s}] /\ on' = [on EXCEPT !["main"] = NoSession]
    /\ UNCHANGED <<orphans, scanning>>

\* The scan of a session fails, creates no forward, is to open no workspace, or finds the
\* marker of one.
ScanOnly(s) ==
    /\ Goto("sessions", "sessions") /\ s \in todo["main"] /\ NextSession(s)
    /\ UNCHANGED <<dir, herdr, made, trouble>>

\* open_dashboard_space: a forward was created, and there is no marker yet.
OpenDashboard(s) ==
    /\ Goto("sessions", "create") /\ s \in todo["main"] /\ Reachable(s) /\ marker[s] = 0
    /\ on' = [on EXCEPT !["main"] = s]
    /\ UNCHANGED <<dir, herdr, todo, orphans, scan, trouble>>

CreateSpace ==
    /\ Goto("create", "created") /\ spaces < MaxSpace
    /\ spaces' = spaces + 1 /\ made' = spaces' /\ open' = open \cup {spaces'}
    /\ UNCHANGED <<dir, threads, scanning, trouble>>

WriteMarkerFaulty ==
    /\ Goto("created", "sessions") /\ NextSession(on["main"])
    /\ marker' = [marker EXCEPT ![on["main"]] = made] /\ UNCHANGED made
    /\ UNCHANGED <<file, herdr, trouble>>

CreateFails ==
    /\ Goto("create", "sessions") /\ NextSession(on["main"])
    /\ UNCHANGED <<dir, herdr, made, trouble>>

WriteMarker ==
    /\ Goto("created", "sessions") /\ NextSession(on["main"])
    /\ marker' = [marker EXCEPT ![on["main"]] = made] /\ made' = 0
    /\ UNCHANGED <<file, herdr, trouble>>

\* The dashboard does not start, its status is not reported, or the marker not written.
DashboardFails ==
    /\ Goto("created", "undo")
    /\ UNCHANGED <<dir, herdr, threads, scan, trouble>>

UndoFaulty ==
    /\ Goto("undo", "sessions") /\ NextSession(on["main"]) /\ made' = 0
    /\ UNCHANGED <<dir, herdr, trouble>>

Undo ==
    /\ Goto("undo", "sessions") /\ NextSession(on["main"]) /\ made' = 0
    /\ open' = open \ {made}
    /\ UNCHANGED <<dir, spaces, trouble>>

UndoFails ==
    /\ Failures
    /\ Goto("undo", "sessions") /\ NextSession(on["main"]) /\ made' = 0
    /\ trouble' = TRUE
    /\ UNCHANGED <<dir, herdr>>

EndScan ==
    /\ Goto("sessions", "wait") /\ todo["main"] = {}
    /\ UNCHANGED <<dir, herdr, threads, scan, trouble>>

\* The worker has been joined: it looks at its stop flag between two rounds.
Leave ==
    /\ main = "leaving" /\ beat = "idle"
    /\ main' = "gone" /\ failing' = None
    /\ UNCHANGED <<net, dir, herdr, beat, threads, scan, listed, empty, trouble>>

Main ==
    \/ Look \/ ListSessions \/ (main = "orphans" /\ Tidy("main"))
    \/ StartScan \/ NoEvent \/ Event \/ Resubscribe \/ NoSessionLeft
    \/ (\E s \in Sessions : ScanOnly(s) \/ OpenDashboard(s))
    \/ CreateSpace \/ CreateFails \/ WriteMarker \/ DashboardFails \/ Undo \/ UndoFails
    \/ EndScan \/ Leave

\* The watcher is killed; the kernel frees the lock.
Killed ==
    /\ Failures /\ main # "gone" /\ main' = "gone" /\ beat' = "idle" /\ trouble' = TRUE
    /\ todo' = [t \in {"main", "beat"} |-> {}] /\ orphans' = todo'
    /\ on' = [t \in {"main", "beat"} |-> NoSession]
    /\ scanning' = FALSE /\ made' = 0
    /\ listed' = {} /\ failing' = None /\ empty' = 0
    /\ UNCHANGED <<net, dir, herdr>>

-----------------------------------------------------------------------------
Init ==
    /\ wrapper = [s \in Sessions |-> "new"] /\ channel = [s \in Sessions |-> 0] /\ versions = 0
    /\ file = [s \in Sessions |-> 0] /\ marker = [s \in Sessions |-> 0]
    /\ open = {} /\ spaces = 0
    /\ main = "gone" /\ beat = "idle"
    /\ todo = [t \in {"main", "beat"} |-> {}] /\ orphans = todo
    /\ on = [t \in {"main", "beat"} |-> NoSession]
    /\ scanning = FALSE /\ made = 0
    /\ listed = {} /\ failing = None /\ empty = 0
    /\ trouble = FALSE

Next ==
    \/ \E s \in Sessions :
        Publish(s) \/ Wake(s) \/ LinkLost(s) \/ Exit(s) \/ GracePasses(s)
    \/ Hook \/ (\E w \in Spaces : UserCloses(w))
    \/ Round \/ Main \/ Killed

\* Both threads run, and the clock advances.
Fairness ==
    /\ WF_vars(Round) /\ WF_vars(Main)
    /\ \A s \in Sessions : WF_vars(Wake(s)) /\ WF_vars(GracePasses(s))

Spec == Init /\ [][Next]_vars /\ Fairness

-----------------------------------------------------------------------------
(* What the watcher promises.                                              *)

\* The values the variables take.
TypeOK ==
    /\ wrapper \in [Sessions -> {"new", "waking", "attached", "ended"}]
    /\ channel \in [Sessions -> 0..MaxVersion] /\ versions \in 0..MaxVersion
    /\ file \in [Sessions -> 0..MaxVersion] /\ marker \in [Sessions -> 0..MaxSpace]
    /\ open \subseteq Spaces /\ spaces \in 0..MaxSpace
    /\ main \in {"gone", "starting", "list", "orphans", "sessions", "create", "created", "undo",
                 "wait", "leaving"}
    /\ beat \in {"idle", "orphans", "beats", "close", "unlink", "remove"}
    /\ todo \in [{"main", "beat"} -> SUBSET Sessions]
    /\ orphans \in [{"main", "beat"} -> SUBSET Sessions]
    /\ on \in [{"main", "beat"} -> Sessions \cup {NoSession}]
    /\ scanning \in BOOLEAN /\ made \in 0..MaxSpace
    /\ listed \subseteq Sessions /\ failing \in [Sessions -> {"no", "some", "long"}]
    /\ empty \in 0..EmptyScans
    /\ trouble \in BOOLEAN
    /\ main \in {"gone", "starting", "leaving"} => made = 0

\* A workspace that Herdr shows is named by a marker, by which it will be found, or is
\* just being set up, unless closing one failed or a watcher was killed.
NoStraySpace ==
    trouble \/ \A w \in open : made = w \/ \E s \in Sessions : marker[s] = w

\* A watcher that ends by itself leaves no dashboard behind.
NothingAbandoned == main = "gone" /\ ~trouble => open = {}

\* A dashboard is closed under nobody: while its wrapper runs neither thread closes the
\* workspace its marker names, or takes the marker or the session file away.
RunningIsKept ==
    [][\A s \in Sessions : wrapper[s] # "ended" /\ wrapper' = wrapper =>
        /\ file[s] # 0 => file'[s] # 0
        /\ marker[s] # 0 => marker'[s] = marker[s]
        /\ marker[s] \in open \ open' => UNCHANGED <<main, beat, on>>]_vars

\* "An independent worker sends a two-second heartbeat" (docs/architecture.md): while a
\* watcher runs, a session that can be reached is heard from again and again.
SessionsAreHeard ==
    \A s \in Sessions : <>[](Running /\ Reachable(s)) => []<><<Heartbeat(s)>>_vars

\* What an exited wrapper could not remove disappears, with its dashboard, if a watcher
\* runs on.
StaleSessionEnds ==
    \A s \in Sessions :
        Running /\ wrapper[s] = "ended" ~> (file[s] = 0 /\ marker[s] = 0) \/ ~Running
\* Nothing that watchers open is lost track of, neither while they run nor when they end.
NothingStrays == TypeOK /\ NoStraySpace /\ NothingAbandoned
=============================================================================
