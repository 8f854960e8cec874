--------------------------- MODULE WatcherProofs ----------------------------
(***************************************************************************)
(* Proofs about Watcher, for any number of sessions, published files and     *)
(* workspaces, with and without failures of Herdr and killed watchers.       *)
(*                                                                         *)
(* The argument: a session whose wrapper has ended is never reached again,   *)
(* so that no dashboard is opened for it (OpenedAlive), and only of such      *)
(* sessions are there orphans and clean-ups (Tidying, Expired).  A marker     *)
(* goes only after its workspace was closed, and no workspace is created      *)
(* under a number that a marker has (Names); so what is open has a marker,    *)
(* or is being set up (Known).  A watcher ends by itself only after a list    *)
(* without sessions, all of whose orphans it has closed.                      *)
(***************************************************************************)
EXTENDS Watcher, TLAPS

Threads == {"main", "beat"}

\* The main thread sets up a dashboard, the worker cleans up after an expired session.
Opening == main \in {"create", "created", "undo"}
Expiry == beat \in {"close", "unlink", "remove"}

\* The steps outside the watcher.
Env ==
    \/ \E s \in Sessions : Publish(s) \/ Wake(s) \/ LinkLost(s) \/ Exit(s) \/ GracePasses(s)
    \/ Hook \/ (\E w \in Spaces : UserCloses(w))

(* The values of the variables.                                             *)
Types ==
    /\ wrapper \in [Sessions -> {"new", "waking", "attached", "ended"}]
    /\ channel \in [Sessions -> 0..MaxVersion] /\ versions \in 0..MaxVersion
    /\ file \in [Sessions -> 0..MaxVersion] /\ marker \in [Sessions -> 0..MaxSpace]
    /\ open \subseteq Spaces /\ spaces \in 0..MaxSpace /\ made \in 0..MaxSpace
    /\ main \in {"gone", "starting", "list", "orphans", "sessions", "create", "created", "undo",
                 "wait", "leaving"}
    /\ beat \in {"idle", "orphans", "beats", "close", "unlink", "remove"}
    /\ todo \in [Threads -> SUBSET Sessions] /\ orphans \in [Threads -> SUBSET Sessions]
    /\ on \in [Threads -> Sessions \cup {NoSession}]
    /\ scanning \in BOOLEAN /\ trouble \in BOOLEAN
    /\ listed \subseteq Sessions /\ failing \in [Sessions -> {"no", "some", "long"}]
    /\ empty \in 0..EmptyScans

(* A session, from its first file to what is left of it.                    *)
Life ==
    \A s \in Sessions :
        /\ wrapper[s] = "new" => file[s] = 0 /\ marker[s] = 0
        /\ wrapper[s] \in {"waking", "attached"} => file[s] # 0
        /\ wrapper[s] = "ended" => channel[s] = 0
        /\ failing[s] = "long" => wrapper[s] = "ended"

(* Markers name different workspaces, and none the one that is being set up. *)
Names ==
    /\ \A s, t \in Sessions : marker[s] = marker[t] /\ marker[s] # 0 => s = t
    /\ \A s \in Sessions : marker[s] <= spaces /\ (made # 0 => marker[s] # made)
    /\ \A w \in open : w <= spaces
    /\ made <= spaces /\ (made # 0 => main \in {"created", "undo"})

(* What is set up, what is cleaned up, and what a thread is on a session for. *)
Opened ==
    Opening => on["main"] \in Sessions /\ marker[on["main"]] = 0 /\ wrapper[on["main"]] # "new"

Expired ==
    /\ Expiry => on["beat"] \in Sessions /\ wrapper[on["beat"]] = "ended"
    /\ beat = "unlink" =>
         marker[on["beat"]] \notin open /\ ~(Opening /\ on["main"] = on["beat"])

Busy ==
    /\ on["main"] # NoSession => on["main"] \in orphans["main"] \/ Opening
    /\ on["beat"] # NoSession => on["beat"] \in orphans["beat"] \/ Expiry
    /\ main # "orphans" => orphans["main"] = {}
    /\ beat # "orphans" => orphans["beat"] = {}

(* An orphan's wrapper has ended, and what is closed stays closed.          *)
Tidying ==
    \A t \in Threads :
        /\ \A s \in orphans[t] : wrapper[s] = "ended" /\ ~(Opening /\ on["main"] = s)
        /\ on[t] \in orphans[t] => marker[on[t]] \notin open

(* What Herdr shows is known, and gone when the watcher goes.                *)
Known ==
    trouble \/
      /\ \A w \in open : made = w \/ \E s \in Sessions : marker[s] = w
      /\ main \in {"gone", "starting", "leaving"} => open = {}
      /\ main = "orphans" /\ ~scanning /\ todo["main"] = {} =>
           \A w \in open : \E s \in orphans["main"] : marker[s] = w

IInv == Types /\ Life /\ Names /\ Opened /\ Expired /\ Busy /\ Tidying /\ Known

-----------------------------------------------------------------------------
(* Which steps change what.                                                 *)

USE DEF net, dir, herdr, threads, scan, round
USE DEF Publish, Wake, Spawn, Hook, LinkLost, Exit, GracePasses, UserCloses
USE DEF Begin, BeatTidied, Heartbeat, HeartbeatFails, Expire, Expiring, CloseExpired, NoDashboard,
    UnlinkExpired, RemoveSession, CloseExpiredFails, AlreadyGone, AbortRound, RoundOver,
    EndRound, FoundNothing, FoundSession
USE DEF Tidy, OrphanGone, CloseOrphan, CloseOrphanFails, UnlinkOrphan
USE DEF Look, ListSessions, StartScan, Tidied, NoEvent, Event, Resubscribe, NoSessionLeft, Goto,
    ScanOnly, OpenDashboard, CreateSpace, CreateFails, WriteMarker, DashboardFails, Undo,
    UndoFails, EndScan, Leave, NextSession
USE DEF Threads, Forget, List, NextOrphan, NextBeat, CloseWorkspace, CloseFails,
    Unlink

\* Only what the wrapper does, or the loss of its link, changes a wrapper or its channel.
LEMMA WrapperWriters ==
    ASSUME [Next]_vars, <<wrapper, channel>>' # <<wrapper, channel>>
    PROVE  \E s \in Sessions : Publish(s) \/ Wake(s) \/ LinkLost(s) \/ Exit(s)
<1> HIDE DEF Publish, Exit, Wake, LinkLost
<1>1. CASE Env
  BY <1>1 DEF Env
<1>2. CASE Round
  BY <1>2 DEF Round
<1>3. CASE Main
  BY <1>3 DEF Main
<1>4. CASE Killed \/ UNCHANGED vars
  BY <1>4 DEF Killed, vars
<1> QED BY <1>1, <1>2, <1>3, <1>4 DEF Next, Env

\* Session files are published by wrappers, and removed by them or by a clean-up.
LEMMA FileWriters ==
    ASSUME [Next]_vars, file' # file
    PROVE  \/ \E s \in Sessions : Publish(s) \/ Exit(s)
           \/ RemoveSession
<1> HIDE DEF Publish, Exit, RemoveSession
<1>1. CASE Env
  BY <1>1 DEF Env
<1>2. CASE Round
  BY <1>2 DEF Round
<1>3. CASE Main
  BY <1>3 DEF Main
<1>4. CASE Killed \/ UNCHANGED vars
  BY <1>4 DEF Killed, vars
<1> QED BY <1>1, <1>2, <1>3, <1>4 DEF Next, Env

\* Markers are written by the main thread, and removed with orphans or by a clean-up.
LEMMA MarkerWriters ==
    ASSUME [Next]_vars, marker' # marker
    PROVE  \/ \E t \in Threads : UnlinkOrphan(t)
           \/ UnlinkExpired
           \/ WriteMarker
<1> HIDE DEF UnlinkOrphan, UnlinkExpired, WriteMarker
<1>1. CASE Env
  BY <1>1 DEF Env
<1>2. CASE Round
  BY <1>2 DEF Round
<1>3. CASE Main
  BY <1>3 DEF Main
<1>4. CASE Killed \/ UNCHANGED vars
  BY <1>4 DEF Killed, vars
<1> QED BY <1>1, <1>2, <1>3, <1>4 DEF Next, Env

\* The user closes a workspace, or one of the steps that ask Herdr to; one step creates it.
LEMMA OpenWriters ==
    ASSUME [Next]_vars, open' # open
    PROVE  \/ \E w \in Spaces : UserCloses(w)
           \/ \E t \in Threads : CloseOrphan(t)
           \/ CloseExpired
           \/ CreateSpace
           \/ Undo
<1> HIDE DEF UserCloses, CloseOrphan, CloseExpired, CreateSpace, Undo
<1>1. CASE Env
  BY <1>1 DEF Env
<1>2. CASE Round
  BY <1>2 DEF Round
<1>3. CASE Main
  BY <1>3 DEF Main
<1>4. CASE Killed \/ UNCHANGED vars
  BY <1>4 DEF Killed, vars
<1> QED BY <1>1, <1>2, <1>3, <1>4 DEF Next, Env

\* The workspace being set up is the last one created, until its marker is written or it is undone.
LEMMA MadeWriters ==
    ASSUME [Next]_vars, <<made, spaces>>' # <<made, spaces>>
    PROVE  \/ CreateSpace
           \/ WriteMarker
           \/ Undo
           \/ UndoFails
           \/ Killed
<1> HIDE DEF CreateSpace, WriteMarker, Undo, UndoFails
<1>1. CASE Env
  BY <1>1 DEF Env
<1>2. CASE Round
  BY <1>2 DEF Round
<1>3. CASE Main
  BY <1>3 DEF Main
<1>4. CASE Killed \/ UNCHANGED vars
  BY <1>4 DEF Killed, vars
<1> QED BY <1>1, <1>2, <1>3, <1>4 DEF Next, Env

\* Trouble is not forgotten.
LEMMA TroubleStays ==
    ASSUME [Next]_vars, trouble
    PROVE  trouble'
<1>1. CASE Env
  BY <1>1 DEF Env
<1>2. CASE Round
  BY <1>2 DEF Round
<1>3. CASE Main
  BY <1>3 DEF Main
<1>4. CASE Killed \/ UNCHANGED vars
  BY <1>4 DEF Killed, vars
<1> QED BY <1>1, <1>2, <1>3, <1>4 DEF Next, Env

\* Only time makes the failures of a session long.
LEMMA LongFailures ==
    ASSUME [Next]_vars, Types, NEW s \in Sessions, failing'[s] = "long"
    PROVE  \/ failing[s] = "long"
           \/ GracePasses(s)
<1> HIDE DEF EndRound, FoundNothing, FoundSession
<1>1. ASSUME failing' = Kept PROVE failing[s] = "long"
  BY <1>1 DEF Kept
<1>2. failing' # None
  BY DEF None
<1>3. CASE Env
  BY <1>3 DEF Types, Env
<1>4. CASE EndRound \/ FoundNothing \/ FoundSession
  BY <1>1, <1>2, <1>4 DEF EndRound, FoundNothing, FoundSession
<1>5. CASE Round /\ ~(EndRound \/ FoundNothing \/ FoundSession)
  BY <1>5 DEF Types, Round
<1>6. CASE Main
  BY <1>2, <1>6 DEF Main
<1>7. CASE Killed \/ UNCHANGED vars
  BY <1>2, <1>7 DEF Killed, vars
<1> QED BY <1>3, <1>4, <1>5, <1>6, <1>7 DEF Next, Env

\* The main thread does not turn away from a workspace that it is setting up.
LEMMA MadeStays ==
    ASSUME [Next]_vars, made' = made, made # 0, main \in {"created", "undo"}
    PROVE  main' \in {"created", "undo"}
<1> USE DEF Running
<1>1. CASE Env
  BY <1>1 DEF Env
<1>2. CASE Round
  BY <1>2 DEF Round
<1>3. CASE Main
  BY <1>3 DEF Main
<1>4. CASE Killed \/ UNCHANGED vars
  BY <1>4 DEF Killed, vars
<1> QED BY <1>1, <1>2, <1>3, <1>4 DEF Next, Env

\* Setting up a dashboard begins with OpenDashboard and stays with its session, ...
LEMMA OpeningSteps ==
    ASSUME [Next]_vars, Types, Opening'
    PROVE  \/ Opening /\ on'["main"] = on["main"]
           \/ \E s \in Sessions : OpenDashboard(s)
<1> HIDE DEF OpenDashboard
<1> USE DEF Types, Opening
<1>1. CASE Env
  BY <1>1 DEF Env
<1>2. CASE Round
  BY <1>2 DEF Round
<1>3. CASE Main
  BY <1>3 DEF Main
<1>4. CASE Killed \/ UNCHANGED vars
  BY <1>4 DEF Killed, vars
<1> QED BY <1>1, <1>2, <1>3, <1>4 DEF Next, Env

\* ... until the main thread has let it go.
LEMMA OpeningStays ==
    ASSUME [Next]_vars, Types, Opening, on'["main"] = on["main"]
    PROVE  \/ Opening'
           \/ on'["main"] = NoSession
<1> USE DEF Types, Opening, Running
<1>1. CASE Env
  BY <1>1 DEF Env
<1>2. CASE Round
  BY <1>2 DEF Round
<1>3. CASE Main
  BY <1>3 DEF Main
<1>4. CASE Killed \/ UNCHANGED vars
  BY <1>4 DEF Killed, vars
<1> QED BY <1>1, <1>2, <1>3, <1>4 DEF Next, Env

\* A clean-up goes on until the worker has let its session go.
LEMMA ExpiryStays ==
    ASSUME [Next]_vars, Types, Busy, Expiry, on'["beat"] = on["beat"]
    PROVE  \/ Expiry'
           \/ on'["beat"] = NoSession
<1> USE DEF Types, Expiry, Busy, Running
<1>1. CASE Env
  BY <1>1 DEF Env
<1>2. CASE Round
  BY <1>2 DEF Round
<1>3. CASE Main
  BY <1>3 DEF Main
<1>4. CASE Killed \/ UNCHANGED vars
  BY <1>4 DEF Killed, vars
<1> QED BY <1>1, <1>2, <1>3, <1>4 DEF Next, Env

\* A thread has orphans only while it closes them.
LEMMA OrphansLeft ==
    ASSUME [Next]_vars, Types, Busy
    PROVE  /\ main' # "orphans" => orphans'["main"] = {}
           /\ beat' # "orphans" => orphans'["beat"] = {}
<1> USE DEF Types, Busy, Running
<1>1. CASE Env
  BY <1>1 DEF Env
<1>2. CASE Round
  BY <1>2 DEF Round
<1>3. CASE Main
  BY <1>3 DEF Main
<1>4. CASE Killed \/ UNCHANGED vars
  BY <1>4 DEF Killed, vars
<1> QED BY <1>1, <1>2, <1>3, <1>4 DEF Next, Env

\* A clean-up begins with Expire and stays with its session.
LEMMA ExpiringSteps ==
    ASSUME [Next]_vars, Types, Busy, beat' \in {"close", "unlink", "remove"}
    PROVE  \/ beat \in {"close", "unlink", "remove"} /\ on'["beat"] = on["beat"]
           \/ \E s \in Sessions : Expire(s)
<1> HIDE DEF Expire
<1> USE DEF Busy, Types
<1>1. CASE Env
  BY <1>1 DEF Env
<1>2. CASE Round
  BY <1>2 DEF Round
<1>3. CASE Main
  BY <1>3 DEF Main
<1>4. CASE Killed \/ UNCHANGED vars
  BY <1>4 DEF Killed, vars
<1> QED BY <1>1, <1>2, <1>3, <1>4 DEF Next, Env

\* The marker is removed after the workspace was closed.
LEMMA ClosedSteps ==
    ASSUME [Next]_vars, beat' = "unlink"
    PROVE  \/ beat = "unlink"
           \/ CloseExpired
<1> HIDE DEF CloseExpired
<1>1. CASE Env
  BY <1>1 DEF Env
<1>2. CASE Round
  BY <1>2 DEF Round
<1>3. CASE Main
  BY <1>3 DEF Main
<1>4. CASE Killed \/ UNCHANGED vars
  BY <1>4 DEF Killed, vars
<1> QED BY <1>1, <1>2, <1>3, <1>4 DEF Next, Env

\* A watcher ends because no session is left, unless it is killed.
LEMMA EndingSteps ==
    ASSUME [Next]_vars, main' \in {"gone", "starting", "leaving"}
    PROVE  \/ main \in {"gone", "starting", "leaving"}
           \/ NoSessionLeft
           \/ trouble'
<1> HIDE DEF NoSessionLeft
<1>1. CASE Env
  BY <1>1 DEF Env
<1>2. CASE Round
  BY <1>2 DEF Round
<1>3. CASE Main
  BY <1>3 DEF Main
<1>4. CASE Killed \/ UNCHANGED vars
  BY <1>4 DEF Killed, vars
<1> QED BY <1>1, <1>2, <1>3, <1>4 DEF Next, Env

\* The main thread closes orphans after a listing, and does not list again meanwhile.
LEMMA OrphansSteps ==
    ASSUME [Next]_vars, Types, main' = "orphans"
    PROVE  \/ main = "orphans" /\ scanning' = scanning /\ todo'["main"] = todo["main"]
           \/ Look
           \/ ListSessions
<1> HIDE DEF Look, ListSessions
<1> USE DEF Types
<1>1. CASE Env
  BY <1>1 DEF Env
<1>2. CASE Round
  BY <1>2 DEF Round
<1>3. CASE Main
  BY <1>3 DEF Main
<1>4. CASE Killed \/ UNCHANGED vars
  BY <1>4 DEF Killed, vars
<1> QED BY <1>1, <1>2, <1>3, <1>4 DEF Next, Env

\* What a step does to the orphans of a thread and to the session it is on.
LEMMA ThreadSteps ==
    ASSUME [Next]_vars, Types, NEW t \in Threads
    PROVE  \/ orphans'[t] = orphans[t] /\ on'[t] = on[t]
           \/ OrphanGone(t) \/ CloseOrphan(t) \/ CloseOrphanFails(t) \/ UnlinkOrphan(t)
           \/ /\ List(t)
              /\ t = "main" => main \in {"wait", "list"}
              /\ t = "beat" => beat = "idle"
           \/ /\ on'[t] = NoSession
              /\ orphans'[t] = orphans[t] \/ (orphans'[t] = {} /\ (t = "main" => trouble'))
           \/ t = "main" /\ \E s \in Sessions : OpenDashboard(s)
           \/ t = "beat" /\ \E s \in Sessions : Expire(s)
<1> USE DEF Types
<1>1. CASE Env
  BY <1>1 DEF Env
<1>2. CASE Killed \/ UNCHANGED vars
  BY <1>2 DEF Killed, vars
<1>3. CASE Round /\ t = "beat"
  <2> HIDE DEF OrphanGone, CloseOrphan, CloseOrphanFails, UnlinkOrphan, List, NextOrphan, Expire
  <2> QED BY <1>3 DEF Round
<1>4. CASE Main /\ t = "main"
  <2> HIDE DEF OrphanGone, CloseOrphan, CloseOrphanFails, UnlinkOrphan, List, NextOrphan, OpenDashboard
  <2> QED BY <1>4 DEF Main
<1>5. CASE Round /\ t = "main"
  BY <1>5 DEF Round
<1>6. CASE Main /\ t = "beat"
  BY <1>6 DEF Main
<1> QED BY <1>1, <1>2, <1>3, <1>4, <1>5, <1>6 DEF Next, Env

-----------------------------------------------------------------------------
(* The values of the variables.                                             *)

\* The initial values.
LEMMA InitTypes == Init => Types
<1> SUFFICES ASSUME Init PROVE Types
  OBVIOUS
<1> USE WatcherAssumption DEF Init
<1>1. None \in [Sessions -> {"no", "some", "long"}]
  BY DEF None
<1>2. 0 \in 0..MaxVersion /\ 0 \in 0..MaxSpace /\ 0 \in 0..EmptyScans
  OBVIOUS
<1>3. /\ todo \in [Threads -> SUBSET Sessions] /\ orphans \in [Threads -> SUBSET Sessions]
      /\ on \in [Threads -> Sessions \cup {NoSession}]
  BY DEF Threads
<1> QED BY <1>1, <1>2, <1>3 DEF Types

\* The files and the wrappers keep their types, ...
LEMMA SessionsTyped ==
    ASSUME Types, [Next]_vars
    PROVE  /\ wrapper' \in [Sessions -> {"new", "waking", "attached", "ended"}]
           /\ channel' \in [Sessions -> 0..MaxVersion] /\ versions' \in 0..MaxVersion
           /\ file' \in [Sessions -> 0..MaxVersion]
<1> USE WatcherAssumption
<1> USE DEF Types
<1>1. CASE Env
  BY <1>1 DEF Env
<1>2. CASE Round
  BY <1>2 DEF Round
<1>3. CASE Main
  BY <1>3 DEF Main
<1>4. CASE Killed \/ UNCHANGED vars
  BY <1>4 DEF Killed, vars
<1> QED BY <1>1, <1>2, <1>3, <1>4 DEF Next, Env

\* ... and so do the markers and workspaces, ...
LEMMA SpacesTyped ==
    ASSUME Types, [Next]_vars
    PROVE  /\ marker' \in [Sessions -> 0..MaxSpace] /\ open' \subseteq Spaces
           /\ spaces' \in 0..MaxSpace /\ made' \in 0..MaxSpace
<1>1. marker' \in [Sessions -> 0..MaxSpace]
  BY MarkerWriters, WatcherAssumption DEF Types, UnlinkOrphan, UnlinkExpired, Unlink, WriteMarker
<1>2. spaces' \in 0..MaxSpace /\ made' \in 0..MaxSpace
  <2>1. CASE CreateSpace
    BY <2>1, WatcherAssumption DEF Types, CreateSpace
  <2>2. CASE WriteMarker \/ Undo \/ UndoFails \/ Killed
    BY <2>2, WatcherAssumption DEF Types, WriteMarker, Undo, UndoFails, Killed
  <2>3. CASE UNCHANGED <<made, spaces>>
    BY <2>3 DEF Types
  <2> QED BY <2>1, <2>2, <2>3, MadeWriters
<1>3. open' \subseteq Spaces
  <2>1. CASE CreateSpace
    BY <2>1, WatcherAssumption DEF Types, CreateSpace, Spaces
  <2>2. CASE ~CreateSpace
    BY <2>2, OpenWriters DEF Types, UserCloses, CloseOrphan, CloseExpired, CloseWorkspace, Undo
  <2> QED BY <2>1, <2>2
<1> QED BY <1>1, <1>2, <1>3

\* ... the places of the threads, ...
LEMMA PlacesTyped ==
    ASSUME Types, [Next]_vars
    PROVE  /\ main' \in {"gone", "starting", "list", "orphans", "sessions", "create",
                        "created", "undo", "wait", "leaving"}
           /\ beat' \in {"idle", "orphans", "beats", "close", "unlink", "remove"}
           /\ scanning' \in BOOLEAN /\ trouble' \in BOOLEAN
<1>1. main' \in {"gone", "starting", "list", "orphans", "sessions", "create",
                 "created", "undo", "wait", "leaving"}
  <2>0. main \in {"gone", "starting", "list", "orphans", "sessions", "create",
                 "created", "undo", "wait", "leaving"}
    BY DEF Types
  <2>1. CASE Env
    BY <2>0, <2>1 DEF Env
  <2>2. CASE Round
    BY <2>0, <2>2 DEF Round
  <2>3. CASE Main
    BY <2>0, <2>3 DEF Main
  <2>4. CASE Killed \/ UNCHANGED vars
    BY <2>0, <2>4 DEF Killed, vars
  <2> QED BY <2>1, <2>2, <2>3, <2>4 DEF Next, Env
<1>2. beat' \in {"idle", "orphans", "beats", "close", "unlink", "remove"}
  <2>0. beat \in {"idle", "orphans", "beats", "close", "unlink", "remove"}
    BY DEF Types
  <2>1. CASE Env
    BY <2>0, <2>1 DEF Env
  <2>2. CASE Round
    BY <2>0, <2>2 DEF Round
  <2>3. CASE Main
    BY <2>0, <2>3 DEF Main
  <2>4. CASE Killed \/ UNCHANGED vars
    BY <2>0, <2>4 DEF Killed, vars
  <2> QED BY <2>1, <2>2, <2>3, <2>4 DEF Next, Env
<1>3. scanning' \in BOOLEAN
  <2>0. scanning \in BOOLEAN
    BY DEF Types
  <2>1. CASE Env
    BY <2>0, <2>1 DEF Env
  <2>2. CASE Round
    BY <2>0, <2>2 DEF Round
  <2>3. CASE Main
    BY <2>0, <2>3 DEF Main
  <2>4. CASE Killed \/ UNCHANGED vars
    BY <2>0, <2>4 DEF Killed, vars
  <2> QED BY <2>1, <2>2, <2>3, <2>4 DEF Next, Env
<1>4. trouble' \in BOOLEAN
  <2>0. trouble \in BOOLEAN
    BY DEF Types
  <2>1. CASE Env
    BY <2>0, <2>1 DEF Env
  <2>2. CASE Round
    BY <2>0, <2>2 DEF Round
  <2>3. CASE Main
    BY <2>0, <2>3 DEF Main
  <2>4. CASE Killed \/ UNCHANGED vars
    BY <2>0, <2>4 DEF Killed, vars
  <2> QED BY <2>1, <2>2, <2>3, <2>4 DEF Next, Env
<1> QED BY <1>1, <1>2, <1>3, <1>4

\* ... what each thread is about, ...
LEMMA ThreadsTyped ==
    ASSUME Types, [Next]_vars
    PROVE  /\ todo' \in [Threads -> SUBSET Sessions] /\ orphans' \in [Threads -> SUBSET Sessions]
           /\ on' \in [Threads -> Sessions \cup {NoSession}]
<1>1. todo' \in [Threads -> SUBSET Sessions]
  <2>0. todo \in [Threads -> SUBSET Sessions] /\ listed \subseteq Sessions
    BY DEF Types
  <2>1. CASE Env
    BY <2>0, <2>1, WatcherAssumption DEF Env
  <2>2. CASE Round
    BY <2>0, <2>2, WatcherAssumption DEF Round
  <2>3. CASE Main
    BY <2>0, <2>3, WatcherAssumption DEF Main
  <2>4. CASE Killed \/ UNCHANGED vars
    BY <2>0, <2>4, WatcherAssumption DEF Killed, vars
  <2> QED BY <2>1, <2>2, <2>3, <2>4 DEF Next, Env
<1>2. orphans' \in [Threads -> SUBSET Sessions]
  <2>0. orphans \in [Threads -> SUBSET Sessions] /\ todo \in [Threads -> SUBSET Sessions] /\ listed \subseteq Sessions
    BY DEF Types
  <2>1. CASE Env
    BY <2>0, <2>1, WatcherAssumption DEF Env
  <2>2. CASE Round
    BY <2>0, <2>2, WatcherAssumption DEF Round
  <2>3. CASE Main
    BY <2>0, <2>3, WatcherAssumption DEF Main
  <2>4. CASE Killed \/ UNCHANGED vars
    BY <2>0, <2>4, WatcherAssumption DEF Killed, vars
  <2> QED BY <2>1, <2>2, <2>3, <2>4 DEF Next, Env
<1>3. on' \in [Threads -> Sessions \cup {NoSession}]
  <2>0. on \in [Threads -> Sessions \cup {NoSession}] /\ todo \in [Threads -> SUBSET Sessions]
        /\ orphans \in [Threads -> SUBSET Sessions] /\ listed \subseteq Sessions
    BY DEF Types
  <2>1. CASE Env
    BY <2>0, <2>1, WatcherAssumption DEF Env
  <2>2. CASE Round
    BY <2>0, <2>2, WatcherAssumption DEF Round
  <2>3. CASE Main
    BY <2>0, <2>3, WatcherAssumption DEF Main
  <2>4. CASE Killed \/ UNCHANGED vars
    BY <2>0, <2>4, WatcherAssumption DEF Killed, vars
  <2> QED BY <2>1, <2>2, <2>3, <2>4 DEF Next, Env
<1> QED BY <1>1, <1>2, <1>3

\* ... and the heartbeats.
LEMMA RoundTyped ==
    ASSUME Types, [Next]_vars
    PROVE  /\ listed' \subseteq Sessions /\ failing' \in [Sessions -> {"no", "some", "long"}]
           /\ empty' \in 0..EmptyScans
<1>1. listed' \subseteq Sessions
  <2>0. listed \subseteq Sessions /\ todo \in [Threads -> SUBSET Sessions]
    BY DEF Types
  <2>1. CASE Env
    BY <2>0, <2>1, WatcherAssumption DEF Env, None, Kept
  <2>2. CASE Round
    BY <2>0, <2>2, WatcherAssumption DEF Round, None, Kept
  <2>3. CASE Main
    BY <2>0, <2>3, WatcherAssumption DEF Main, None, Kept
  <2>4. CASE Killed \/ UNCHANGED vars
    BY <2>0, <2>4, WatcherAssumption DEF Killed, vars, None, Kept
  <2> QED BY <2>1, <2>2, <2>3, <2>4 DEF Next, Env
<1>2. failing' \in [Sessions -> {"no", "some", "long"}]
  <2>0. failing \in [Sessions -> {"no", "some", "long"}]
    BY DEF Types
  <2>1. CASE Env
    BY <2>0, <2>1, WatcherAssumption DEF Env, None, Kept
  <2>2. CASE Round
    BY <2>0, <2>2, WatcherAssumption DEF Round, None, Kept
  <2>3. CASE Main
    BY <2>0, <2>3, WatcherAssumption DEF Main, None, Kept
  <2>4. CASE Killed \/ UNCHANGED vars
    BY <2>0, <2>4, WatcherAssumption DEF Killed, vars, None, Kept
  <2> QED BY <2>1, <2>2, <2>3, <2>4 DEF Next, Env
<1>3. empty' \in 0..EmptyScans
  <2>0. empty \in 0..EmptyScans
    BY DEF Types
  <2>1. CASE Env
    BY <2>0, <2>1, WatcherAssumption DEF Env, None, Kept
  <2>2. CASE Round
    BY <2>0, <2>2, WatcherAssumption DEF Round, None, Kept
  <2>3. CASE Main
    BY <2>0, <2>3, WatcherAssumption DEF Main, None, Kept
  <2>4. CASE Killed \/ UNCHANGED vars
    BY <2>0, <2>4, WatcherAssumption DEF Killed, vars, None, Kept
  <2> QED BY <2>1, <2>2, <2>3, <2>4 DEF Next, Env
<1> QED BY <1>1, <1>2, <1>3

\* All variables keep their types.
LEMMA TypesStep == ASSUME Types, [Next]_vars PROVE Types'
BY SessionsTyped, SpacesTyped, PlacesTyped, ThreadsTyped, RoundTyped DEF Types

HIDE DEF Publish, Wake, Spawn, Hook, LinkLost, Exit, GracePasses, UserCloses
HIDE DEF Begin, BeatTidied, Heartbeat, HeartbeatFails, Expire, Expiring, CloseExpired, NoDashboard,
    UnlinkExpired, RemoveSession, CloseExpiredFails, AlreadyGone, AbortRound, RoundOver,
    EndRound, FoundNothing, FoundSession
HIDE DEF Tidy, OrphanGone, CloseOrphan, CloseOrphanFails, UnlinkOrphan
HIDE DEF Look, ListSessions, StartScan, Tidied, NoEvent, Event, Resubscribe, NoSessionLeft, Goto,
    ScanOnly, OpenDashboard, CreateSpace, CreateFails, WriteMarker, DashboardFails, Undo,
    UndoFails, EndScan, Leave, NextSession
HIDE DEF Threads, Forget, List, NextOrphan, NextBeat, CloseWorkspace, CloseFails,
    Unlink

-----------------------------------------------------------------------------
(* The other parts of the invariant.                                       *)

\* The other parts hold initially.
LEMMA InitOthers == Init => Life /\ Names /\ Opened /\ Expired /\ Busy /\ Tidying /\ Known
BY WatcherAssumption DEF Init, Life, Names, Opened, Opening, Expired, Expiry, Busy, Tidying,
   Known, None, Threads

\* A wrapper that has ended stays ended, and none becomes new again.
LEMMA WrapperSteps ==
    ASSUME Types, [Next]_vars, NEW s \in Sessions
    PROVE  /\ wrapper[s] = "ended" => wrapper'[s] = "ended"
           /\ wrapper'[s] = "new" => wrapper[s] = "new"
<1>1. CASE UNCHANGED <<wrapper, channel>>
  BY <1>1
<1>2. CASE \E r \in Sessions : Publish(r) \/ Wake(r) \/ LinkLost(r) \/ Exit(r)
  BY <1>2 DEF Types, Publish, Wake, LinkLost, Exit
<1> QED BY <1>1, <1>2, WrapperWriters

\* The marker of a session that an orphan's thread, or the clean-up, removes.
LEMMA MarkerSteps ==
    ASSUME IInv, [Next]_vars, NEW s \in Sessions, marker'[s] # marker[s]
    PROVE  \/ marker'[s] = 0 /\ wrapper[s] = "ended" /\ marker[s] \notin open
           \/ /\ WriteMarker /\ s = on["main"]
              /\ marker'[s] = made /\ marker[s] = 0 /\ wrapper[s] # "new"
<1> USE DEF IInv, Types, Unlink
<1>1. ASSUME NEW t \in Threads, UnlinkOrphan(t)
      PROVE  marker'[s] = 0 /\ wrapper[s] = "ended" /\ marker[s] \notin open
  BY <1>1 DEF UnlinkOrphan, Tidying
<1>2. CASE UnlinkExpired
  BY <1>2 DEF UnlinkExpired, Expiring, Expired, Expiry
<1>3. CASE WriteMarker
  BY <1>3 DEF WriteMarker, Opened, Opening, Goto
<1> QED BY <1>1, <1>2, <1>3, MarkerWriters

\* A session file goes only when its wrapper has ended.
LEMMA FileSteps ==
    ASSUME IInv, [Next]_vars, NEW s \in Sessions, file'[s] # file[s]
    PROVE  \/ Publish(s) /\ file'[s] # 0
           \/ file'[s] = 0 /\ wrapper'[s] = "ended"
<1> USE DEF IInv, Types
<1>1. ASSUME NEW r \in Sessions, Publish(r) PROVE Publish(s) /\ file'[s] # 0
  <2>1. versions' # 0
    BY <1>1 DEF Publish
  <2>2. r = s
    BY <1>1 DEF Publish
  <2> QED BY <1>1, <2>1, <2>2 DEF Publish
<1>2. ASSUME NEW r \in Sessions, Exit(r) PROVE file'[s] = 0 /\ wrapper'[s] = "ended"
  BY <1>2 DEF Exit
<1>3. CASE RemoveSession
  BY <1>3 DEF RemoveSession, Expiring, Expired, Expiry
<1> QED BY <1>1, <1>2, <1>3, FileWriters

\* A session's files and failures fit its wrapper.
LEMMA LifeStep == ASSUME IInv, [Next]_vars PROVE Life'
<1> SUFFICES ASSUME NEW s \in Sessions
             PROVE  /\ wrapper'[s] = "new" => file'[s] = 0 /\ marker'[s] = 0
                    /\ wrapper'[s] \in {"waking", "attached"} => file'[s] # 0
                    /\ wrapper'[s] = "ended" => channel'[s] = 0
                    /\ failing'[s] = "long" => wrapper'[s] = "ended"
  BY DEF Life
<1> USE DEF IInv, Types, Life
<1>1. wrapper'[s] = "new" => file'[s] = 0 /\ marker'[s] = 0
  BY WrapperSteps, FileSteps, MarkerSteps DEF Publish
<1>2. wrapper'[s] \in {"waking", "attached"} => file'[s] # 0
  <2>1. CASE UNCHANGED <<wrapper, channel>>
    BY <2>1, FileSteps
  <2>2. ASSUME NEW r \in Sessions, Publish(r) \/ Wake(r) \/ LinkLost(r) \/ Exit(r)
        PROVE  wrapper'[s] \in {"waking", "attached"} => file'[s] # 0
    BY <2>2, WatcherAssumption DEF Publish, Wake, Spawn, LinkLost, Exit
  <2> QED BY <2>1, <2>2, WrapperWriters
<1>3. wrapper'[s] = "ended" => channel'[s] = 0
  <2>1. CASE UNCHANGED <<wrapper, channel>>
    BY <2>1
  <2>2. ASSUME NEW r \in Sessions, Publish(r) \/ Wake(r) \/ LinkLost(r) \/ Exit(r)
        PROVE  wrapper'[s] = "ended" => channel'[s] = 0
    BY <2>2 DEF Publish, Wake, Spawn, LinkLost, Exit
  <2> QED BY <2>1, <2>2, WrapperWriters
<1>4. failing'[s] = "long" => wrapper'[s] = "ended"
  BY LongFailures, WrapperSteps DEF GracePasses
<1> QED BY <1>1, <1>2, <1>3, <1>4

\* The main thread sets up a dashboard of a session that has none.
LEMMA OpenedStep == ASSUME IInv, [Next]_vars PROVE Opened'
<1> SUFFICES ASSUME Opening'
             PROVE  /\ on'["main"] \in Sessions /\ marker'[on'["main"]] = 0
                    /\ wrapper'[on'["main"]] # "new"
  BY DEF Opened
<1> USE DEF IInv
<1>1. CASE Opening /\ on'["main"] = on["main"]
  <2>1. on["main"] \in Sessions /\ marker[on["main"]] = 0 /\ wrapper[on["main"]] # "new"
    BY <1>1 DEF Opened
  <2>2. ~WriteMarker
    BY DEF Opening, WriteMarker, Goto
  <2> QED BY <1>1, <2>1, <2>2, WrapperSteps, MarkerSteps
<1>2. ASSUME NEW s \in Sessions, OpenDashboard(s)
      PROVE  on'["main"] \in Sessions /\ marker'[on'["main"]] = 0 /\ wrapper'[on'["main"]] # "new"
  BY <1>2 DEF OpenDashboard, Goto, Reachable, Types, Threads, Life
<1> QED BY <1>1, <1>2, OpeningSteps

\* A session that is opened is none whose wrapper has ended.
LEMMA OpenedAlive ==
    ASSUME IInv, NEW s \in Sessions, OpenDashboard(s)
    PROVE  wrapper[s] # "ended"
BY DEF IInv, Life, Types, OpenDashboard, Reachable

\* A session whose wrapper has ended gets no marker, and its workspace, once closed, stays so.
LEMMA EndedStaysClosed ==
    ASSUME IInv, [Next]_vars, NEW s \in Sessions, wrapper[s] = "ended", marker[s] \notin open,
           ~(Opening /\ on["main"] = s)
    PROVE  marker'[s] \notin open'
<1> USE DEF IInv
<1>1. marker'[s] = marker[s] \/ marker'[s] = 0
  BY MarkerSteps DEF WriteMarker, Goto, Opening
<1>2. 0 \notin open'
  BY TypesStep DEF Types, Spaces
<1>3. \A w \in open' : w \in open \/ w = spaces + 1
  BY OpenWriters DEF UserCloses, CloseOrphan, CloseWorkspace, CloseExpired, CreateSpace, Undo
<1>4. marker[s] # spaces + 1
  BY WatcherAssumption DEF Names, Types
<1> QED BY <1>1, <1>2, <1>3, <1>4

\* ... nor is one being set up later.
LEMMA EndedStaysShut ==
    ASSUME IInv, [Next]_vars, NEW s \in Sessions, wrapper[s] = "ended", ~(Opening /\ on["main"] = s)
    PROVE  ~(Opening' /\ on'["main"] = s)
<1>1. ASSUME NEW r \in Sessions, OpenDashboard(r) PROVE on'["main"] # s
  BY <1>1, OpenedAlive DEF IInv, OpenDashboard, Types, Threads
<1> QED BY <1>1, OpeningSteps DEF IInv

\* Markers name different workspaces.
LEMMA NamesStep == ASSUME IInv, [Next]_vars PROVE Names'
<1> USE DEF IInv
<1>1. \A s \in Sessions : marker'[s] # 0 =>
           \/ marker'[s] = marker[s]
           \/ WriteMarker /\ s = on["main"] /\ marker'[s] = made
  BY MarkerSteps
<1>2. spaces \in Nat /\ spaces' \in Nat /\ made \in Nat /\ \A s \in Sessions : marker[s] \in Nat
  BY TypesStep, WatcherAssumption DEF Types
<1>3. CASE CreateSpace
  <2>1. UNCHANGED marker /\ spaces' = spaces + 1 /\ made' = spaces' /\ open' = open \cup {spaces'}
        /\ main' = "created"
    BY <1>3 DEF CreateSpace, Goto
  <2>2. open \subseteq Nat
    BY DEF Types, Spaces
  <2> QED BY <2>1, <2>2, <1>2 DEF Names
<1>4. CASE WriteMarker
  BY <1>1, <1>2, <1>4 DEF Names, WriteMarker, Goto
<1>5. CASE Undo \/ UndoFails \/ Killed
  BY <1>1, <1>2, <1>5 DEF Names, Undo, UndoFails, Killed, Goto, WriteMarker
<1>6. CASE UNCHANGED <<made, spaces>> /\ ~WriteMarker /\ ~CreateSpace
  <2>1. open' \subseteq open
    BY <1>6, OpenWriters DEF UserCloses, CloseOrphan, CloseWorkspace, CloseExpired, Undo
  <2>2. made # 0 => main' \in {"created", "undo"}
    BY <1>6, MadeStays DEF Names
  <2> QED BY <1>1, <1>2, <1>6, <2>1, <2>2 DEF Names
<1> QED BY <1>3, <1>4, <1>5, <1>6, MadeWriters

\* A clean-up is one of an ended wrapper, and what it closed stays closed.
LEMMA ExpiredStep == ASSUME IInv, [Next]_vars PROVE Expired'
<1> USE DEF IInv
<1>1. ASSUME Expiry'
      PROVE  on'["beat"] \in Sessions /\ wrapper'[on'["beat"]] = "ended"
  <2>1. CASE Expiry /\ on'["beat"] = on["beat"]
    BY <2>1, WrapperSteps DEF Expired
  <2>2. ASSUME NEW s \in Sessions, Expire(s)
        PROVE  on'["beat"] \in Sessions /\ wrapper'[on'["beat"]] = "ended"
    BY <2>2 DEF Expire, Types, Threads, Life
  <2> QED BY <1>1, <2>1, <2>2, ExpiringSteps DEF Expiry
<1>2. ASSUME beat' = "unlink"
      PROVE  marker'[on'["beat"]] \notin open' /\ ~(Opening' /\ on'["main"] = on'["beat"])
  <2> DEFINE s == on'["beat"]
  <2>1. CASE CloseExpired
    <3>1. marker'[s] \notin open' /\ marker[s] # 0 /\ s \in Sessions /\ UNCHANGED <<main, on>>
      BY <2>1 DEF CloseExpired, Expiring, CloseWorkspace, Types, Expired, Expiry
    <3> QED BY <3>1 DEF Opened, Opening
  <2>2. CASE beat = "unlink"
    <3>1. on'["beat"] = on["beat"]
      BY <1>2, <2>2, ExpiringSteps DEF Expire
    <3>2. /\ s \in Sessions /\ wrapper[s] = "ended" /\ marker[s] \notin open
          /\ ~(Opening /\ on["main"] = s)
      BY <2>2, <3>1 DEF Expired, Expiry
    <3> QED BY <3>2, EndedStaysClosed, EndedStaysShut
  <2> QED BY <1>2, <2>1, <2>2, ClosedSteps
<1> QED BY <1>1, <1>2 DEF Expired

\* A thread is on a session only for a purpose.
LEMMA BusyStep == ASSUME IInv, [Next]_vars PROVE Busy'
<1> USE DEF IInv
<1>1. ASSUME on'["main"] # NoSession
      PROVE  on'["main"] \in orphans'["main"] \/ Opening'
  <2>1. CASE orphans'["main"] = orphans["main"] /\ on'["main"] = on["main"]
    BY <1>1, <2>1, OpeningStays DEF Busy
  <2>2. CASE OrphanGone("main") \/ CloseOrphanFails("main") \/ UnlinkOrphan("main")
    BY <1>1, <2>2 DEF OrphanGone, CloseOrphanFails, UnlinkOrphan, NextOrphan, Types, Threads
  <2>3. CASE CloseOrphan("main")
    BY <1>1, <2>3 DEF CloseOrphan, Types, Threads
  <2>4. CASE List("main") /\ main \in {"wait", "list"}
    BY <1>1, <2>4 DEF List, Busy, Opening
  <2>5. ASSUME NEW s \in Sessions, OpenDashboard(s) PROVE Opening'
    BY <2>5 DEF OpenDashboard, Goto, Opening
  <2> QED BY <1>1, <2>1, <2>2, <2>3, <2>4, <2>5, ThreadSteps DEF Threads
<1>2. ASSUME on'["beat"] # NoSession
      PROVE  on'["beat"] \in orphans'["beat"] \/ Expiry'
  <2>1. CASE orphans'["beat"] = orphans["beat"] /\ on'["beat"] = on["beat"]
    BY <1>2, <2>1, ExpiryStays DEF Busy
  <2>2. CASE OrphanGone("beat") \/ CloseOrphanFails("beat") \/ UnlinkOrphan("beat")
    BY <1>2, <2>2 DEF OrphanGone, CloseOrphanFails, UnlinkOrphan, NextOrphan, Types, Threads
  <2>3. CASE CloseOrphan("beat")
    BY <1>2, <2>3 DEF CloseOrphan, Types, Threads
  <2>4. CASE List("beat") /\ beat = "idle"
    BY <1>2, <2>4 DEF List, Busy, Expiry
  <2>5. ASSUME NEW s \in Sessions, Expire(s) PROVE Expiry'
    BY <2>5 DEF Expire, Expiry
  <2> QED BY <1>2, <2>1, <2>2, <2>3, <2>4, <2>5, ThreadSteps DEF Threads
<1>3. main' # "orphans" => orphans'["main"] = {}
  BY OrphansLeft DEF Busy
<1>4. beat' # "orphans" => orphans'["beat"] = {}
  BY OrphansLeft DEF Busy
<1> QED BY <1>1, <1>2, <1>3, <1>4 DEF Busy

\* Orphans are what is left of ended wrappers.
LEMMA TidyingStep == ASSUME IInv, [Next]_vars PROVE Tidying'
<1> SUFFICES ASSUME NEW t \in Threads
             PROVE  /\ \A s \in orphans'[t] :
                         wrapper'[s] = "ended" /\ ~(Opening' /\ on'["main"] = s)
                    /\ on'[t] \in orphans'[t] => marker'[on'[t]] \notin open'
  BY DEF Tidying
<1> USE DEF IInv
<1>1. ASSUME NEW s \in Sessions, wrapper[s] = "ended", ~(Opening /\ on["main"] = s)
      PROVE  wrapper'[s] = "ended" /\ ~(Opening' /\ on'["main"] = s)
  BY <1>1, WrapperSteps, EndedStaysShut
<1>2. orphans[t] \subseteq Sessions /\ orphans'[t] \subseteq Sessions
  BY TypesStep DEF Types
<1>3. CASE orphans'[t] \subseteq orphans[t]
  <2>1. \A s \in orphans'[t] : wrapper'[s] = "ended" /\ ~(Opening' /\ on'["main"] = s)
    BY <1>1, <1>2, <1>3 DEF Tidying
  <2>2. ASSUME on'[t] \in orphans'[t] PROVE marker'[on'[t]] \notin open'
    <3> DEFINE s == on'[t]
    <3>1. s \in Sessions /\ s \in orphans[t] /\ wrapper[s] = "ended" /\ ~(Opening /\ on["main"] = s)
      BY <1>2, <1>3, <2>2 DEF Tidying
    <3>2. CASE CloseOrphan(t)
      BY <3>1, <3>2 DEF CloseOrphan, CloseWorkspace, Types
    <3>3. CASE on'[t] = on[t]
      BY <3>1, <3>3, EndedStaysClosed DEF Tidying
    <3>4. s # NoSession
      BY <3>1, WatcherAssumption
    <3>5. ~(OrphanGone(t) \/ CloseOrphanFails(t) \/ UnlinkOrphan(t))
      BY <3>4 DEF OrphanGone, CloseOrphanFails, UnlinkOrphan, NextOrphan, Types
    <3>6. ~(t = "main" /\ \E r \in Sessions : OpenDashboard(r))
      BY <3>1 DEF Busy, OpenDashboard, Goto
    <3>7. ~(t = "beat" /\ \E r \in Sessions : Expire(r))
      BY <3>1 DEF Busy, Expire
    <3>8. ~(List(t) /\ (t = "main" => main \in {"wait", "list"}) /\ (t = "beat" => beat = "idle"))
      BY <3>4 DEF List, Busy, Opening, Expiry, Threads, Types
    <3> QED BY <3>2, <3>3, <3>4, <3>5, <3>6, <3>7, <3>8, ThreadSteps
  <2> QED BY <2>1, <2>2
<1>4. CASE List(t) /\ (t = "main" => main \in {"wait", "list"}) /\ (t = "beat" => beat = "idle")
  <2>1. on'[t] = NoSession
    BY <1>4 DEF List, Busy, Opening, Expiry, Threads, Types
  <2>2. ASSUME NEW s \in orphans'[t] PROVE wrapper[s] = "ended" /\ ~(Opening /\ on["main"] = s)
    BY <1>2, <1>4 DEF List, Life, Opened, Types
  <2>3. on'[t] \notin orphans'[t]
    BY <1>2, <2>1, WatcherAssumption
  <2> QED BY <1>1, <1>2, <2>2, <2>3
<1>5. CASE OrphanGone(t) \/ CloseOrphan(t) \/ CloseOrphanFails(t) \/ UnlinkOrphan(t)
  <2>1. orphans'[t] \subseteq orphans[t]
    BY <1>5 DEF OrphanGone, CloseOrphan, CloseOrphanFails, UnlinkOrphan, NextOrphan, Types
  <2> QED BY <1>3, <2>1, <1>4
<1> QED BY <1>3, <1>4, <1>5, ThreadSteps DEF OpenDashboard, Expire

\* An orphan whose workspace is open stays on the list of the round.
LEMMA OpenOrphanStays ==
    ASSUME IInv, [Next]_vars, NEW s \in orphans["main"], marker[s] \in open,
           main = "orphans", main' = "orphans", ~trouble'
    PROVE  s \in orphans'["main"]
<1> USE DEF IInv
<1>1. s \in Sessions /\ marker[s] # 0
  BY DEF Types, Threads, Spaces
<1>2. CASE OrphanGone("main") \/ CloseOrphan("main")
  BY <1>1, <1>2 DEF OrphanGone, CloseOrphan, NextOrphan, Types, Threads
<1>3. CASE CloseOrphanFails("main")
  BY <1>3 DEF CloseOrphanFails, CloseFails
<1>4. CASE UnlinkOrphan("main")
  BY <1>4 DEF UnlinkOrphan, NextOrphan, Tidying, Types, Threads
<1>5. ASSUME NEW r \in Sessions PROVE ~OpenDashboard(r)
  BY DEF OpenDashboard, Goto
<1> QED BY <1>1, <1>2, <1>3, <1>4, <1>5, ThreadSteps DEF Threads

\* What Herdr shows is known.
LEMMA KnownStep == ASSUME IInv, [Next]_vars PROVE Known'
<1> SUFFICES ASSUME ~trouble'
             PROVE  Known'
  BY DEF Known
<1> USE DEF IInv
<1>1. /\ ~trouble
      /\ \A w \in open : made = w \/ \E s \in Sessions : marker[s] = w
      /\ main \in {"gone", "starting", "leaving"} => open = {}
      /\ main = "orphans" /\ ~scanning /\ todo["main"] = {} =>
           \A w \in open : \E s \in orphans["main"] : marker[s] = w
  BY TroubleStays DEF Known
<1>2. 0 \notin open /\ 0 \notin open'
  BY TypesStep DEF Types, Spaces
\* What a marker names is named as long as it is open.
<1>3. ASSUME NEW s \in Sessions, marker[s] \in open PROVE marker'[s] = marker[s]
  BY <1>2, <1>3, MarkerSteps
<1>4. CASE CreateSpace
  <2>1. main = "create" /\ main' = "created" /\ made' = spaces + 1 /\ open' = open \cup {spaces + 1}
    BY <1>4 DEF CreateSpace, Goto
  <2>2. made = 0
    BY <2>1 DEF Names
  <2> QED BY <1>1, <1>2, <1>3, <2>1, <2>2 DEF Known
<1>5. CASE ~CreateSpace
  <2>1. open' \subseteq open
    BY <1>5, OpenWriters DEF UserCloses, CloseOrphan, CloseWorkspace, CloseExpired, Undo
  <2>2. ASSUME NEW w \in open' PROVE made' = w \/ \E s \in Sessions : marker'[s] = w
    <3>1. CASE \E s \in Sessions : marker[s] = w
      BY <1>3, <2>1, <3>1
    <3>2. CASE made = w /\ made' # made
      <4>1. CASE WriteMarker
        BY <3>2, <4>1 DEF WriteMarker, Goto, Opened, Opening, Types
      <4>2. CASE Undo
        BY <3>2, <4>2 DEF Undo
      <4>3. ~UndoFails /\ ~Killed
        BY DEF UndoFails, Killed
      <4> QED BY <1>5, <3>2, <4>1, <4>2, <4>3, MadeWriters
    <3> QED BY <1>1, <2>1, <3>1, <3>2
  <2>3. ASSUME main' \in {"gone", "starting", "leaving"} PROVE open' = {}
    <3>1. CASE NoSessionLeft
      BY <1>1, <2>1, <3>1 DEF NoSessionLeft, Goto, Tidied
    <3> QED BY <1>1, <2>1, <2>3, <3>1, EndingSteps
  <2>4. ASSUME main' = "orphans", ~scanning', todo'["main"] = {}, NEW w \in open'
        PROVE  \E s \in orphans'["main"] : marker'[s] = w
    <3>1. CASE main = "orphans" /\ scanning' = scanning /\ todo'["main"] = todo["main"]
      <4>1. PICK s \in orphans["main"] : marker[s] = w
        BY <1>1, <2>1, <2>4, <3>1
      <4>2. s \in Sessions /\ marker'[s] = w
        BY <1>3, <2>1, <4>1 DEF Types, Threads
      <4>3. s \in orphans'["main"]
        BY <2>1, <2>4, <3>1, <4>1, OpenOrphanStays
      <4> QED BY <4>2, <4>3
    <3>2. CASE Look
      <4>1. made = 0 /\ UNCHANGED <<file, marker>>
        BY <3>2 DEF Look, Goto, Names
      <4>2. PICK s \in Sessions : marker[s] = w
        BY <1>1, <1>2, <2>1, <4>1
      <4>3. file[s] = 0
        BY <2>4, <3>2 DEF Look, List, Types, Threads
      <4>4. s \in orphans'["main"]
        BY <1>2, <3>2, <4>2, <4>3 DEF Look, List, Types, Threads
      <4> QED BY <4>1, <4>2, <4>4
    <3>3. ~ListSessions
      BY <2>4 DEF ListSessions
    <3> QED BY <2>4, <3>1, <3>2, <3>3, OrphansSteps
  <2> QED BY <2>2, <2>3, <2>4 DEF Known
<1> QED BY <1>4, <1>5

\* The invariant holds.
LEMMA Invariant == Spec => []IInv
<1>1. Init => IInv
  BY InitTypes, InitOthers DEF IInv
<1>2. IInv /\ [Next]_vars => IInv'
  <2> SUFFICES ASSUME IInv, [Next]_vars PROVE IInv'
    OBVIOUS
  <2> QED BY TypesStep, LifeStep, NamesStep, OpenedStep, ExpiredStep, BusyStep, TidyingStep,
            KnownStep DEF IInv
<1> QED BY <1>1, <1>2, PTL DEF Spec

-----------------------------------------------------------------------------
(* What the watcher promises.                                              *)

\* Nothing that watchers open is lost track of: ...
THEOREM WatcherKeepsTrack == Spec => []NothingStrays
<1>1. IInv => NothingStrays
  <2> SUFFICES ASSUME IInv PROVE NothingStrays
    OBVIOUS
  <2>1. TypeOK
    BY DEF IInv, Types, Threads, Names, TypeOK
  <2>2. NoStraySpace /\ NothingAbandoned
    BY DEF IInv, Known, NoStraySpace, NothingAbandoned
  <2> QED BY <2>1, <2>2 DEF NothingStrays
<1> QED BY <1>1, Invariant, PTL

\* A dashboard is closed under nobody.
THEOREM WatcherSparesTheRunning == Spec => RunningIsKept
<1>1. ASSUME IInv, [Next]_vars, NEW s \in Sessions, wrapper[s] # "ended", wrapper' = wrapper
      PROVE  /\ file[s] # 0 => file'[s] # 0
             /\ marker[s] # 0 => marker'[s] = marker[s]
             /\ marker[s] \in open \ open' => UNCHANGED <<main, beat, on>>
  <2> USE <1>1 DEF IInv
  <2>1. file[s] # 0 => file'[s] # 0
    BY FileSteps
  <2>2. marker[s] # 0 => marker'[s] = marker[s]
    BY MarkerSteps
  <2>3. ASSUME marker[s] \in open, marker[s] \notin open'
        PROVE  UNCHANGED <<main, beat, on>>
    <3>1. marker[s] # 0
      BY <2>3 DEF Types, Spaces
    <3>2. ASSUME NEW t \in Threads PROVE ~CloseOrphan(t)
      BY <2>3, <3>1 DEF CloseOrphan, CloseWorkspace, Tidying, Names, Types
    <3>3. ~CloseExpired
      BY <2>3, <3>1 DEF CloseExpired, Expiring, CloseWorkspace, Expired, Expiry, Names
    <3>4. ~Undo /\ ~CreateSpace
      BY <2>3, <3>1 DEF Undo, CreateSpace, Names
    <3>5. PICK w \in Spaces : UserCloses(w)
      BY <2>3, <3>2, <3>3, <3>4, OpenWriters
    <3> QED BY <3>5 DEF UserCloses
  <2> QED BY <2>1, <2>2, <2>3
<1>2. IInv /\ [Next]_vars =>
        [\A s \in Sessions : wrapper[s] # "ended" /\ wrapper' = wrapper =>
           /\ file[s] # 0 => file'[s] # 0
           /\ marker[s] # 0 => marker'[s] = marker[s]
           /\ marker[s] \in open \ open' => UNCHANGED <<main, beat, on>>]_vars
  BY <1>1
<1> QED BY <1>2, Invariant, PTL DEF Spec, RunningIsKept
=============================================================================
