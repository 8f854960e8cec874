------------------------------ MODULE Transport ------------------------------
(***************************************************************************)
(* The wrapper's threads around one SSH connection: the main thread        *)
(* (run_attach and the end of run in src/bin/local/cli.rs), the transport  *)
(* supervisor (src/bin/local/transport.rs), the request threads of the     *)
(* companion server (src/bin/local/companion.rs), and, on the other side,  *)
(* the remote watcher that sends heartbeats through the reverse tunnel.    *)
(*                                                                         *)
(* What happens under the registry's mutex is one step here (Registry.tla  *)
(* and Preferences.tla open it up).  SSH masters are numbered in the order *)
(* they are started; the control path names whichever is alive.  Clocks    *)
(* appear only as what has run out: the lease and the recovery's deadline. *)
(*                                                                         *)
(* A definition named ...Faulty is a slip in the definition after it that  *)
(* one of the properties at the end must notice.                           *)
(***************************************************************************)
EXTENDS Naturals, FiniteSets

CONSTANTS
    Requests,       \* request threads that change the registry
    Endpoints,      \* remote services that can be forwarded
    MaxMasters      \* bound on the SSH masters started

ASSUME MastersAssumption == MaxMasters \in Nat \ {0}

VARIABLES
    main,           \* where the main thread is
    stop,           \* the supervisor's stop flag
    sup,            \* where the supervisor is
    reconnecting,   \* CompanionState::reconnecting
    cur,            \* the master the supervisor owns; 0 if none
    masters,        \* how many masters have been started
    alive,          \* the masters that run
    deadline,       \* has the recovery's budget of 30 seconds run out?
    lease,          \* last_heartbeat: none yet, fresh, or older than 10 seconds
    resumed,        \* last_heartbeat >= attempt_started
    via,            \* the master whose tunnel brought the last heartbeat (history)
    beats,          \* heartbeats received and not handled yet, by their master
    published,      \* the master the remote session file points to; 0 if removed
    request,        \* is a request thread past the check of reconnecting?
    forwards,       \* the enabled forwards of the registry
    served,         \* the forwards the running master has a tunnel for
    stateFile       \* does the session's state file exist?

thread == <<main, stop>>
recovery == <<reconnecting, deadline, resumed>>
link == <<cur, masters, alive>>
watcher == <<lease, via, beats>>
registry == <<forwards, served, stateFile>>
vars == <<thread, sup, recovery, link, watcher, published, request, registry>>

Masters == 1..MaxMasters

-----------------------------------------------------------------------------
(* The supervisor.                                                         *)

\* The condition every loop of a recovery is left on. It is read before a step and may
\* become true during the step, so that only the start of an attempt depends on it.
Stopped == stop \/ deadline

\* child.kill and wait.
TerminateFaulty(m) == UNCHANGED <<alive, served>>
Terminate(m) ==
    /\ alive' = alive \ {m}
    /\ served' = IF m \in alive THEN {} ELSE served

\* The master has exited or the lease has expired: refuse requests, get rid of the
\* master, and start the 30 seconds.
Detect ==
    /\ sup = "watch" /\ ~stop
    /\ cur \notin alive \/ lease = "expired"
    /\ sup' = "attempt" /\ reconnecting' = TRUE /\ deadline' = FALSE
    /\ Terminate(cur) /\ cur' = 0
    /\ UNCHANGED <<thread, resumed, masters, watcher, published, request, forwards, stateFile>>

\* attempt_started is set.
StartAttempt ==
    /\ sup = "attempt" /\ ~Stopped
    /\ sup' = "connect" /\ resumed' = FALSE
    /\ UNCHANGED <<thread, reconnecting, deadline, link, watcher, published, request, registry>>

\* OwnedMaster::reconnect
Connect ==
    /\ sup = "connect" /\ masters < MaxMasters
    /\ masters' = masters + 1 /\ cur' = masters' /\ alive' = alive \cup {masters'}
    /\ sup' = "reverse"
    /\ UNCHANGED <<thread, recovery, watcher, published, request, registry>>

ConnectFails ==
    /\ sup = "connect" /\ sup' = "wait"
    /\ UNCHANGED <<thread, recovery, link, watcher, published, request, registry>>

EstablishReverseFaulty ==
    /\ sup = "reverse" /\ cur \in alive
    /\ sup' = "publish"
    /\ UNCHANGED <<thread, recovery, link, watcher, published, request, registry>>

\* establish_reverse_rpc_until
EstablishReverse ==
    /\ sup = "reverse" /\ cur \in alive
    /\ sup' = "replay"
    /\ UNCHANGED <<thread, recovery, link, watcher, published, request, registry>>

\* restore_tunnels and persist_locked, under one lock of the registry.
Replay ==
    /\ sup = "replay" /\ cur \in alive
    /\ served' = forwards /\ stateFile' = TRUE
    /\ sup' = "publish"
    /\ UNCHANGED <<thread, recovery, link, watcher, published, request, forwards>>

\* The remote session file is installed and the watcher woken; when one of the two
\* calls is reported to have failed the file may have been installed all the same.
Publish ==
    /\ sup = "publish" /\ cur \in alive
    /\ published' = cur /\ sup' \in {"await", "failed"}
    /\ UNCHANGED <<thread, recovery, link, watcher, request, registry>>

\* A step of the attempt fails, or is cut short by the stop flag or the deadline.
AttemptFails ==
    /\ sup \in {"reverse", "replay", "publish"}
    /\ sup' = "failed"
    /\ UNCHANGED <<thread, recovery, link, watcher, published, request, registry>>

ResumedFaulty == lease # "none"
Resumed == resumed

\* The wait for the watcher ends without it.
AwaitFails ==
    /\ sup = "await" /\ (Stopped \/ (~Resumed /\ cur \notin alive))
    /\ sup' = "failed"
    /\ UNCHANGED <<thread, recovery, link, watcher, published, request, registry>>

\* next.terminate()
Discard ==
    /\ sup = "failed" /\ sup' = "wait"
    /\ Terminate(cur) /\ cur' = 0
    /\ UNCHANGED <<thread, recovery, masters, watcher, published, request, forwards, stateFile>>

RetryFaulty ==
    /\ sup = "wait" /\ sup' = "attempt" /\ deadline' = FALSE
    /\ UNCHANGED <<thread, reconnecting, resumed, link, watcher, published, request, registry>>

\* A second between two attempts.
Retry ==
    /\ sup = "wait" /\ sup' = "attempt"
    /\ UNCHANGED <<thread, recovery, link, watcher, published, request, registry>>

RecoveredFaulty ==
    /\ sup = "await" /\ Resumed
    /\ sup' = "watch"
    /\ UNCHANGED <<thread, recovery, link, watcher, published, request, registry>>

Recovered ==
    /\ sup = "await" /\ Resumed
    /\ sup' = "watch" /\ reconnecting' = FALSE
    /\ UNCHANGED <<thread, deadline, resumed, link, watcher, published, request, registry>>

\* The thread ends: with the failure set, or because it was told to stop.
GiveUp ==
    /\ sup = "attempt" /\ deadline /\ ~stop
    /\ sup' = "gone"
    /\ UNCHANGED <<thread, recovery, link, watcher, published, request, registry>>

Obey ==
    /\ sup \in {"watch", "attempt"} /\ stop
    /\ sup' = "stopped"
    /\ UNCHANGED <<thread, recovery, link, watcher, published, request, registry>>

Supervise ==
    \/ Detect \/ StartAttempt \/ Connect \/ ConnectFails \/ EstablishReverse \/ Replay \/ Publish
    \/ AttemptFails \/ AwaitFails \/ Discard \/ Retry \/ Recovered \/ GiveUp \/ Obey

-----------------------------------------------------------------------------
(* The watcher, time, and the network.                                     *)

\* A heartbeat through the tunnel of the master the session file names reaches the
\* companion, where a thread of its own handles it.
SendHeartbeat ==
    /\ published \in alive /\ main # "exited"
    /\ beats' = beats \cup {published}
    /\ UNCHANGED <<thread, sup, recovery, link, lease, via, published, request, registry>>

\* POST /v1/heartbeat, answered also during a recovery.
HandleHeartbeat(m) ==
    /\ m \in beats /\ beats' = beats \ {m}
    /\ lease' = "fresh" /\ resumed' = TRUE /\ via' = m
    /\ UNCHANGED <<thread, sup, reconnecting, deadline, link, published, request, registry>>

LeaseExpires ==
    /\ lease = "fresh" /\ lease' = "expired"
    /\ UNCHANGED <<thread, sup, recovery, link, via, beats, published, request, registry>>

DeadlinePasses ==
    /\ reconnecting /\ ~deadline /\ deadline' = TRUE
    /\ UNCHANGED <<thread, sup, reconnecting, resumed, link, watcher, published, request, registry>>

MasterDies(m) ==
    /\ m \in alive /\ Terminate(m)
    /\ UNCHANGED <<thread, sup, recovery, cur, masters, watcher, published, request, forwards,
                   stateFile>>

-----------------------------------------------------------------------------
(* Requests that change the registry.                                      *)

\* The server accepts connections until its thread has been joined. The check of
\* reconnecting is made here, before the registry is locked.
Admit(r) ==
    /\ main \in {"attach", "join", "closing"} /\ ~request[r]
    /\ ~reconnecting
    /\ request' = [request EXCEPT ![r] = TRUE]
    /\ UNCHANGED <<thread, sup, recovery, link, watcher, published, registry>>

Finish(r) == request[r] /\ request' = [request EXCEPT ![r] = FALSE]

\* A forward is opened or closed by the running master, and persisted.
Open(r, e) ==
    /\ Finish(r) /\ alive # {} /\ e \notin forwards
    /\ forwards' = forwards \cup {e} /\ served' = served \cup {e} /\ stateFile' = TRUE
    /\ UNCHANGED <<thread, sup, recovery, link, watcher, published>>

Close(r, e) ==
    /\ Finish(r) /\ alive # {} /\ e \in served \cap forwards
    /\ forwards' = forwards \ {e} /\ served' = served \ {e} /\ stateFile' = TRUE
    /\ UNCHANGED <<thread, sup, recovery, link, watcher, published>>

\* A request that changes no tunnel; it may be persisted all the same.
OpenNothing(r) ==
    /\ Finish(r)
    /\ stateFile' \in {stateFile, TRUE}
    /\ UNCHANGED <<thread, sup, recovery, link, watcher, published, forwards, served>>

Execute(r) == OpenNothing(r) \/ \E e \in Endpoints : Open(r, e) \/ Close(r, e)

-----------------------------------------------------------------------------
(* The main thread.                                                        *)

\* finish() sets the stop flag: the client exited or a signal came, ...
ClientExits ==
    /\ main = "attach" /\ main' = "join" /\ stop' = TRUE
    /\ UNCHANGED <<sup, recovery, link, watcher, published, request, registry>>

\* ... or the supervisor gave up, ...
NoticeFailure ==
    /\ main = "attach" /\ sup = "gone" /\ main' = "join" /\ stop' = TRUE
    /\ UNCHANGED <<sup, recovery, link, watcher, published, request, registry>>

\* ... or the first heartbeat did not come in time.
StartupTimeout ==
    /\ main = "attach" /\ lease = "none" /\ ~reconnecting /\ main' = "join" /\ stop' = TRUE
    /\ UNCHANGED <<sup, recovery, link, watcher, published, request, registry>>

SupervisorEndedFaulty == sup = "stopped"
SupervisorEnded == sup \in {"stopped", "gone"}

\* The main thread's steps from here to there.
Goto(here, there) == main = here /\ main' = there /\ UNCHANGED stop

JoinSupervisor ==
    /\ Goto("join", "closing") /\ SupervisorEnded
    /\ UNCHANGED <<sup, recovery, link, watcher, published, request, registry>>

JoinServer ==
    /\ Goto("closing", "drain")
    /\ UNCHANGED <<sup, recovery, link, watcher, published, request, registry>>

DrainedFaulty == TRUE
\* wait_until_idle
Drained == \A r \in Requests : ~request[r]

\* cleanup_registry: what the master no longer has cannot be cancelled and stays listed.
CloseAll ==
    /\ Goto("drain", "remove state") /\ Drained
    /\ forwards' = forwards \ served /\ served' = {}
    /\ UNCHANGED <<sup, recovery, link, watcher, published, request, stateFile>>

RemoveState ==
    /\ Goto("remove state", "remove remote")
    /\ stateFile' = FALSE
    /\ UNCHANGED <<sup, recovery, link, watcher, published, request, forwards, served>>

\* rm of the remote session file, whose result is ignored.
RemoveRemote ==
    /\ Goto("remove remote", "drop")
    /\ published' \in {published} \cup (IF alive # {} THEN {0} ELSE {})
    /\ UNCHANGED <<sup, recovery, link, watcher, request, registry>>

DropMaster ==
    /\ Goto("drop", "exited")
    /\ Terminate(cur) /\ cur' = 0
    /\ UNCHANGED <<sup, recovery, masters, watcher, published, request, forwards, stateFile>>

Shutdown == JoinSupervisor \/ JoinServer \/ CloseAll \/ RemoveState \/ RemoveRemote \/ DropMaster

-----------------------------------------------------------------------------
Init ==
    /\ main = "attach" /\ stop = FALSE /\ sup = "watch"
    /\ reconnecting = FALSE /\ deadline = FALSE /\ resumed = FALSE
    /\ cur = 1 /\ masters = 1 /\ alive = {1}
    /\ lease = "none" /\ via = 0 /\ beats = {}
    /\ published = 1
    /\ request = [r \in Requests |-> FALSE]
    /\ forwards \in SUBSET Endpoints /\ served = forwards /\ stateFile = TRUE

Next ==
    \/ Supervise
    \/ SendHeartbeat \/ (\E m \in Masters : HandleHeartbeat(m)) \/ LeaseExpires
    \/ DeadlinePasses \/ (\E m \in Masters : MasterDies(m))
    \/ \E r \in Requests : Admit(r) \/ Execute(r)
    \/ ClientExits \/ NoticeFailure \/ StartupTimeout \/ Shutdown

\* Threads run, the clock advances, and a request is answered: its reads, its SSH calls
\* and its writes are all bounded in time. Nothing is assumed of the network, the
\* watcher or the client.
Fairness ==
    /\ WF_vars(Supervise) /\ WF_vars(DeadlinePasses)
    /\ WF_vars(NoticeFailure) /\ WF_vars(Shutdown)
    /\ \A r \in Requests : WF_vars(Execute(r))

Spec == Init /\ [][Next]_vars /\ Fairness

-----------------------------------------------------------------------------
(* What the threads promise together.                                      *)

\* The values the variables take; requests are refused exactly while the supervisor is
\* in a recovery or has ended in one.
TypeOK ==
    /\ main \in {"attach", "join", "closing", "drain", "remove state", "remove remote", "drop",
                 "exited"}
    /\ sup \in {"watch", "attempt", "connect", "reverse", "replay", "publish", "await",
                "failed", "wait", "gone", "stopped"}
    /\ stop \in BOOLEAN /\ reconnecting \in BOOLEAN /\ deadline \in BOOLEAN
    /\ resumed \in BOOLEAN /\ stateFile \in BOOLEAN
    /\ cur \in 0..MaxMasters /\ masters \in Masters /\ alive \subseteq Masters
    /\ lease \in {"none", "fresh", "expired"}
    /\ via \in 0..MaxMasters /\ beats \subseteq Masters /\ published \in 0..MaxMasters
    /\ request \in [Requests -> BOOLEAN]
    /\ forwards \subseteq Endpoints /\ served \subseteq Endpoints
    /\ sup # "stopped" => (reconnecting <=> sup # "watch")

\* "The old master is terminated before reconnecting": two masters never run at once,
\* and the one that runs is the supervisor's.
OneMaster == alive \subseteq {cur}

\* While the supervisor is content and the master runs, every enabled forward has its
\* tunnel, whatever requests were in flight when the connection was lost.
EverythingServed == sup = "watch" /\ cur \in alive => served = forwards

\* Nobody brings the state file back once the main thread has removed it, and the
\* wrapper leaves no master behind.
NothingLeft ==
    /\ main \in {"remove remote", "drop", "exited"} => ~stateFile
    /\ main = "exited" => alive = {}

\* A recovery is complete only when the remote file names the new master, the registry
\* has been replayed and persisted, and a heartbeat came after the attempt began.
RecoveryIsWhole ==
    [][reconnecting /\ ~reconnecting' =>
        /\ resumed /\ published = cur
        /\ cur \in alive => served = forwards
        /\ stateFile]_vars

\* "Recovery is complete only after a fresh authenticated heartbeat arrives through the
\* restored reverse channel" (docs/architecture.md:147).  The code does not keep this: it
\* asks when a heartbeat was handled, not through which channel it came, and TLC shows it in
\* a moment if this is added to Transport.cfg.
HeartbeatThroughNewChannel == [][reconnecting /\ ~reconnecting' => via = cur]_vars

\* "Retries stop after a 30-second budget": a recovery ends, if only with the wrapper.
RecoveryEnds == reconnecting ~> (~reconnecting \/ main = "exited")

\* Once told to stop the wrapper exits, whatever the supervisor and the requests are at.
ExitCompletes == stop ~> main = "exited"
\* What a wrapper owns is its own and in use: one master, with a tunnel for every enabled
\* forward while the supervisor is content, and nothing once the wrapper has exited.
WrapperSafe == OneMaster /\ EverythingServed /\ NothingLeft
=============================================================================
