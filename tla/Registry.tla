------------------------------ MODULE Registry ------------------------------
(***************************************************************************)
(* The forward registry of one companion (src/registry.rs) and the SSH     *)
(* master that carries its tunnels.                                        *)
(*                                                                         *)
(* The registry maps identifiers to forwards; the master is external and   *)
(* is modelled by what `Ssh::forward` and `Ssh::cancel` are used for: a     *)
(* call opens or closes one tunnel, or fails without effect, or (when      *)
(* Ambiguous) fails although the master did what it was asked, which is    *)
(* what the three second limit on the control client makes possible.       *)
(*                                                                         *)
(* An operation that makes a fixed number of SSH calls is one action over  *)
(* all the outcomes of these calls: the environment's steps between two    *)
(* calls (a port taken, the master dying) only make later calls fail.      *)
(* restore_tunnels chooses ports call by call, so it takes a step per call *)
(* while it holds the registry's mutex.                                    *)
(*                                                                         *)
(* A definition named ...Faulty is a slip in the definition after it that  *)
(* one of the properties at the end must notice.                           *)
(***************************************************************************)
EXTENDS Naturals, FiniteSets

CONSTANTS
    MaxPort,        \* u16::MAX
    RemotePorts,    \* the remote ports requests name
    RawHosts,       \* the spellings of the remote host requests use
    MaxForwards,    \* MAX_FORWARDS
    MaxNext,        \* bound on the identifiers handed out (the code saturates at 2^64 - 1)
    Ambiguous,      \* may an SSH call fail after the master has obeyed it?
    LateRequests    \* may a request run, or end, while the link is being recovered?

ASSUME PortAssumption == MaxPort \in Nat \ {0} /\ RemotePorts \subseteq 1..MaxPort
ASSUME LimitAssumption == MaxForwards \in Nat /\ MaxNext \in Nat
ASSUME SwitchAssumption == Ambiguous \in BOOLEAN /\ LateRequests \in BOOLEAN

VARIABLES
    forwards,   \* Registry::forwards, a function on the identifiers in use
    next,       \* Registry::next
    saved,      \* the RegistrySnapshot of the transaction in progress
    phase,      \* who holds the registry's mutex, and for what
    replay,     \* the locals of restore_tunnels
    tunnels,    \* the tunnels of the SSH master
    link,       \* the SSH master, as the transport supervisor sees it
    busy        \* local ports bound by other processes

vars == <<forwards, next, saved, phase, replay, tunnels, link, busy>>
env == <<link, busy>>

Ports == 1..MaxPort
Hosts == {"127.0.0.1", "::1"}
Endpoints == RemotePorts \X Hosts
Ids == 1..MaxNext
Forward == [ep : Endpoints, local : Ports, enabled : BOOLEAN]
Tunnels == Ports \X Endpoints
Registries == UNION {[S -> Forward] : S \in SUBSET Ids}
NoForwards == [i \in {} |-> 0]
NoReplay == [todo |-> {}, restored |-> NoForwards, opened |-> {}]

\* What create_with_enabled makes of the host of a request that passed validate.
Normal(host) == IF host \in {"::1", "[::1]"} THEN "::1" ELSE "127.0.0.1"

Tunnel(f) == <<f.local, f.ep>>
Enabled(F) == {i \in DOMAIN F : F[i].enabled}
Carried(F) == {Tunnel(F[i]) : i \in Enabled(F)}
HeldFaulty(f) == {}
\* The tunnels to cancel before f can be given up.
Held(f) == IF f.enabled THEN {Tunnel(f)} ELSE {}
Extend(F, i, f) == [j \in DOMAIN F \cup {i} |-> IF j = i THEN f ELSE F[j]]
Without(F, S) == [j \in DOMAIN F \ S |-> F[j]]
SetLocal(f, p) == [f EXCEPT !.local = p]
SetFlag(f, b) == [f EXCEPT !.enabled = b]

-----------------------------------------------------------------------------
(* The SSH master.                                                         *)

Alive == link # "down"

\* A successful bind of 127.0.0.1:p, which a tunnel's own listener prevents.
Free(T, p) == p \notin busy /\ \A t \in T : t[1] # p

\* What can come of asking the master to open the tunnels S, one after another:
\* ok were opened, lost were opened too but reported as failed.
Openings(T, S) ==
    {o \in [ok : SUBSET S, lost : SUBSET S] :
        /\ o.lost \subseteq (IF Ambiguous THEN S \ o.ok ELSE {})
        /\ o.ok \cup o.lost # {} => Alive
        /\ \A t \in o.ok \cup o.lost : t \in T \/ Free(T, t[1])
        /\ \A t, u \in o.ok \cup o.lost : t[1] = u[1] => t = u}

\* What can come of asking it to cancel the tunnels S.
Closings(T, S) ==
    {o \in [ok : SUBSET (S \cap T), lost : SUBSET (S \cap T)] :
        /\ o.lost \subseteq (IF Ambiguous THEN S \ o.ok ELSE {})
        /\ o.ok \cup o.lost # {} => Alive}

Plus(T, o) == T \cup o.ok \cup o.lost
Minus(T, o) == T \ (o.ok \cup o.lost)

UsableFaulty(F, T, except, q) == Free(T, q)
UsableByOthersFaulty(F, T, except, q) == Free(T, q) /\ \A i \in Enabled(F) : F[i].local # q
\* q can be bound and no enabled forward of F but `except` uses it.
Usable(F, T, except, q) == Free(T, q) /\ \A i \in Enabled(F) \ {except} : F[i].local # q

\* available_port: the least usable port from start on.
Available(F, T, start, except, p) ==
    /\ p \in Ports /\ p >= start /\ Usable(F, T, except, p)
    /\ \A q \in Ports : q >= start /\ q < p => ~Usable(F, T, except, q)

-----------------------------------------------------------------------------
(* Requests: each runs inside mutate_and_persist, which keeps the mutex    *)
(* from the snapshot to the end of persistence.                            *)

\* The registry is free and the request is not refused for a recovering link.
Request ==
    /\ phase = "idle"
    /\ LateRequests \/ link = "up"

\* The mutation left F, which is about to be persisted.
Mutated(F) ==
    /\ forwards' = F /\ saved' = forwards
    /\ phase' = "persist"
    /\ UNCHANGED <<replay, env>>

\* The mutation returned an error that skips persistence.
Failed(T) ==
    /\ tunnels' = T
    /\ UNCHANGED <<forwards, next, saved, phase, replay, env>>

KnownFaulty(ep) == \E i \in Enabled(forwards) : forwards[i].ep = ep
Known(ep) == \E i \in DOMAIN forwards : forwards[i].ep = ep
NewIdFaulty == Cardinality(DOMAIN forwards) + 1
NewId == next + 1
AtLimit == Cardinality(DOMAIN forwards) >= MaxForwards

\* A request for a known endpoint only refreshes its process metadata.
CreateKnown(ep) ==
    /\ Request /\ Known(ep)
    /\ Mutated(forwards)
    /\ UNCHANGED <<next, tunnels>>

CreateRejected(ep) ==
    /\ Request /\ ~Known(ep)
    /\ AtLimit
    /\ Failed(tunnels)

\* create_paused: the preferred port is kept without looking whether it is free.
CreatePaused(ep, start) ==
    /\ Request /\ ~Known(ep) /\ ~AtLimit
    /\ next < MaxNext
    /\ next' = NewId
    /\ Mutated(Extend(forwards, NewId, [ep |-> ep, local |-> start, enabled |-> FALSE]))
    /\ UNCHANGED tunnels

CreateEnabled(ep, start) ==
    /\ Request /\ ~Known(ep) /\ ~AtLimit
    /\ next < MaxNext
    /\ \E p \in Ports :
        /\ Available(forwards, tunnels, start, 0, p)
        /\ LET f == [ep |-> ep, local |-> p, enabled |-> TRUE]
           IN  \E o \in Openings(tunnels, {Tunnel(f)}) :
                IF o.ok = {}
                THEN Failed(Plus(tunnels, o))
                ELSE /\ tunnels' = Plus(tunnels, o)
                     /\ next' = NewId
                     /\ Mutated(Extend(forwards, NewId, f))

\* No port is left from start on.
CreateNoPort(ep, start) ==
    /\ Request /\ ~Known(ep) /\ ~AtLimit
    /\ \A p \in Ports : ~Available(forwards, tunnels, start, 0, p)
    /\ Failed(tunnels)

Create(port, host, preferred) ==
    LET ep == <<port, Normal(host)>>
        start == IF preferred = 0 THEN port ELSE preferred
    IN  \/ CreateKnown(ep)
        \/ CreateRejected(ep)
        \/ CreatePaused(ep, start)
        \/ CreateEnabled(ep, start)
        \/ CreateNoPort(ep, start)

\* An identifier the registry does not hold: Ok(None), or a request to set what is set.
NoChange ==
    /\ Request
    /\ Mutated(forwards)
    /\ UNCHANGED <<next, tunnels>>

Remove(id) ==
    /\ Request /\ id \in DOMAIN forwards
    /\ UNCHANGED next
    /\ LET f == forwards[id]
       IN  \E o \in Closings(tunnels, Held(f)) :
            IF o.ok = Held(f)
            THEN tunnels' = Minus(tunnels, o) /\ Mutated(Without(forwards, {id}))
            ELSE Failed(Minus(tunnels, o))

\* set_enabled(id, false)
Disable(id) ==
    /\ Request /\ id \in Enabled(forwards)
    /\ UNCHANGED next
    /\ LET f == forwards[id]
       IN  \E o \in Closings(tunnels, Held(f)) :
            IF o.ok = Held(f)
            THEN tunnels' = Minus(tunnels, o) /\ Mutated(Extend(forwards, id, SetFlag(f, FALSE)))
            ELSE Failed(Minus(tunnels, o))

\* set_enabled(id, true)
Enable(id) ==
    /\ Request /\ id \in DOMAIN forwards \ Enabled(forwards)
    /\ UNCHANGED next
    /\ \E p \in Ports :
        /\ Available(forwards, tunnels, forwards[id].local, id, p)
        /\ LET f == SetFlag(SetLocal(forwards[id], p), TRUE)
           IN  \E o \in Openings(tunnels, {Tunnel(f)}) :
                IF o.ok = {}
                THEN Failed(Plus(tunnels, o))
                ELSE tunnels' = Plus(tunnels, o) /\ Mutated(Extend(forwards, id, f))

EnableNoPort(id) ==
    /\ Request /\ id \in DOMAIN forwards \ Enabled(forwards)
    /\ \A p \in Ports : ~Available(forwards, tunnels, forwards[id].local, id, p)
    /\ Failed(tunnels)

PortRefusedFaulty(id, p) ==
    \/ \E i \in Enabled(forwards) \ {id} : forwards[i].local = p
    \/ forwards[id].enabled /\ ~Free(tunnels, p)
\* set_local_port's refusal: port 0, another enabled forward's port, or a bound one.
PortRefused(id, p) ==
    \/ p = 0
    \/ \E i \in Enabled(forwards) \ {id} : forwards[i].local = p
    \/ forwards[id].enabled /\ ~Free(tunnels, p)

\* Every error of set_local_port is persisted too: its caller passes
\* persist_on_mutation_error, because an error may have disabled the forward.
RemapRefused(id, p) ==
    /\ Request /\ id \in DOMAIN forwards /\ p # forwards[id].local
    /\ PortRefused(id, p)
    /\ Mutated(forwards)
    /\ UNCHANGED <<next, tunnels>>

RemapPaused(id, p) ==
    /\ Request /\ id \in DOMAIN forwards \ Enabled(forwards) /\ p # forwards[id].local
    /\ ~PortRefused(id, p)
    /\ Mutated(Extend(forwards, id, SetLocal(forwards[id], p)))
    /\ UNCHANGED <<next, tunnels>>

AfterRemapFaulty(f, reopened) == f
\* "Keep the registry truthful": a forward that lost both its tunnels is disabled.
AfterRemap(f, reopened) == SetFlag(f, reopened)

\* Cancel the old tunnel, open the new one, and if that fails the old one again;
\* if that fails too the forward is disabled.
RemapEnabled(id, p) ==
    /\ Request /\ id \in Enabled(forwards) /\ p # forwards[id].local
    /\ ~PortRefused(id, p)
    /\ UNCHANGED next
    /\ LET f == forwards[id]
           g == SetLocal(f, p)
       IN  \E c \in Closings(tunnels, {Tunnel(f)}) :
            IF c.ok = {}
            THEN tunnels' = Minus(tunnels, c) /\ Mutated(forwards)
            ELSE \E o \in Openings(Minus(tunnels, c), {Tunnel(g)}) :
                 LET T == Plus(Minus(tunnels, c), o)
                 IN  IF o.ok # {}
                     THEN tunnels' = T /\ Mutated(Extend(forwards, id, g))
                     ELSE \E r \in Openings(T, {Tunnel(f)}) :
                            /\ tunnels' = Plus(T, r)
                            /\ Mutated(Extend(forwards, id, AfterRemap(f, r.ok # {})))

-----------------------------------------------------------------------------
(* The end of a transaction: mutate_and_persist keeps the mutation, or, if *)
(* a file could not be written, has the registry restore its snapshot.     *)

Commit ==
    /\ phase = "persist"
    /\ phase' = "idle" /\ saved' = NoForwards
    /\ UNCHANGED <<forwards, next, replay, tunnels, env>>

\* The identifiers of F whose tunnel no enabled forward of G has (same_tunnel).
NotCarried(F, G) == {i \in Enabled(F) : Tunnel(F[i]) \notin Carried(G)}

\* restore(snapshot): cancel what the snapshot lacks, reopen what it adds. With
\* an error the registry keeps what succeeded.
Rollback ==
    /\ phase = "persist"
    /\ LET toCancel == NotCarried(forwards, saved)
           toOpen == NotCarried(saved, forwards)
       IN  \E c \in Closings(tunnels, {Tunnel(forwards[i]) : i \in toCancel}) :
           \E o \in Openings(Minus(tunnels, c), {Tunnel(saved[i]) : i \in toOpen}) :
            LET cancelled == {i \in toCancel : Tunnel(forwards[i]) \in c.ok}
                reopened == {i \in toOpen : Tunnel(saved[i]) \in o.ok}
            IN  /\ tunnels' = Plus(Minus(tunnels, c), o)
                /\ forwards' =
                    IF cancelled = toCancel /\ reopened = toOpen
                    THEN saved
                    ELSE [i \in DOMAIN forwards \cup reopened |->
                            IF i \in reopened THEN saved[i]
                            ELSE IF i \in cancelled THEN SetFlag(forwards[i], FALSE)
                            ELSE forwards[i]]
    /\ phase' = "idle" /\ saved' = NoForwards
    /\ UNCHANGED <<next, replay, env>>

-----------------------------------------------------------------------------
(* restore_tunnels, on the link that replaced a lost one.                  *)

ToReplayFaulty(F) == DOMAIN F
ToReplay(F) == Enabled(F)

ReplayBegin ==
    /\ phase = "idle" /\ link = "fresh"
    /\ phase' = "replay"
    /\ replay' = [todo |-> ToReplay(forwards), restored |-> forwards, opened |-> {}]
    /\ UNCHANGED <<forwards, next, saved, tunnels, env>>

\* The code goes through the identifiers in their order; here any order will do.
ReplayOpen(id) ==
    /\ phase = "replay" /\ id \in replay.todo
    /\ \E p \in Ports :
        /\ Available(forwards, tunnels, forwards[id].local, id, p)
        /\ LET f == SetLocal(forwards[id], p)
           IN  \E o \in Openings(tunnels, {Tunnel(f)}) :
                /\ o.ok # {}
                /\ tunnels' = Plus(tunnels, o)
                /\ replay' = [todo |-> replay.todo \ {id},
                              restored |-> Extend(replay.restored, id, f),
                              opened |-> replay.opened \cup {Tunnel(f)}]
    /\ UNCHANGED <<forwards, next, saved, phase, env>>

\* No port, a failed call, or the recovery was cancelled: what was opened is
\* cancelled, errors ignored, and the supervisor will terminate this master.
ReplayFail ==
    /\ phase = "replay" /\ replay.todo # {}
    /\ \E id \in replay.todo, p \in Ports :
       \E o \in Openings(tunnels, {<<p, forwards[id].ep>>}) :
        /\ o.ok = {}
        /\ \E c \in Closings(Plus(tunnels, o), replay.opened) :
            tunnels' = Minus(Plus(tunnels, o), c)
    /\ phase' = "idle" /\ replay' = NoReplay
    /\ link' = IF Alive THEN "doomed" ELSE link
    /\ UNCHANGED <<forwards, next, saved, busy>>

ReplayDone ==
    /\ phase = "replay" /\ replay.todo = {}
    /\ forwards' = replay.restored
    /\ phase' = "idle" /\ replay' = NoReplay
    /\ link' = IF Alive THEN "up" ELSE link
    /\ UNCHANGED <<next, saved, tunnels, busy>>

\* close_all, at the end of the wrapper: what could not be cancelled stays listed.
CloseAll ==
    /\ phase = "idle"
    /\ \E o \in Closings(tunnels, Carried(forwards)) :
        /\ tunnels' = Minus(tunnels, o)
        /\ forwards' = Without(forwards, {i \in DOMAIN forwards :
                forwards[i].enabled => Tunnel(forwards[i]) \in o.ok})
    /\ phase' = "closed"
    /\ UNCHANGED <<next, saved, replay, env>>

-----------------------------------------------------------------------------
(* The environment.                                                        *)

\* The master exits, or the supervisor terminates it: its tunnels go with it.
LinkLost ==
    /\ Alive
    /\ link' = "down" /\ tunnels' = {}
    /\ UNCHANGED <<forwards, next, saved, phase, replay, busy>>

\* The supervisor has a new master and has not replayed the forwards yet.
Reconnected ==
    /\ link = "down" /\ phase \notin {"replay", "closed"}
    /\ LateRequests \/ phase # "persist"
    /\ link' = "fresh"
    /\ UNCHANGED <<forwards, next, saved, phase, replay, tunnels, busy>>

PortTaken(p) ==
    /\ Free(tunnels, p)
    /\ busy' = busy \cup {p}
    /\ UNCHANGED <<forwards, next, saved, phase, replay, tunnels, link>>

PortReleased(p) ==
    /\ p \in busy
    /\ busy' = busy \ {p}
    /\ UNCHANGED <<forwards, next, saved, phase, replay, tunnels, link>>

-----------------------------------------------------------------------------
Init ==
    /\ forwards = NoForwards /\ next = 0 /\ saved = NoForwards
    /\ phase = "idle" /\ replay = NoReplay
    /\ tunnels = {} /\ link = "up" /\ busy = {}

Next ==
    \/ \E port \in RemotePorts, host \in RawHosts, preferred \in 0..MaxPort :
        Create(port, host, preferred)
    \/ NoChange
    \/ \E id \in Ids :
        Remove(id) \/ Disable(id) \/ Enable(id) \/ EnableNoPort(id)
    \/ \E id \in Ids, p \in 0..MaxPort :
        RemapRefused(id, p) \/ RemapPaused(id, p) \/ RemapEnabled(id, p)
    \/ Commit \/ Rollback
    \/ ReplayBegin \/ (\E id \in Ids : ReplayOpen(id)) \/ ReplayFail \/ ReplayDone
    \/ CloseAll
    \/ LinkLost \/ Reconnected
    \/ \E p \in Ports : PortTaken(p) \/ PortReleased(p)

Spec == Init /\ [][Next]_vars

-----------------------------------------------------------------------------
(* What the registry promises.                                             *)

\* The values the variables take.
TypeOK ==
    /\ forwards \in Registries /\ saved \in Registries
    /\ next \in 0..MaxNext
    /\ phase \in {"idle", "persist", "replay", "closed"}
    /\ replay \in [todo : SUBSET Ids, restored : Registries, opened : SUBSET Tunnels]
    /\ tunnels \in SUBSET Tunnels
    /\ link \in {"up", "down", "fresh", "doomed"}
    /\ busy \in SUBSET Ports

\* Requests for the same loopback service, however the host is spelled, share one
\* forward (create_with_enabled), also after a rollback that succeeded only in part.
OnePerEndpoint ==
    \A i, j \in DOMAIN forwards : forwards[i].ep = forwards[j].ep => i = j

\* No two enabled forwards claim the same local port, whatever was remapped,
\* rolled back or moved by a replay.
EnabledPortsDistinct ==
    \A i, j \in Enabled(forwards) : forwards[i].local = forwards[j].local => i = j

\* The registry is truthful (the comment in set_local_port): on a settled link, a
\* forward shown as enabled has its tunnel. This is so if a failed SSH call has no
\* effect, hence for Ambiguous = FALSE.
Truthful == link = "up" => Carried(forwards) \subseteq tunnels

\* An identifier once published always names the same remote endpoint: it is never
\* handed to another one, and a replay or a rollback keeps it.
StableIds ==
    [][/\ \A i \in DOMAIN forwards \cap DOMAIN forwards' : forwards'[i].ep = forwards[i].ep
       /\ \A i \in DOMAIN forwards' \ DOMAIN forwards : i > next \/ i \in DOMAIN saved]_vars

\* Tunnels of the master that no enabled forward owns.
Orphans == tunnels \ Carried(forwards)

\* On a settled link no operation leaves a tunnel behind that it opened or whose
\* forward it gave up; only a rollback that could not cancel a tunnel may.
NoNewOrphans ==
    [][link = "up" /\ link' = "up" =>
        Orphans' \subseteq Orphans \cup (IF phase = "persist" THEN tunnels ELSE {})]_vars

\* A replay that succeeds leaves exactly the tunnels of the enabled forwards, and
\* changes neither which forwards there are nor which are paused (docs/architecture.md,
\* "Replay preserves mapping IDs and paused state").
ReplayIsExact ==
    [][phase = "replay" /\ phase' = "idle" =>
        /\ DOMAIN forwards' = DOMAIN forwards /\ Enabled(forwards') = Enabled(forwards)
        /\ \A i \in DOMAIN forwards \ Enabled(forwards) : forwards'[i] = forwards[i]
        /\ link' = "up" => Orphans' = {}]_vars

\* "A local port occupied during the outage is reassigned" (README.md): a replay moves a
\* forward only from a port that another process has bound.
OnlyOccupiedPortsMove ==
    [][phase = "replay" /\ phase' = "replay" =>
        \A i \in DOMAIN forwards :
            replay'.restored[i].local # replay.restored[i].local =>
                forwards[i].local \in busy]_vars
\* What a client may rely on to tell forwards apart: an endpoint has one forward, and an
\* enabled forward a local port of its own, also after partial rollbacks and replays.
Unique == OnePerEndpoint /\ EnabledPortsDistinct

\* The tunnels follow the registry through every operation and replay: none is left
\* behind, none is missing after a replay, and only forwards whose port was taken move.
TunnelsFollow == NoNewOrphans /\ ReplayIsExact /\ OnlyOccupiedPortsMove
=============================================================================
