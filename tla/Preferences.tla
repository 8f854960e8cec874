----------------------------- MODULE Preferences -----------------------------
(***************************************************************************)
(* Companions that share the preference files of one remote host and Herdr *)
(* session, and the transaction every request runs in (mutate_and_persist  *)
(* in src/bin/local/companion.rs): take the file lock, keep the bytes of   *)
(* the two files and a snapshot of the registry, change the registry,      *)
(* write the manual rules, the paused ports and the session's state file,  *)
(* one after another, and undo all of it when one of them cannot be        *)
(* written.  A companion may stop, or be killed, between any two writes.   *)
(*                                                                         *)
(* Writing a file replaces it or leaves it as it was (src/atomic.rs).  The *)
(* tunnels behind the registry are the subject of Registry.tla; here a     *)
(* forward is known by its endpoint, of which a registry holds one         *)
(* forward, and its local port is whatever Registry.tla would choose.  A   *)
(* mutation whose error is not persisted changes nothing and is left out.  *)
(*                                                                         *)
(* A definition named ...Faulty is a slip in the definition after it that  *)
(* one of the properties at the end must notice.                           *)
(***************************************************************************)
EXTENDS Naturals, FiniteSets

CONSTANTS
    Companions,     \* the hfwd wrappers of one remote host and Herdr session
    RemotePorts, Hosts,
    Locals,         \* the local ports, if there is one companion
    SharedLocals,   \* the local ports, if there are several
    MaxFailures     \* bound on the file writes and tunnel rollbacks that fail, if there
                    \* is one companion; one fails if there are several

ASSUME CompanionsAssumption == IsFiniteSet(Companions)
ASSUME LocalsAssumption == SharedLocals \subseteq Locals
ASSUME FailuresAssumption == MaxFailures \in Nat \ {0}

VARIABLES
    manual,     \* the manual rules on disk
    paused,     \* the paused automatic ports on disk
    lock,       \* who holds the file lock: a set of at most one companion
    pc,         \* what each companion does next
    reg,        \* each companion's registry, by endpoint
    state,      \* each companion's session state file
    saved,      \* the preferences a transaction found
    before,     \* the registry a transaction found
    failures,   \* how many calls have failed
    present     \* the companions that run at one time or another

vars == <<manual, paused, lock, pc, reg, state, saved, before, failures, present>>

Endpoints == RemotePorts \X Hosts
Port(ep) == ep[1]
Rule == [local : Locals, enabled : BOOLEAN]
Rules == UNION {[S -> Rule] : S \in SUBSET Endpoints}
Forward == [auto : BOOLEAN, local : Locals, enabled : BOOLEAN]
Registries == UNION {[S -> Forward] : S \in SUBSET Endpoints}
Alone == Cardinality(present) = 1
Ports == IF Alone THEN Locals ELSE SharedLocals
Empty == [ep \in {} |-> 0]
Prefs == [manual |-> manual, paused |-> paused]
NoPrefs == [manual |-> Empty, paused |-> {}]

With(F, ep, f) == [e \in DOMAIN F \cup {ep} |-> IF e = ep THEN f ELSE F[e]]
Without(F, ep) == [e \in DOMAIN F \ {ep} |-> F[e]]

-----------------------------------------------------------------------------
(* persist_preferences_delta: what a change of the registry from old to    *)
(* now does to the rules and the paused ports read under the lock.         *)

\* manual_mapping
AsRule(f) == [local |-> f.local, enabled |-> f.enabled]

NewRulesFaulty(old, now, rules) ==
    [ep \in DOMAIN rules \cup {e \in DOMAIN now : ~now[e].auto} |->
        IF ep \in DOMAIN rules THEN rules[ep] ELSE AsRule(now[ep])]

NewRules(old, now, rules) ==
    LET gone == {ep \in DOMAIN old \ DOMAIN now : ~old[ep].auto}
        updated == {ep \in DOMAIN now :
            /\ ~now[ep].auto
            /\ ep \in DOMAIN old => AsRule(old[ep]) # AsRule(now[ep])}
    IN  [ep \in (DOMAIN rules \ gone) \cup updated |->
            IF ep \in updated THEN AsRule(now[ep]) ELSE rules[ep]]

NewPausedFaulty(old, now, ports) ==
    LET auto == {ep \in DOMAIN now : now[ep].auto}
    IN  (ports \cup {Port(ep) : ep \in {e \in auto : ~now[e].enabled}})
            \ {Port(ep) : ep \in {e \in auto : now[e].enabled}}

\* A new paused automatic forward counts as just paused; a resumed one is dropped.
NewPaused(old, now, ports) ==
    LET auto == {ep \in DOMAIN now : now[ep].auto}
        off == {ep \in auto : ~now[ep].enabled /\ (ep \in DOMAIN old => old[ep].enabled)}
        on == {ep \in auto \cap DOMAIN old : now[ep].enabled /\ ~old[ep].enabled}
    IN  (ports \cup {Port(ep) : ep \in off}) \ {Port(ep) : ep \in on}

-----------------------------------------------------------------------------
(* Requests.                                                               *)

FreeFaulty == TRUE
\* flock: nobody else is in a transaction.
Free == lock = {}

\* Lock the preferences, read them and change c's registry from reg[c] to F.
Transact(c, F) ==
    /\ pc[c] = "idle" /\ Free
    /\ lock' = lock \cup {c}
    /\ saved' = [saved EXCEPT ![c] = Prefs]
    /\ before' = [before EXCEPT ![c] = reg[c]]
    /\ reg' = [reg EXCEPT ![c] = F]
    /\ pc' = [pc EXCEPT ![c] = "manual"]
    /\ UNCHANGED <<manual, paused, state, failures>>

StartsEnabledFaulty(ep) == TRUE
\* The pauses are read under the lock.
StartsEnabled(ep) == Port(ep) \notin paused

\* The watcher's POST: a paused port starts paused.
CreateAutomatic(c, ep) ==
    /\ ep \notin DOMAIN reg[c]
    /\ \E p \in Ports :
        Transact(c, With(reg[c], ep,
            [auto |-> TRUE, local |-> p, enabled |-> StartsEnabled(ep)]))

CreateManual(c, ep) ==
    /\ ep \notin DOMAIN reg[c]
    /\ \E p \in Ports :
        Transact(c, With(reg[c], ep, [auto |-> FALSE, local |-> p, enabled |-> TRUE]))

\* A known endpoint, an unknown identifier, or a refused remap: nothing changes and
\* yet everything is written.
ChangeNothing(c) == Transact(c, reg[c])

Remove(c, ep) == ep \in DOMAIN reg[c] /\ Transact(c, Without(reg[c], ep))

Pause(c, ep) ==
    /\ ep \in DOMAIN reg[c] /\ reg[c][ep].enabled
    /\ Transact(c, [reg[c] EXCEPT ![ep].enabled = FALSE])

Resume(c, ep) ==
    /\ ep \in DOMAIN reg[c] /\ ~reg[c][ep].enabled
    /\ \E p \in Ports :
        Transact(c, [reg[c] EXCEPT ![ep].enabled = TRUE, ![ep].local = p])

\* The change of a local port; when neither the new tunnel nor the old one could be
\* opened the forward is disabled, and that is persisted too.
Remap(c, ep) ==
    /\ ep \in DOMAIN reg[c]
    /\ \E p \in Ports \ {reg[c][ep].local} :
        \/ Transact(c, [reg[c] EXCEPT ![ep].local = p])
        \/ Transact(c, [reg[c] EXCEPT ![ep].enabled = FALSE])

-----------------------------------------------------------------------------
(* The end of a transaction.                                               *)

\* pc[c] goes from one write to the next; the lock and the files stay.
Goto(c, here, there) == pc[c] = here /\ pc' = [pc EXCEPT ![c] = there]

WriteManual(c) ==
    /\ Goto(c, "manual", "paused")
    /\ manual' = NewRules(before[c], reg[c], manual)
    /\ UNCHANGED <<paused, lock, reg, state, saved, before, failures>>

WritePaused(c) ==
    /\ Goto(c, "paused", "state")
    /\ paused' = NewPaused(before[c], reg[c], paused)
    /\ UNCHANGED <<manual, lock, reg, state, saved, before, failures>>

DoneFaulty(c) == UNCHANGED <<lock, saved, before>>
\* The transaction is over and the lock is free.
Done(c) ==
    /\ lock' = lock \ {c}
    /\ saved' = [saved EXCEPT ![c] = NoPrefs]
    /\ before' = [before EXCEPT ![c] = Empty]

WriteState(c) ==
    /\ Goto(c, "state", "idle")
    /\ state' = [state EXCEPT ![c] = reg[c]]
    /\ Done(c)
    /\ UNCHANGED <<manual, paused, reg, failures>>

\* n more calls fail.
Failing(n) ==
    /\ failures + n <= IF Alone THEN MaxFailures ELSE 1
    /\ failures' = failures + n

\* Registry::restore when a tunnel cannot be cancelled or reopened: the change stays,
\* but for a remapped forward of which only the new tunnel could be cancelled.
PartlyRestored(old, now) ==
    {now} \cup {[now EXCEPT ![ep].enabled = FALSE] : ep \in
        {e \in DOMAIN old \cap DOMAIN now : old[e] # now[e] /\ old[e].enabled /\ now[e].enabled}}

\* A write fails; the registry is restored, or that fails too.
Fail(c) ==
    /\ \E here \in {"manual", "paused", "state"} : Goto(c, here, "undo manual")
    /\ \/ Failing(1) /\ reg' = [reg EXCEPT ![c] = before[c]]
       \/ /\ Failing(2)
          /\ \E F \in PartlyRestored(before[c], reg[c]) : reg' = [reg EXCEPT ![c] = F]
    /\ UNCHANGED <<manual, paused, lock, state, saved, before>>

UndoManual(c) ==
    /\ Goto(c, "undo manual", "undo paused")
    /\ \/ manual' = saved[c].manual /\ UNCHANGED failures
       \/ Failing(1) /\ UNCHANGED manual
    /\ UNCHANGED <<paused, lock, reg, state, saved, before>>

UndoPausedFaulty(c) ==
    /\ Goto(c, "undo paused", "undo state")
    /\ UNCHANGED <<manual, paused, lock, reg, state, saved, before, failures>>

UndoPaused(c) ==
    /\ Goto(c, "undo paused", "undo state")
    /\ \/ paused' = saved[c].paused /\ UNCHANGED failures
       \/ Failing(1) /\ UNCHANGED paused
    /\ UNCHANGED <<manual, lock, reg, state, saved, before>>

UndoState(c) ==
    /\ Goto(c, "undo state", "idle")
    /\ \/ state' = [state EXCEPT ![c] = reg[c]] /\ UNCHANGED failures
       \/ Failing(1) /\ UNCHANGED state
    /\ Done(c)
    /\ UNCHANGED <<manual, paused, reg>>

-----------------------------------------------------------------------------
(* The life of a companion.                                                *)

\* restore_manual and persist, before the server runs. The rules are read without
\* the lock. Every start is a new session with a state file of its own.
Start(c) ==
    /\ Goto(c, "down", "idle")
    /\ \E F \in [DOMAIN manual -> Forward] :
        /\ \A ep \in DOMAIN F :
            /\ ~F[ep].auto /\ F[ep].enabled = manual[ep].enabled /\ F[ep].local \in Ports
            /\ F[ep].enabled \/ F[ep].local = manual[ep].local
        /\ reg' = [reg EXCEPT ![c] = F] /\ state' = [state EXCEPT ![c] = F]
    /\ UNCHANGED <<manual, paused, lock, saved, before, failures>>

\* The wrapper exits or is killed: the kernel frees the lock.
Stop(c) ==
    /\ pc[c] # "down" /\ pc' = [pc EXCEPT ![c] = "down"]
    /\ reg' = [reg EXCEPT ![c] = Empty] /\ state' = [state EXCEPT ![c] = Empty]
    /\ Done(c)
    /\ UNCHANGED <<manual, paused, failures>>

ReplayPersistsFaulty(c, F) == UNCHANGED <<state, pc, failures>>
\* persist_locked, after the replay left the registry F. An error ends the wrapper.
ReplayPersists(c, F) ==
    \/ state' = [state EXCEPT ![c] = F] /\ UNCHANGED <<pc, failures>>
    \/ Failing(1) /\ pc' = [pc EXCEPT ![c] = "ending"] /\ UNCHANGED state

\* The supervisor's restore_tunnels and persist_locked after a reconnection: enabled
\* forwards may move to other local ports.
Replay(c) ==
    /\ pc[c] = "idle"
    /\ \E F \in [DOMAIN reg[c] -> Forward] :
        /\ \A ep \in DOMAIN F :
            /\ F[ep].auto = reg[c][ep].auto /\ F[ep].enabled = reg[c][ep].enabled
            /\ F[ep].local \in Ports
            /\ F[ep].enabled \/ F[ep].local = reg[c][ep].local
        /\ reg' = [reg EXCEPT ![c] = F]
        /\ ReplayPersists(c, F)
    /\ UNCHANGED <<manual, paused, lock, saved, before>>

-----------------------------------------------------------------------------
Init ==
    /\ present \in (SUBSET Companions) \ {{}}
    /\ manual = Empty /\ paused = {} /\ lock = {} /\ failures = 0
    /\ pc = [c \in Companions |-> "down"]
    /\ reg = [c \in Companions |-> Empty]
    /\ state = [c \in Companions |-> Empty]
    /\ saved = [c \in Companions |-> NoPrefs]
    /\ before = [c \in Companions |-> Empty]

Request(c) ==
    \/ ChangeNothing(c)
    \/ \E ep \in Endpoints :
        \/ CreateAutomatic(c, ep) \/ CreateManual(c, ep) \/ Remove(c, ep)
        \/ Pause(c, ep) \/ Resume(c, ep) \/ Remap(c, ep)

Persist(c) ==
    \/ WriteManual(c) \/ WritePaused(c) \/ WriteState(c)
    \/ Fail(c) \/ UndoManual(c) \/ UndoPaused(c) \/ UndoState(c)

Next ==
    /\ \E c \in present : Request(c) \/ Persist(c) \/ Start(c) \/ Stop(c) \/ Replay(c)
    /\ UNCHANGED present

Spec == Init /\ [][Next]_vars

-----------------------------------------------------------------------------
(* What the shared preferences promise.                                    *)

\* The values the variables take; a companion in a transaction holds the lock.
TypeOK ==
    /\ manual \in Rules /\ paused \in SUBSET RemotePorts
    /\ lock \in SUBSET Companions
    /\ pc \in [Companions -> {"down", "idle", "manual", "paused", "state", "undo manual",
                              "undo paused", "undo state", "ending"}]
    /\ reg \in [Companions -> Registries] /\ state \in [Companions -> Registries]
    /\ saved \in [Companions -> [manual : Rules, paused : SUBSET RemotePorts]]
    /\ before \in [Companions -> Registries]
    /\ failures \in 0..MaxFailures
    /\ present \in (SUBSET Companions) \ {{}}
    /\ lock = {c \in Companions : pc[c] \notin {"down", "idle", "ending"}}

\* The committed preferences: those the holder of the lock found, or the files.
Committed == IF lock = {} THEN Prefs ELSE saved[CHOOSE c \in lock : TRUE]

\* Companions change the preferences one key at a time, whichever of them write, fail,
\* undo or die in between: "each transaction merges only its changed rules into the
\* latest saved preferences" (docs/architecture.md).
Shared == INSTANCE SharedPreferences WITH prefs <- Prefs, base <- Committed
SharedSpec == Shared!Spec

\* "Pauses survive process exit and rediscovery until explicitly resumed": a port leaves
\* the committed pauses only with a transaction that resumed its forward, or that was
\* killed while it took back such a resumption.
PausesSurvive ==
    [][failures' <= 1 => \A p \in Committed.paused \ Committed'.paused :
        \E c \in lock, ep \in Endpoints :
            /\ Port(ep) = p /\ ep \in DOMAIN before[c] \cap DOMAIN reg[c]
            /\ before[c][ep].auto /\ ~before[c][ep].enabled
            /\ reg[c][ep].enabled \/ pc[c] \in {"undo manual", "undo paused"}]_vars

\* A transaction one of whose writes failed leaves no trace in the registry or in any
\* of the three files, if no further call fails ("failed persistence restores the
\* previous preferences while the same lock remains held").
FailureIsAtomic ==
    [][\A c \in Companions :
        pc[c] = "undo state" /\ pc'[c] = "idle" /\ failures' = 1 =>
            /\ reg'[c] = before[c] /\ Prefs' = saved[c] /\ state'[c] = before[c]]_vars

\* `hfwd list` and the dashboard read the truth: between requests the state file of a
\* running companion is its registry, if no more than one call has failed.
StateFileCurrent ==
    \A c \in Companions : pc[c] = "idle" /\ failures <= 1 => state[c] = reg[c]

\* A companion alone with its preferences: the manual rules are its manual forwards,
\* however it was killed and restarted, so that the next start restores them.
RulesFollowForwards ==
    \A c \in present : Alone /\ pc[c] = "idle" /\ failures <= 1 =>
        /\ DOMAIN manual = {ep \in DOMAIN reg[c] : ~reg[c][ep].auto}
        /\ \A ep \in DOMAIN manual : manual[ep].enabled = reg[c][ep].enabled

\* A companion alone with its preferences: a paused automatic forward "remains paused
\* after reconnect and after the owning process restarts" (docs/plugin.md), because its
\* port is on file.
PausesRemembered ==
    \A c \in present : Alone /\ pc[c] = "idle" /\ failures <= 1 =>
        \A ep \in DOMAIN reg[c] :
            reg[c][ep].auto /\ ~reg[c][ep].enabled => Port(ep) \in paused

\* A companion alone with its preferences: what was paused is not forwarded again when
\* its server is rediscovered, nor after a restart.
RediscoveryStaysPaused ==
    \A c \in present : Alone /\ pc[c] = "idle" /\ failures <= 1 =>
        \A ep \in DOMAIN reg[c] :
            reg[c][ep].auto /\ Port(ep) \in paused => ~reg[c][ep].enabled
\* The files of a companion alone with its preferences agree with its registry in every
\* respect that the next start depends on: its rules, and its pauses both ways.
FilesAgree == TypeOK /\ RulesFollowForwards /\ PausesRemembered /\ RediscoveryStaysPaused
=============================================================================
