----------------------------- MODULE Deployment -----------------------------
(***************************************************************************)
(* Installing, updating and removing the plugin on a remote machine over   *)
(* SSH (src/bin/local/remote_management.rs), and removing it from within   *)
(* the plugin's welcome popup (src/bin/plugin/onboarding.rs).              *)
(*                                                                         *)
(* The native installation of Herdr is tried first; if it fails and the    *)
(* machine cannot reach the release, hfwd uploads a bundle it takes from   *)
(* ReleaseCache, swaps it for the one in plugins/current, and rolls that   *)
(* back when the plugin cannot be activated.  hfwd records what it has     *)
(* installed, so that it later updates and claims only that.               *)
(*                                                                         *)
(* A remote command is given as the sequence of states it takes the        *)
(* machine through: it may stop at any of them, and be reported as failed  *)
(* even after the last.  One operation runs at a time, which nothing in    *)
(* the code enforces.                                                      *)
(***************************************************************************)
EXTENDS ReleaseCache, Sequences

CONSTANTS
    Me,         \* the one of Fetchers that deploys
    Refusals,   \* whether an activation may fail before its first rename
    MaxFaults   \* bound on the failing commands of one operation

ASSUME FetchersAssumption == Me \in Fetchers /\ Refusals \in BOOLEAN /\ MaxFaults \in Nat

VARIABLES
    machine,    \* what is registered, what is in each directory, and the recorded origin
    session,    \* whether a wrapper has a session file on the machine
    pc, job,    \* what the operation under way does next, and what it knows
    byHfwd,     \* for the properties: hfwd has made the registered installation
    trouble     \* for the properties: a repair has failed, or an operation was killed

vars == <<machine, session, pc, job, byHfwd, trouble, cacheVars>>

Old == "old"
New == "new"
ASSUME VersionsAssumption == Old \notin Editions

Contents == Editions \cup {Old, New, Rotten, Nothing}
VersionOf(content) == IF content = Old THEN Old ELSE New

\* Herdr's own checkout of the plugin, hfwd's plugins/current, a checkout of the user's.
Roots == {"native", "managed", "own"}
Absent == [root |-> "none", version |-> "none", enabled |-> FALSE]
Status == [root : Roots, version : {Old, New}, enabled : BOOLEAN]
Registration(root, version, enabled) == [root |-> root, version |-> version, enabled |-> enabled]
Origins == [root : Roots, version : {Old, New}]
NoOrigin == [root |-> "none", version |-> "none"]

\* verify_plugin_status
Ready(status) == status.enabled /\ status.version = New
\* is_managed_remote_origin
Matches(origin, status) ==
    status # Absent /\ origin = [root |-> status.root, version |-> status.version]

-----------------------------------------------------------------------------
(* What the commands of Herdr and of the shell do to the machine.          *)

Unlinked(m) == [m EXCEPT !.reg = Absent]
Linkable(m, root) == m.disk[root] # Nothing
Linked(m, status) ==
    [m EXCEPT !.reg = Registration(status.root, VersionOf(m.disk[status.root]), status.enabled)]

\* Herdr uninstalls what it has installed, and refuses what is linked.
Uninstallable(m) == m.reg.root = "native"
Uninstalled(m) == [m EXCEPT !.reg = Absent, !.disk["native"] = Nothing]
Dropped(m) == IF Uninstallable(m) THEN Uninstalled(m) ELSE Unlinked(m)

\* Herdr installs over nothing or over its own checkout.
Installable(m) == m.reg.root \in {"none", "native"}
Installed(m, enabled) ==
    [m EXCEPT !.reg = Registration("native", New, enabled), !.disk["native"] = New]

\* The files of this deployment: .staging-<id> and .previous-<id>.
Staged(m, content) == [m EXCEPT !.stage = content]
MovedAside(m) == [m EXCEPT !.disk["managed"] = Nothing, !.previous = m.disk["managed"]]
MovedIn(m) == [m EXCEPT !.disk["managed"] = m.stage, !.stage = Nothing]
Cleared(m) == [m EXCEPT !.disk["managed"] = Nothing, !.stage = Nothing]
MovedBack(m) == IF m.previous = Nothing THEN m
                ELSE [m EXCEPT !.disk["managed"] = m.previous, !.previous = Nothing]

-----------------------------------------------------------------------------
(* Steps of an operation.                                                  *)

\* A job knows the registration it found and whether its outcome is to be recorded. It
\* remembers for the properties the bundle it found, whether the installation it found was
\* made by hfwd, and whether a session file has appeared since it looked for one.
NoJob == [op |-> "none", was |-> Absent, owned |-> FALSE, faults |-> 0,
          found |-> Nothing, mine |-> FALSE, intruded |-> FALSE]

was == job.was

\* What hfwd puts in place of nothing, or in another place, is its own.
Advance(here, there, j) ==
    /\ pc = here /\ pc' = there
    /\ job' = IF there = "idle" THEN NoJob ELSE j
    /\ byHfwd' = (j.mine \/ machine'.reg.root \notin {"none", j.was.root})
    /\ UNCHANGED session

Goto(here, there) == Advance(here, there, job) /\ UNCHANGED trouble
Fault(here, there) ==
    /\ job.faults < MaxFaults
    /\ Advance(here, there, [job EXCEPT !.faults = @ + 1])

Then(states, possible, m) == IF possible THEN Append(states, m) ELSE states
SomeOf(states) == {states[i] : i \in DOMAIN states}

\* The command succeeds, or stops somewhere on its way.
Run(states, here, next, failed) ==
    /\ pc = here
    /\ \/ machine' = states[Len(states)] /\ Goto(here, next)
       \/ machine' \in SomeOf(states) /\ Fault(here, failed) /\ UNCHANGED trouble
    /\ UNCHANGED cacheVars

\* The same for a command that repairs or removes something: nothing repairs its failure,
\* be it an accident or that its last part is not possible.
Repair(states, possible, here, next) ==
    /\ pc = here
    /\ \/ machine' = states[Len(states)] /\ Goto(here, IF possible THEN next ELSE "idle")
       \/ machine' \in SomeOf(states) /\ Fault(here, "idle") /\ trouble' = TRUE
    /\ UNCHANGED cacheVars

\* A command that only reads.
Read(here, next, failed) == Run(<<machine>>, here, next, failed)

\* remote_plugin_status, at the start of every operation
StartsAs(op, next) ==
    /\ machine' = [machine EXCEPT !.stage = Nothing, !.previous = Nothing]
    /\ pc = "idle" /\ pc' = next
    /\ job' = [NoJob EXCEPT !.op = op, !.was = machine.reg, !.found = machine.disk["managed"],
                            !.mine = byHfwd \/ (op = "deploy" /\ machine.reg = Absent)]
    /\ UNCHANGED <<session, byHfwd, trouble, cacheVars>>

\* ensure_remote_plugin: a plugin that is ready is left alone.
Deploy == ~Ready(machine.reg) /\ StartsAs("deploy", "check")

\* reject_active_sessions_command and remote_plugin_origin
Checking(stop, owned) ==
    /\ UNCHANGED machine
    /\ Advance("check", IF stop THEN "idle" ELSE "install", [job EXCEPT !.owned = owned])
    /\ UNCHANGED <<trouble, cacheVars>>

CheckBlindFaulty == Checking(FALSE, was = Absent \/ Matches(machine.origin, was))
Check == Checking(session, was = Absent \/ Matches(machine.origin, was))

\* `herdr plugin install`, then `enable`. That it fails is nothing unusual.
Install ==
    /\ \/ /\ Installable(machine) /\ machine' = Installed(machine, TRUE)
          /\ Goto("install", "verify")
       \/ /\ \/ UNCHANGED machine
             \/ Installable(machine) /\ \E b \in BOOLEAN : machine' = Installed(machine, b)
          /\ Goto("install", "restore")
    /\ UNCHANGED cacheVars

\* restore_install_failure_state
Restore ==
    \/ machine.reg = was /\ Read("restore", "access", "idle")
    \/ /\ machine.reg # was /\ was # Absent /\ pc = "restore"
       /\ LET back == Linked(machine, was) IN
             Repair(<<machine, back>>, back.reg = was, "restore", "access")
    \/ /\ machine.reg # was /\ was = Absent
       /\ Repair(<<machine, Dropped(machine)>>, TRUE, "restore", "access")

\* remote_release_access: if the machine can reach the release, the bundle is not used.
Access ==
    \/ Read("access", IF was.root = "managed" THEN "unlink" ELSE "idle", "idle")
    \/ UNCHANGED machine /\ Goto("access", "bundle") /\ Begin(Me)

-----------------------------------------------------------------------------
(* replace_linked_bundle_with_native_install                               *)

Unlink == Run(<<machine, Unlinked(machine)>>, "unlink", "reinstall", "relink")

Reinstall ==
    Run(<<machine, Installed(machine, FALSE), Installed(machine, TRUE)>>,
        "reinstall", "verify", "relink")

RelinkFaulty == Repair(<<machine, Dropped(machine)>>, TRUE, "relink", "idle")

\* restore_linked_bundle
Relink ==
    LET gone == Dropped(machine)
        possible == Linkable(gone, was.root)
    IN  Repair(Then(<<machine, gone>>, possible, Linked(gone, was)), possible, "relink", "idle")

-----------------------------------------------------------------------------
(* deploy_release_bundle                                                   *)

\* What release_bundle returned is uploaded in three commands; if one fails, the stage
\* is removed.
Stage ==
    /\ \/ machine' = Staged(machine, hand[Me]) /\ Goto("bundle", "activate")
       \/ UNCHANGED machine /\ Fault("bundle", "idle") /\ UNCHANGED trouble
    /\ End(Me, "done")

NoBundle == UNCHANGED machine /\ Goto("bundle", "idle") /\ End(Me, "failed")

Activate ==
    LET away == MovedAside(machine)
        there == MovedIn(away)
        linked == Linked(there, Registration("managed", New, TRUE))
    IN  Run((IF Refusals THEN <<machine>> ELSE <<>>) \o <<away, there, linked>>,
            "activate", "confirm", "rollback")

\* verify_remote_plugin
Confirm == Read("confirm", "sweep", "rollback")

RollbackEnablingFaulty ==
    LET back == MovedBack(Cleared(Unlinked(machine)))
        relink == was # Absent /\ Linkable(back, was.root)
    IN  Repair(Then(<<machine, back>>, relink, Linked(back, [was EXCEPT !.enabled = TRUE])),
               was = Absent \/ relink, "rollback", "idle")
RollbackEarlyFaulty ==
    LET back == MovedBack(Cleared(Unlinked(machine)))
    IN  Repair(Then(<<machine, back>>, was # Absent, Linked(machine, was)),
               TRUE, "rollback", "idle")

\* rollback_deployment
Rollback ==
    LET unlinked == Unlinked(machine)
        cleared == Cleared(unlinked)
        back == MovedBack(cleared)
        relink == was # Absent /\ Linkable(back, was.root)
    IN  Repair(Then(<<machine, unlinked, cleared, back>>, relink, Linked(back, was)),
               was = Absent \/ relink, "rollback", "idle")

\* The old bundle is removed; that this fails is only warned of.
Sweep == Run(<<machine, [machine EXCEPT !.previous = Nothing]>>, "sweep", "verify", "verify")

-----------------------------------------------------------------------------
(* The end of a deployment.                                                *)

\* verify_remote_plugin and required_remote_plugin_status
Verify == Read("verify", IF job.owned THEN "record" ELSE "idle", "idle")

Recorded(m) == [m EXCEPT !.origin = [root |-> m.reg.root, version |-> m.reg.version]]

\* persist_remote_origin; a new installation that cannot be recorded is taken back.
Record ==
    Run(<<machine, Recorded(machine)>>, "record", "idle", IF was = Absent THEN "remove" ELSE "idle")

-----------------------------------------------------------------------------
(* uninstall_remote_plugin, whose steps also take back an installation.    *)

Uninstall ==
    /\ ~session
    /\ StartsAs("uninstall", IF machine.reg = Absent THEN "forget" ELSE "remove")

\* remote_plugin_removal_command
Remove ==
    IF machine.reg.root = "managed"
    THEN LET gone == Unlinked(machine) IN
            Repair(<<machine, gone, [gone EXCEPT !.disk["managed"] = Nothing]>>, TRUE,
                   "remove", "absent")
    ELSE Repair(Then(<<machine, [machine EXCEPT !.reg.enabled = FALSE]>>,
                     Uninstallable(machine), Uninstalled(machine)),
                Uninstallable(machine), "remove", "absent")

\* verify_remote_plugin_absent
Gone == Repair(<<machine>>, machine.reg = Absent, "absent", "forget")

ForgetFaulty == Repair(<<machine>>, TRUE, "forget", "clear")
\* clear_remote_origin
Forget == Repair(<<machine, [machine EXCEPT !.origin = NoOrigin]>>, TRUE, "forget", "clear")

\* clear_managed_bundles removes plugins/current and everything beside it.
NoBundles(m) == [Cleared(m) EXCEPT !.previous = Nothing]
Clear == Repair(<<machine, NoBundles(machine)>>, TRUE, "clear", "idle")

\* The welcome popup offers to remove what hfwd has installed. Herdr starts it in the
\* plugin's root, and a session may be running.
UninstallPlugin ==
    /\ Matches(machine.origin, machine.reg) /\ machine.reg.version = New
    /\ StartsAs("welcome", "leave")

\* uninstall_plugin_with, and the clean-up that its caller does
Leave ==
    LET possible == machine.reg.root = "managed" \/ Uninstallable(machine)
    IN  Repair(Then(<<machine>>, possible, Dropped(machine)), possible, "leave", "purge")
Purge == Repair(<<machine, NoBundles(machine)>>, TRUE, "purge", "withdraw")
Withdraw == Repair(<<machine, [machine EXCEPT !.origin = NoOrigin]>>, TRUE, "withdraw", "idle")

-----------------------------------------------------------------------------
(* The user, the sessions, and what may end hfwd.                          *)

ByHand == pc = "idle" /\ byHfwd' = FALSE /\ UNCHANGED <<session, pc, job, trouble, cacheVars>>

UserInstallFaulty ==
    Installable(machine) /\ ByHand /\ machine' = Installed(machine, TRUE)

\* `herdr plugin install` without hfwd: the plugin's install script forgets the origin.
UserInstall ==
    /\ Installable(machine) /\ ByHand
    /\ \E v \in {Old, New} :
        machine' = [machine EXCEPT !.reg = Registration("native", v, TRUE),
                                   !.disk["native"] = v, !.origin = NoOrigin]

\* `herdr plugin link` of a checkout, `unlink` or `uninstall`, `disable`.
UserLink ==
    /\ machine.reg = Absent /\ ByHand
    /\ machine' = Linked(machine, Registration("own", Old, TRUE))
UserRemove == machine.reg # Absent /\ ByHand /\ machine' = Dropped(machine)
UserDisable ==
    /\ machine.reg.enabled /\ pc = "idle" /\ machine' = [machine EXCEPT !.reg.enabled = FALSE]
    /\ UNCHANGED <<session, pc, job, byHfwd, trouble, cacheVars>>

\* A wrapper publishes its session file, or removes it.
SessionChanges ==
    /\ session' = ~session
    /\ job' = IF pc # "idle" /\ session' THEN [job EXCEPT !.intruded = TRUE] ELSE job
    /\ UNCHANGED <<machine, pc, byHfwd, trouble, cacheVars>>

\* hfwd is killed between two commands.
Killed ==
    /\ pc # "idle" /\ pc' = "idle" /\ job' = NoJob /\ trouble' = TRUE
    /\ IF pc = "bundle" THEN Die(Me) ELSE UNCHANGED cacheVars
    /\ UNCHANGED <<machine, session, byHfwd>>

\* Another hfwd of the same user wants the same release for another machine.
Elsewhere(f) == Begin(f) \/ End(f, "done") \/ End(f, "failed") \/ Die(f)

-----------------------------------------------------------------------------
\* A machine without the plugin, or one on which an older hfwd has deployed its version.
Init ==
    /\ \E root \in {"none", "native", "managed"} :
        machine =
            [reg |-> IF root = "none" THEN Absent ELSE Registration(root, Old, TRUE),
             disk |-> [r \in Roots |-> IF r \in {"own", root} THEN Old ELSE Nothing],
             stage |-> Nothing, previous |-> Nothing,
             origin |-> IF root = "none" THEN NoOrigin ELSE [root |-> root, version |-> Old]]
    /\ session = FALSE /\ pc = "idle" /\ job = NoJob /\ byHfwd = (machine.reg # Absent)
    /\ trouble = FALSE /\ CacheInit

Operate ==
    \/ Deploy \/ Check \/ Install \/ Restore \/ Access \/ Unlink \/ Reinstall \/ Relink
    \/ Stage \/ NoBundle \/ Activate \/ Confirm \/ Rollback \/ Sweep \/ Verify \/ Record
    \/ Uninstall \/ Remove \/ Gone \/ Forget \/ Clear
    \/ UninstallPlugin \/ Leave \/ Purge \/ Withdraw \/ Killed

Release ==
    /\ \/ \E f \in Fetchers : Fetch(f)
       \/ \E f \in Fetchers \ {Me} : Elsewhere(f)
       \/ Rot
    /\ UNCHANGED <<machine, session, pc, job, byHfwd, trouble>>

Next ==
    \/ Operate \/ Release \/ SessionChanges
    \/ UserInstall \/ UserLink \/ UserRemove \/ UserDisable

Spec == Init /\ [][Next]_vars

-----------------------------------------------------------------------------
(* What an operation promises the machine.                                 *)

\* The values the variables take.
TypeOK ==
    /\ machine \in [reg : Status \cup {Absent}, disk : [Roots -> Contents], stage : Contents,
                    previous : Contents, origin : Origins \cup {NoOrigin}]
    /\ job \in [op : {"deploy", "uninstall", "welcome", "none"}, was : Status \cup {Absent},
                owned : BOOLEAN, faults : 0..MaxFaults, found : Contents, mine : BOOLEAN,
                intruded : BOOLEAN]
    /\ {session, byHfwd, trouble} \subseteq BOOLEAN
    /\ pc \in {"idle", "check", "install", "restore", "access", "unlink", "reinstall", "relink",
               "bundle", "activate", "confirm", "rollback", "sweep", "verify", "record",
               "remove", "absent", "forget", "clear", "leave", "purge", "withdraw"}
    /\ pc = "idle" => job = NoJob
    /\ step[Me] # "idle" <=> pc = "bundle"
    /\ CacheTypeOK

\* "Roll back failed managed-bundle activation" (CHANGELOG.md:75): if nothing else fails,
\* the machine has the registration and the bundle it had, whatever the activation had
\* done already and however it failed.
RollbackRestores ==
    [][pc = "rollback" /\ pc' = "idle" /\ ~trouble' =>
        machine'.reg = was /\ machine'.disk["managed"] = job.found]_vars

\* A failed update leaves the machine with a plugin, if no repair fails.
UpdateKeepsPlugin ==
    [][pc # "idle" /\ pc' = "idle" /\ job.op = "deploy" /\ was # Absent /\ ~trouble' =>
        machine'.reg # Absent]_vars

\* Herdr never lists a plugin whose directory hfwd has removed or replaced by another
\* version, if no repair fails.
RegisteredIsThere ==
    pc = "idle" /\ ~trouble /\ machine.reg # Absent =>
        /\ Linkable(machine, machine.reg.root)
        /\ VersionOf(machine.disk[machine.reg.root]) = machine.reg.version

\* "Preventing stale provenance from claiming manually reinstalled or relinked plugins"
\* (CHANGELOG.md:77): a recorded origin that fits the registered plugin says that hfwd
\* has installed it, through updates, rollbacks and removals, and whatever else fails.
ProvenanceTruthful == Matches(machine.origin, machine.reg) => byHfwd

\* "Update and uninstall stop before changing remote state when an active session exists"
\* (docs/operations.md:89): what is registered and in plugins/current stays under a
\* session, unless the session file appeared after they had looked for one.
SessionKeepsPlugin ==
    [][session /\ pc # "idle" /\ job.op # "welcome" /\ ~job.intruded =>
        machine'.reg = machine.reg /\ machine'.disk = machine.disk]_vars

\* A removal that no failure interrupts leaves neither plugin, bundle nor origin: the
\* user's, that of the welcome popup, and that of an installation that is taken back.
RemovalIsWhole ==
    [][(pc = "clear" \/ pc = "withdraw") /\ pc' = "idle" /\ ~trouble' =>
        /\ machine'.reg = Absent /\ machine'.disk["managed"] = Nothing
        /\ machine'.origin = NoOrigin]_vars
\* hfwd and Herdr speak of the same plugin: what is registered is there.
MachineIsSound == TypeOK /\ RegisteredIsThere

\* What comes out of the release cache belongs together, and what was whole in it is not
\* lost to a replacement that fails.
CacheIsSound == []OnlyVerified /\ CacheSurvives

\* An operation that cannot be completed leaves what was there, and a removal that is
\* completed leaves nothing: neither ends half way unless a repair fails as well.
EndsWhole == RollbackRestores /\ UpdateKeepsPlugin /\ RemovalIsWhole
=============================================================================
