# Formal models of herdr-fwd

`hfwd` is a local wrapper around `herdr --remote`: it owns an OpenSSH master, runs a
loopback HTTP companion, and opens an SSH tunnel for every server that a watcher on the
remote host detects, or that the user asks for by hand. This directory holds TLA+ models
of the parts in which several threads, processes and files must agree, the TLC
configurations that check them on small instances, and proofs, checked by TLAPS, of what
matters most for every instance.

## The system and its parts

| part | code | state | operations | with whom it interacts |
|---|---|---|---|---|
| forward registry | `src/registry.rs`, `src/model.rs` | forwards by identifier, the last identifier | create (enabled or paused), remove, pause, resume, remap, snapshot and restore, replay, close all | asks the SSH master for tunnels; owned by the companion, behind one mutex |
| request transactions and shared preferences | `src/bin/local/companion.rs`, `src/atomic.rs` | manual rules, paused ports, a session state file, a lock file | `mutate_and_persist`, `restore_manual`, `persist` | companions of one host and Herdr session share the first two files |
| companion server | `companion.rs`, `http.rs` | active requests, `last_heartbeat`, `reconnecting` | accept, read, answer, one thread per request, stop, join | called by the watcher, the dashboard and the management commands |
| transport supervisor | `transport.rs`, `ssh.rs` | the owned master, `attempt_started`, deadline, stop flag, failure | detect, reconnect, reverse tunnel, replay, publish, await a heartbeat, retry, give up | registry, companion, remote session file, main thread |
| main thread | `cli.rs` | the attached client | startup, `run_attach`, shutdown | joins the supervisor and the server |
| remote watcher | `plugin/lifecycle.rs`, `session.rs`, `rpc.rs` | lock, failures since, last scan, dashboard markers; two threads | heartbeat every 2 s, discovery, dashboard workspace, cleanup after 60 s | the companion, through the reverse tunnel |
| management commands | `management.rs` | session state files | list, watch, close, close --all, forward, pruning | companions, over HTTP |
| installation and releases | `remote_management.rs`, `release.rs`, `install-plugin-binary.sh` | the plugin Herdr lists, its directories, the recorded origin; the local release cache and its lock | install, update, migrate, upload and activate, roll back, uninstall, withdraw; download, publish, read the cache | Herdr on the remote machine, session files, other `hfwd` |
| dashboard | `plugin/dashboard_*.rs` | the list, places, selection, form, message; the companion's address | the loop, keys, clicks, forms, requests, refresh, drawing, scrolling | the companion, Herdr's snapshot, the session file |
| settings: onboarding and preferences | `plugin/onboarding.rs`, `preferences.rs` | a preferences file without a lock | the welcome pane and its opener, the settings menu | Herdr's configuration, the companion |
| Herdr's configuration | `herdr_config.rs`, `tools.rs` | the file, its backup, a lock file | three settings on and off, status | companions, dashboards, the welcome pane, the user's editor |
| notifications, sidebar tokens, detection, adapter, support | other files of `src/bin/plugin/`, `detect.rs`, `support.rs`, `auth.rs`, `shell.rs` | little or none | texts, parsing, process plumbing | - |

What is hard here: the SSH master may refuse a call, may obey it and be reported as having
failed (a three second limit on the control client), or may vanish; a request may be in flight
when the connection is lost; a transaction writes three files one after another and may fail
or be killed between any two; several wrappers share two of the files, several processes Herdr's
configuration and the release cache; a recovery races its deadline, a stop request, late
heartbeats and late requests; dashboards and commands act on what they read some time ago; an
installation is a sequence of remote commands each of which may stop half way; and every loop
has to end.

## Modules

| module | models | note |
|---|---|---|
| `Registry` | the registry and the master's tunnels | an operation is one action over all the outcomes of its SSH calls; a replay takes one step per call |
| `RegistryProofs` | theorems about `Registry` | |
| `SharedPreferences` | what the preference files promise | abstract: committed versions that differ in one key |
| `Preferences` | companions, registries, the three files, the file lock | implements `SharedPreferences` (`SharedSpec`) |
| `PreferencesProofs` | theorems about `Preferences` | |
| `Transport` | supervisor, main thread, request threads, heartbeats | one action per step between two points where another thread can act |
| `Watcher` | the remote directory, the watcher's two threads, the workspaces it opens, and the wrappers seen from there | one action per access to the directory or call to Herdr |
| `WatcherProofs` | theorems about `Watcher` | |
| `Discovery` | a scan of one session, against processes and the user | one action per pane read and per request |
| `DiscoveryProofs` | theorems about `Discovery` | |
| `CompanionServer` | the accepting thread, the limit of requests, reading, stopping and joining | what a request does is left to the module that extends it |
| `Management`, `MCManagement` | the management commands beside the wrappers of a machine and their servers | extends `CompanionServer` |
| `ManagementProofs` | theorems about `Management` and `CompanionServer` | |
| `ReleaseCache` | the release cache and its users | one action per rename and per file read |
| `Deployment` | installation, update, rollback and removal on one machine | extends `ReleaseCache`, from which it takes the bundle it uploads |
| `DeploymentProofs` | theorems about `Deployment` and `ReleaseCache` | |
| `HerdrConfig` | Herdr's configuration file and those who edit it | one action per lock, read, copy and write |
| `Settings`, `MCSettings` | menus, welcome pane, opener, the companion's threads, the preferences file | extends `HerdrConfig` |
| `SettingsProofs` | theorems about `Settings` and `HerdrConfig` | |
| `DashboardTree` | the order, the tree, the window and the click mapping, as operators | |
| `Dashboard`, `MCDashboard` | one dashboard, its companion, Herdr's panes, the session | extends `DashboardTree` |
| `SessionProofs` | theorems about `Transport` and about `Dashboard` and `DashboardTree` | two parts that share nothing |

How state and actions correspond to the code is said at each definition and, with line
numbers, in the `map` of `PROJECT.json`. In short:

* **Registry.** `forwards` and `next` are the fields of `Registry`; `saved` is the snapshot of
  `mutate_and_persist`; `phase` says who holds the mutex (a request that is being persisted, a
  replay, or nobody). A request ends in `Commit` or, when a file could not be written, in
  `Rollback` (`Registry::restore`). `tunnels`, `link` and `busy` are the outside world: the
  tunnels of the running master, the master's condition, and ports bound by other processes. A
  call to the master is an element of `Openings` or `Closings`: what was done and reported
  (`ok`), what was done and reported as failed (`lost`, only if `Ambiguous`). With
  `LateRequests`, requests also run while the link is being recovered.
* **Preferences.** A companion walks through `pc`: `idle`, `manual`, `paused`, `state`, back to
  `idle`; or, after a failed write, `undo manual`, `undo paused`, `undo state`. Forwards are
  known by their endpoint, which `Registry`'s `OnePerEndpoint` and `StableIds` justify. The
  companion can be killed (`Stop`) everywhere, which frees the lock as the kernel does.
* **Transport.** `sup` and `main` are program counters, `request[r]` says that a request is
  past the check of `reconnecting`. Masters are numbered; `via` remembers through which one the
  last heartbeat came. The code reads the stop flag and the clock before a step and acts after
  it, so the flag may rise in between: only the start of an attempt depends on it.
* **Watcher.** `file` and `marker` are the files of the session directory, `open` is what Herdr
  shows of the workspaces that watchers created. `main` and `beat` are the program counters of
  the watcher's main thread and of the thread that sends heartbeats (the main thread itself
  while `main` is `starting`); `todo`, `orphans` and `on` are what each of them has listed and
  is busy with. The lock is held while `main` is not `gone`. A session file carries the address of
  a reverse tunnel, which is kept as a version: a heartbeat gets through if it is the
  version that `channel` still leads to. Time is abstracted: `GracePasses` may turn failures
  into 60 seconds of failures at any moment once the wrapper has ended, because its lease and its
  recovery are shorter than that. The subcommand `scan`, which no hook of the plugin calls, is
  left out. What a scan asks of the companion is in `Discovery`.
* **Discovery.** `previous`, `active` and `detected` are the local variables of
  `process_session_discovery` (`active_panes` and `active_ports` follow from the last two);
  `deletions` and `requests` are what `reconcile_forward_requests` is given; `created` and
  `errors` are its outcome. A process is named by its pane and a number. Identifiers are not
  counted up as in `Registry`: a new one is any that nobody still knows. `quiet` and `fresh` are
  there for the properties.
* **CompanionServer and Management.** A connection is a record that waits in the socket's queue, is
  read, and runs; `count` is `ActiveRequests`. A client of `Stallers` never sends all it announced.
  A command works through the state files (`todo`, `at`), keeps what it heard (`found`) and has
  still to delete (`left`). An address may pass from a dead session to a living one, a process id
  to another process (`taken`). `stale` and `tried` are there for the properties. The test of the
  owner and the removal of the file are one step: nobody rewrites a dead session's file.
* **Deployment and ReleaseCache.** A remote command is the sequence of states of the machine it
  goes through; it may stop at any of them, and be reported as failed even after the last. `job`
  is what the operation knows (`was` is the registration it found), `machine` is the remote side:
  Herdr's registration, three directories, staging and backup, the recorded origin. Another user
  of the machine installs, links and uninstalls between any two steps. Of the install script only
  what it leaves behind is modelled.
* **HerdrConfig and Settings.** A document is its sidebar rows, its toast delivery and what is
  bound to the shortcut. A writer takes the lock, reads, decides, copies, writes and drops the
  lock; it may be killed at each, and the user's editor, which takes no lock, may overtake it
  (`overtaken`). Of the menus the cursor and pages are left out; a change asks the companion and
  is given up when that takes too long.
* **Dashboard.** `pc` is the place in the loop; `config` is the address the dashboard uses, `channel`
  the one that works. A request is in `asked` until the companion has handled it. `aim` is what was
  selected when the user began (for the properties). Heights, scrolling and clicks are in
  `DashboardTree`, which is translated to the line.

## Runs

| run | instance | shows |
|---|---|---|
| `registry_clean` | 3 ports, 2 remote ports x 2 hosts, 2 forwards, 3 identifiers | types; the registry is truthful; no operation leaves a tunnel behind, and a replay is exact and moves only forwards whose port was taken (`TunnelsFollow`) |
| `registry_ambiguous` | 3 ports, 1 remote port x 2 hosts, 2 forwards, ambiguous failures and late requests | one forward per endpoint, distinct ports (`Unique`), stable identifiers |
| `preferences` | 2 companions, 2 ports, 1 failing call; and each of them alone, with 2 local ports and 2 failing calls | refinement of `SharedPreferences`; pauses survive; a failed transaction leaves no trace; files and registry agree between requests |
| `transport` | 2 requests, 2 endpoints, 3 masters | one master, everything served, a clean exit (`WrapperSafe`), whole recoveries; recoveries end, the wrapper exits |
| `watcher_safety` | 2 sessions, 3 published files, 2 workspaces, failures | no workspace is lost track of, nothing is left open by a watcher that ends (`NothingStrays`), nothing is taken from a running wrapper |
| `watcher_liveness` | 2 sessions, 2 published files, 1 workspace | sessions are heard from, stale ones disappear |
| `discovery` | 2 panes of 2 processes, 1 endpoint, 1 failing call | undisturbed scans are exact (`ScanIsSound`); what is in use and what the user added is kept (`ScanIsGentle`); forwards converge |
| `management` | 2 sessions, 1 command, 1 stalled client, limit 1, 1 end, 1 disturbance | servers count their requests and are empty once joined (`ServerIsSound`); exactly the dead are pruned (`PruneIsExact`); exactly what was asked for is closed (`CloseSucceeds`); shutdown ends |
| `deployment` | 2 users of the cache, 2 failing commands, 1 edition | plugin, directory and registration agree (`MachineIsSound`); the cache hands out only what was verified and survives failures (`CacheIsSound`); provenance is truthful; operations end whole (`EndsWhole`); a session keeps its plugin |
| `deployment_rollback` (violation) | as above, 1 failing command, activations may be refused at once | a rollback deletes a bundle that was never moved |
| `settings` | 1 menu, 1 thread, the welcome pane, 2 changes, 1 edit or kill | what was saved stays (`ConfigIsSound`), writes are exact and backed up (`WritesAreExact`), preferences and the dismissal stay (`ChoicesAreKept`), every change ends |
| `dashboard` | 2 panes, 2 heights, 3 identifiers, 1 change by others, 1 loss, 1 request | a list that is not current says so (`ListIsSound`), screen and mouse agree (`ScreenIsSound`), keys act on what was seen (`ActsAsSeen`); the dashboard ends with its session and keeps up with it |

A property whose name stands for several is a conjunction of named parts, which are defined
and explained before it.

The bounds. Two forwards and three local ports are enough for two forwards to compete for a
port, for a third port to be free when a search passes over a taken one, and for a search to
find none; the third identifier is for a forward created after another was removed. Two
companions are enough for one to work on what the other has changed or leaves behind, and
every rule about sharing relates two of them; two keys are enough for one to be disturbed by
a change of the other. `Preferences` chooses in `Init` which companions are `present`; several share
`SharedLocals` and one failing call, one alone has all `Locals` and `MaxFailures` of them. One
failing call is what the code promises to undo; the second makes the undo fail in part, and the
invariants say that a single failure does no harm. Three masters let a recovery fail after
publishing and another follow it, with heartbeats of both under way. `MaxFailures`, `MaxMasters`,
`MaxNext`, `MaxEnds`, `MaxFaults`, `MaxAsked`, `MaxChanges`, `MaxRequests` and `MaxId` bound counters only: at
the bound a call no longer fails, a reconnection no longer succeeds, an identifier is no longer
handed out, a user no longer acts. In `Watcher` two sessions are enough for one to be cleaned up,
or to fail, while the other is in use; three published files let one of them be published again
while the other is published for the first time, two workspaces let one be opened after another
was closed. `EmptyScans` is eight in the code: what matters is that there is more than one such
round (two in `watcher_safety`), or that the last one comes soon. In `Discovery` one endpoint is
enough, because a scan treats every port on its own but for the order of its requests; two panes
of two processes let a server move within a pane and from one pane to another. In `Management` the
limit of 64 requests is 1, which one stalled client fills; two sessions with a common address
let the address of a dead one be answered by another, and their forwards share identifiers and a
port. In `Deployment` two failing commands let a step and its repair both fail; two users of the
cache are enough for a reader to meet a publisher. In `Settings` one depth step and two changes let
a change be overtaken by another or by the user's edit. In `Dashboard` heights of 6 and 8 leave
room for one line and for three, so that the tree scrolls at both ends.

Fairness is assumed in `Transport`, `Watcher`, `Discovery`, `Management`, `Settings` and `Dashboard`.

* `Transport`: `WF_vars(Supervise)`, `WF_vars(Shutdown)` and `WF_vars(NoticeFailure)`: the two
  threads run, and each of their steps has a time limit in the code (three seconds for an SSH
  command, twenty tries for a reverse tunnel). `DeadlinePasses`: the clock advances. `Execute(r)`: a
  request is answered, because reading it, its SSH calls and its writes are bounded in time (the
  wait for the shared file lock is bounded by the transaction of another companion). Nothing is
  assumed of the network, the master, the watcher or the client: a recovery may never hear a
  heartbeat and must still end. The deadlock check is off because the wrapper really stops.
* `Watcher`: `WF_vars(Main)` and `WF_vars(Round)`: both threads run, and their calls to Herdr and to
  the companions have time limits. `Wake(s)`: the wrapper invokes the wake action once it has
  published its file. `GracePasses(s)`: the clock advances. Nothing is assumed of the wrappers, the
  network, the user, or the hooks of Herdr that start a watcher. The deadlock check is off because
  wrappers end and are bounded in number.
* `Discovery`: `WF_vars(Scan)`: a scan is made every 15 seconds at least, and its calls have time
  limits. Nothing is assumed of processes and the user; calls do not fail for ever.
* `Management`: each server's accepting thread sees the stop flag, the wrapper's main thread runs,
  each connection is accepted, read or given up, and answered (reading is limited to 5 seconds and
  ends with the stop flag), and each command goes on. A stalled client never sends the rest, and
  nothing is assumed of those who start and end wrappers. The deadlock check is off because
  commands end and wrappers are bounded in number.
* `Settings`: a writer, an answering thread and whoever has loaded the preferences goes on; the lock
  is freed by a kill, as the kernel does. Nothing is assumed of the user.
* `Dashboard`: `WF_vars` of the loop and of the companion's answers; `SF_vars(RefreshIsDue)`: the
  loop refreshes when 750 milliseconds have passed, however many keys come in between (it looks
  at the clock after every one of them), so a refresh that is due again and again is made. Nothing
  is assumed of the user, the link, or others. The deadlock check is off because a dashboard ends.

## What the violation says

`deployment_rollback` is a sentence of the changelog that the code does not keep; `PROJECT.json` quotes
it under `findings`. `rollback_remote_bundle` begins with `rm -rf` of `plugins/current`, which is right
when the new bundle has been moved there, and wrong when the activation was refused before its
first rename (a refused `plugin unlink`, a broken connection): then it deletes the bundle that was in
use, there is no backup to move back, and the link of the old plugin fails. The run `deployment` leaves
that failure out (`Refusals = FALSE`) and checks everything else.

What else was met while modelling, and is not run any more than by changing a constant:

* `Transport`, `HeartbeatThroughNewChannel`: a heartbeat counts by the time it is handled, not by the
  channel it came through (`transport.rs:106`, `docs/architecture.md:147`).
* `Watcher`: the round of heartbeats ends at a stale session that cannot be cleaned up, for instance
  because Herdr does not close its workspace, and the sessions listed after it are not heard from for
  as long as that lasts (`lifecycle.rs:343`, `docs/architecture.md:83`): with `Failures = TRUE`
  `SessionsAreHeard` fails.
* `Discovery`, `DeadAreGone`: a scan matches forwards and listeners by pane, process and port. A server
  that moves from `127.0.0.1` to `::1` keeps a forward that leads nowhere (`lifecycle.rs:562`,
  `docs/plugin.md:90`).
* `Discovery`, `ShownIfNew`: a request that the companion answers with a forward it had before counts as
  created. A manual forward at a server's endpoint is requested, and the dashboard opened, at every
  scan (`lifecycle.rs:546`, `docs/plugin.md:94`).
* With `LateRequests = TRUE` and `Ambiguous = FALSE`, `OnlyOccupiedPortsMove` fails: a request
  that passed the check of `reconnecting` before the connection was lost opens a tunnel on the new
  master, the replay finds the port bound, moves the forward to the next port and leaves the first
  tunnel open.
* With two `Hosts`, `PausesRemembered` fails: pauses are filed by port, forwards are told apart by
  port and host.
* A watcher that has decided to end holds the lock until it has joined its worker; a watcher woken
  meanwhile ends at once. The next event of a pane starts one again.
* Between the decision to give a session up and the removal of its file lies a call to Herdr; a
  file published in between, more than 60 seconds after the loss, is removed as well.
* `restore_manual` reads the rules without the lock and may start forwards of a transaction that is
  undone a moment later; they are shown and can be removed.
* Release cache: a kill between the two renames of a publication loses the entry, which is fetched
  again. `CacheSurvives` is about failing renames.
* Deployment: if the status cannot be read after an installation, the origin is never recorded, and
  the installation counts as the user's. Session files are looked for once: `SessionKeepsPlugin`
  excepts a session that appears afterwards. Nothing keeps two `hfwd` from deploying to one machine
  at once. A recorded origin survives `herdr plugin uninstall`, and fits an own link of the user only if
  root and version agree. A native update that fails cannot be taken back if the checkout was replaced
  and the plugin was disabled.
* Preferences file: there is no lock. A menu that read the file before the welcome pane was dismissed
  writes `onboarding = true` back, and the pane comes again (`docs/plugin.md:69`); `PreferencesKept` and
  `DismissedStaysAway` except what such a late writer has lost.
* Herdr's configuration: a binding of `prefix+shift+f` with Herdr Fwd's command but another type counts
  as enabled (`herdr_config.rs:176`); rows of ports that were added twice cannot be switched off from the
  menu; a menu that has given up leaves the companion's edit running, which may still succeed.
* Dashboard: `G` selects the first forward, although `docs/plugin.md:129` says the last, because shortcuts
  ignore case; `docs/plugin.md:134` lists `c` where the code has `p`; a form belongs to the pane that is
  selected when it is sent; Esc closes a popup even with the help open.
* Management: `hfwd close` leaves out the sessions that did not answer, so that an id or a port which
  is ambiguous with them is closed (`docs/operations.md:121-123` speaks of the matching forwards); a dead
  owner's file stays while another process has its id; when `accept` fails the server ends and nobody
  is told, and the session is lost when its lease expires.

## Proofs

`RegistryProofs` proves, for all values of the constants:

* `TypeCorrect`: `Spec => []TypeOK`;
* `Uniqueness`: `Spec => []Unique`;
* `Identity`: `Spec => StableIds`;
* `Truth`: `Spec => []Truthful`, assuming `~Ambiguous`;
* `Exact`, `Moves`: `Spec => ReplayIsExact` and `Spec => OnlyOccupiedPortsMove`, assuming
  `~LateRequests`;
* `Ownership`: `Spec => NoNewOrphans`, assuming `~Ambiguous`;
* `Following`: `Spec => TunnelsFollow`, which is the last three together, under both assumptions.

The assumptions are those of `Registry` (ports are positive, limits are natural numbers, the
switches are Boolean). The argument is one inductive invariant, `IInv`. Uniqueness alone is not
inductive: a rollback may succeed for some tunnels only, and then the registry mixes forwards of
the snapshot with forwards of the mutation. So `IInv` says of the snapshot that it is itself
unique and *compatible* with the registry (equal identifiers have equal endpoints, other
identifiers other endpoints, and an enabled forward of one does not meet a different enabled
forward of the other on a port), which makes every mixture unique. Likewise a replay builds a
registry of which only a part has been moved: `ReplayInv` says that the moved part is open in
`tunnels`, so that the search for the next port, which looks at the old registry, cannot choose
a port twice. `Truth` and `Ownership` use `IInv` and
follow the outcomes of every SSH call, in opposite directions: every enabled forward has its
tunnel, every tunnel its forward. For the replay a second inductive invariant, `Follows`, says
that it starts without tunnels, that those it meets are those it opened, and that their ports are
none of the ports of the other enabled forwards; so a port that the search passes over is another
process's. `Follows` needs that no request runs during a recovery, but not that failed calls have
no effect: `Exact` and `Moves` hold with `Ambiguous` too, which no run asks (a late request
may leave a tunnel that the replay then meets, hence the assumption). `Truth` and `Ownership` fail
with `Ambiguous`, by their nature: a call reported as failed may have opened or closed a tunnel.

The second part of `SessionProofs` proves, for any number of requests, endpoints and masters (at least one
master, the one the wrapper starts with):

* `TransportTypeCorrect`: `Spec => []TypeOK`;
* `TransportIsSafe`: `Spec => []WrapperSafe`;
* `TransportRecovery`: `Spec => RecoveryIsWhole`.

Its inductive invariant adds to these properties where the supervisor owns no master, that
tunnels belong to the running master (`TunnelInv`), what an attempt has published and persisted
when it waits for a heartbeat (`AttemptInv`), and that the shutdown finds the supervisor ended
and, past the drain, no request running (`ShutdownInv`); without the last, a request that is
still in flight would bring back the state file. Fairness is not used.

`PreferencesProofs` proves, for any number of companions, ports, hosts, local ports and failing
calls:

* `Refinement`: `Spec => SharedSpec`, the implementation of `SharedPreferences`;
* `Pauses`: `Spec => PausesSurvive`;
* `Atomicity`: `Spec => FailureIsAtomic`;
* `Files`: `Spec => []StateFileCurrent`;
* `TypeCorrect`: `Spec => []TypeOK`;
* `RulesFollow`: `Spec => []RulesFollowForwards`, for any number of hosts;
* `Agreement`: `Spec => []FilesAgree`, for one loopback host (`Hosts = {h}`).

The assumptions are that the shared local ports are among the local ports, that at least one call
may fail, and that the companions are finitely many (the properties speak of a companion that is
alone, by counting). The inductive invariant has five parts. `Mutex`: the lock has one holder, and
nobody else is between two writes. `Progress` says which of the three files the holder has
already written and with what, `Undo` which of them are back and that a failure has happened,
`Current` that an idle companion's state file is its registry. What makes it work is `Delta`, a
lemma about the operators that compute the new rules and pauses: a transaction changes the
registry at one endpoint, hence one manual rule or one pause but never both, so that at most one
of the two shared files differs from its version when the lock was taken. Therefore a companion
that is killed between the two writes still leaves the files one key apart, and a version of the
files can be given to every state: the files themselves while the lock is free, else what the
holder found (`Committed`).

`FilesAgree` is about a companion alone with its files, one after another: each restores its
registry from them and must leave them in agreement with it. `Lone` is what a transaction needs:
the files it started from agree with the registry it found, and what is new in the registry began
as the pauses said. `Delta` then gives the agreement at its end, and a companion that is killed
half way leaves files that agree with themselves, from which the next one starts. Pauses are
filed by port, and on two hosts the two halves about pauses are false: hence one host.

`SettingsProofs` proves, for any number of menus, threads, edits by the user and killed
processes, from any configurations:

* `Config`: `Spec => []ConfigIsSound`;
* `Writes`: `Spec => WritesAreExact`;
* `Choices`: `Spec => ChoicesAreKept`.

The assumptions are `ConfigAssumption` and `SettingsAssumption` (menus and pane are among the
writers, configurations are documents, the depth is at most 255, bounds are natural numbers).
The first lemmas are about the four edits: over every document, an edit that goes through
makes the file say what was asked for and leaves the other settings and the user's rows alone
(`EditFacts`). `WriterInv` says that the plan of a writer stays such an edit of the file as it
is, because whoever else writes needs the lock; only the user's editor does not, and after an edit
of his nothing is promised until the holder of the lock is done. The preferences have no lock:
there `Fresh` says that what a process has read is still what the file says, but for its own
key and those that others have written since.

`ManagementProofs` proves, for any number of sessions, commands, stalled clients, ends and failures,
any limit of active requests and any addresses:

* `Server`: `Spec => []ServerIsSound`;
* `Pruning`: `Spec => PruneIsExact`;
* `Closing`: `Spec => CloseSucceeds`.

The assumptions are `ServerAssumption` (the limit is positive, the sessions are finitely many) and
`ManagementAssumption` (clients are commands or clients that stall, bounds are natural numbers,
sessions start with forwards numbered from one). That the counter is the number of requests with a
thread is an equation between a number and the cardinality of a set, which a step keeps only if the
set grows or shrinks by one: `ConnInv` says that no client makes the same request twice, so that a
connection whose client has gone is never confused with another. For the commands `Awaits` and
`Hears` say that a command awaits one answer at most and that the list it hears is one of the
session it asked, because the token is; with the fact that a killed wrapper has no request left
(`NoneKilled`), a dead session is never taken for one that answered (`Looks`), whoever listens
at its address now. `Closes` says that what a command still has to delete and what it has tried
are what it chose, and `Sends` that a deletion in flight, even one whose answer came too late, is
among what it tried.

`WatcherProofs` proves, for any number of sessions, published files and workspaces, with and
without failures:

* `WatcherKeepsTrack`: `Spec => []NothingStrays`;
* `WatcherSparesTheRunning`: `Spec => RunningIsKept`.

The assumption is `WatcherAssumption` (no session is `NoSession`, bounds are natural numbers). The
first lemmas say of each variable which steps change it (`MarkerWriters`, `OpenWriters`, ...), and
for each thread what a step does to its orphans (`ThreadSteps`); the rest argues from these and
hardly mentions actions. The invariant follows a session through its life (`Life`): once its wrapper
has ended, no address leads to it, so no dashboard is opened for it (`OpenedAlive`), and only such
sessions are ever orphans or expired (`Tidying`, `Expired`). That a marker may be removed needs more
than that its workspace was closed: no other marker names it and none will be created under
its number (`Names`), and the main thread is not setting up a dashboard for the same session. `Known`
is what makes `NothingAbandoned` inductive: in a round that found no session, what is still
open is named by an orphan of that round. `GracePasses` is an assumption of the model, and
therefore of both theorems.

`DiscoveryProofs` proves, for any panes, processes and ports and any number of failed calls:

* `TypeCorrect`: `Spec => []TypeOK`, which says also that the companion never has two forwards with
  one endpoint or one identifier;
* `Gentle`: `Spec => ScanIsGentle`, for any number of loopback addresses;
* `QuietScans`: `Spec => []ScanIsSound` if there is one loopback address (`Hosts = {h}`).

The assumption is `DiscoveryAssumption`. A scan deletes by the identifiers that it read earlier, so an
identifier must name one forward even after that forward was deleted (`Same`). It does because a new
identifier is none that a forward has or that the scan knows, and `Room` and `FewIds` count that
there is always one left (`NewIdIsNew`; the code draws identifiers at random, so the bound is the
model's, and the proof shows that it never runs out). A quiet scan, one during which nobody else
acted, has seen the host as it is (`Seen`); hence it plans to delete no live forward
(`Spared`), whatever failed before. `Planned` says that what is left of the plan makes the forwards
exact; it is inductive only where an endpoint is determined by its port, and with two loopback
addresses it does fail (`DeadAreGone` above).

`DeploymentProofs` proves, for any editions of a release, any processes that share the cache, and
any number of failures, with operations killed anywhere:

* `Machine`: `Spec => []MachineIsSound`;
* `Origin`: `Spec => []ProvenanceTruthful`;
* `Cache`: `Spec => CacheIsSound`;
* `Sessions`: `Spec => SessionKeepsPlugin`;
* `Removals`: `Spec => RemovalIsWhole`;
* `Endings`: `Spec => EndsWhole`, assuming `~Refusals`.

The assumptions are `FetchersAssumption`, `EditionsAssumption` and `VersionsAssumption` (the process
that installs is among those that share the cache; an edition is neither a damaged file, nor
none, nor the version that was there before). The properties speak of the machine between two
operations, but a remote command that fails may have had any part of its effect, so the invariant
has to say at every step what an operation could go back to. `Going` says it for the way to the
activation (the directory of what was registered, in its version), `Back` for the way after it (the
bundle that was moved aside), `Removing` what a removal has removed so far. `Provenance` keeps the
recorded origin from ever naming an installation that `hfwd` did not make: it is written
last and cleared after the registration. `Releases` and `CacheInv` are about the cache: what is
published was verified before, and what was moved aside is whole if what it replaces was.
Without `~Refusals`, `Endings` is false, as the run `deployment_rollback` shows (see above).

The first part of `SessionProofs` proves, for lists of any length, any panes, places, changes,
losses and requests, and terminals of any of the `Heights`:

* `DashboardListIsSound`: `DashboardSpec => []ListIsSound`;
* `DashboardScreenIsSound`: `DashboardSpec => []ScreenIsSound`;
* `DashboardActsAsSeen`: `DashboardSpec => ActsAsSeen`.

The assumption is `DashboardAssumption`: panes, heights and bounds are natural numbers, a snapshot
maps panes to numbered Spaces and tabs, and a session starts with forwards that are named by their
ids.

The order, the tree and the rows of the screen are computed from sequences, and the provers have
no induction to say what such a computation yields. So the operators are written, and the proofs
are led, without it:

* `Sorted` puts at position k the element with k - 1 others before it. `CountsBefore` says that
  along a strict total order this count grows and stays below the size of the set,
  `EveryPositionIsTaken` that as many elements as positions, no two in one, fill them all: hence a
  permutation in order (`SortedIsSorted`). `BelowIsAnOrder` shows that the keys of the display are
  so ordered;
* the tree is the `FlattenSeq` of one group of lines per forward, headings first. `FlattenLayout`
  gives the line at which each group starts, `GroupsAreApart` and `ForwardLines` say that a
  forward has exactly two lines, one after the other. Where the textbook would use induction over
  a sequence, a *least* position at which the claim fails is refuted (`LeastElement`,
  `EveryPosition`);
* a heading stands where the value of its kind (Space, tab, pane) differs from the one above.
  There are as many such places as values if equal values stand together (`InRuns`,
  `RunsAreValues`), and they do because the list is sorted by them. Hence `HeadedOnce` needs the
  order of the display, which therefore is a part of the invariant.

The invariant, `DashboardInv`, has one part per concern. `ListsInv` says that what is shown is in
order *for the places that are kept beside it*: a refresh that gets no snapshot knows no places,
and must sort by none. `LoopInv` says that the selection is inside the list when the screen has
been drawn, and only then: a refresh may shorten the list under it. `MarksInv` says that the
notice and its cause agree from the end of a refresh to the next, which no key can break because
keys that write a message lead through another refresh. `WorldInv`, `FormInv` and `AskedInv` say
what the companion, forms and requests may hold: a form to remove is for the custom forward that
was selected when it was opened, a toggle asks for the opposite of what was seen. For each group
of variables a frame lemma (`ListsFrame`, `FormFrame`, ...) says which steps touch it; the rest
hardly mentions the others.

Only model-checked:

* liveness under fairness (`RecoveryEnds`, `ExitCompletes`, `SessionsAreHeard`, `StaleSessionEnds`,
  `Converges`, `EveryChangeEnds`, `ShutdownEnds`, `DashboardEnds`, `KeepsUp`), which is out of the
  prover's reach.

## Plan

1. `Registry`, `Preferences`, `Transport`, `Watcher` and `Discovery` with their abstract promises
   and runs (done).
2. `CompanionServer` and `Management`; `Deployment` and `ReleaseCache`; `HerdrConfig` and `Settings`;
   `DashboardTree` and `Dashboard` (done).
3. `SessionLease`: the timed race of the 10 second lease, the 30 second recovery and the
   watcher's 60 second grace, which `Watcher` assumes; with it, 64 stalled clients, each of which may
   hold a heartbeat back for 5 seconds.
4. Two deployments of one machine at once.
5. Proofs: every safety and action property of the passing runs (done).

## Not modelled

Notifications (`notifications.rs` compares two listings and sends texts), sidebar tokens, the drawing
of the welcome pane, Herdr's command line and socket protocol (`herdr.rs`; its calls are steps of
`Watcher`, `Discovery` and `Dashboard`), parsing of `lsof` (`detect.rs`), runtime directories, browser,
doctor, randomness and quoting (`support.rs`, `auth.rs`, `shell.rs`), argument parsing and the checks
before the first connection (`cli.rs`). None of these has state shared between concurrent actors;
what they print or parse is not a subject of these models. The timing of the session lease is
assumed (`GracePasses`). Of `install-plugin-binary.sh` only the outcome is modelled; its rewriting of the
plugin's preferences (lines 9-34) is another writer without a lock. Process metadata, timestamps,
URLs and local port values are left out where no property is about them.
