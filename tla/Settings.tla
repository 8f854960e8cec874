------------------------------ MODULE Settings ------------------------------
(***************************************************************************)
(* The settings of Herdr Fwd on one machine and the processes that change  *)
(* them: the menus of the dashboards (dashboard_actions.rs), the welcome   *)
(* pane and what opens it (onboarding.rs), and the threads in which         *)
(* companions answer the menus' requests (companion.rs).  Two files are      *)
(* edited: Herdr's configuration, under a lock (HerdrConfig), and the        *)
(* plugin's preferences (preferences.rs), by reading the file, changing one  *)
(* key and writing it back, without one.                                     *)
(*                                                                         *)
(* The machine both connects and hosts, so that all of them meet on one      *)
(* configuration; on machines of one role some of them are absent.           *)
(***************************************************************************)
EXTENDS HerdrConfig

CONSTANTS
    Menus,      \* dashboards with their integration menus
    Welcome,    \* the process of the welcome pane
    Starts,     \* configurations the machine may start with
    Saves,     \* documents the user may save
    MaxDepth,   \* MAX_PROCESS_TREE_DEPTH
    MaxAsked    \* changes asked for, without the dismissals of the welcome pane

ASSUME SettingsAssumption ==
    /\ Menus \cup {Welcome} \subseteq Writers /\ Welcome \notin Menus
    /\ Nobody \notin Writers
    /\ Starts \subseteq Documents /\ Saves \subseteq Documents
    /\ MaxDepth \in 0..255 /\ MaxAsked \in Nat

VARIABLES
    prefs,      \* the plugin's preferences
    loaded,     \* what a process is about to write back to them
    kept,       \* what each key was last written as, until a stale write: a ghost
    menu,       \* what each menu shows, and the thread it waits for
    welcome,    \* the welcome pane
    opener,     \* the process that opens it, by an event of Herdr
    machine,    \* [hfwd: is it installed, byHfwd: was the plugin installed by it]
    asked

vars == <<configVars, prefs, loaded, kept, menu, welcome, opener, machine, asked>>
uiVars == <<prefs, loaded, kept, menu, welcome, opener, machine, asked>>

Threads == Writers \ (Menus \cup {Welcome})
People  == Menus \cup {Welcome}
Keys    == {"onboarding", "after", "depth"}
None    == "none"

(* ----------------------------- preferences ----------------------------- *)

AfterForward == {"space", "popup", "nothing"}
Next3(after)     == CASE after = "space" -> "popup" [] after = "popup" -> "nothing" [] OTHER -> "space"
Previous3(after) == CASE after = "space" -> "nothing" [] after = "popup" -> "space" [] OTHER -> "popup"

\* adjust_process_tree_depth, by 1 or by -1
DeeperFaulty(depth) == depth + 1
Deeper(depth)    == IF depth + 1 > MaxDepth THEN 0 ELSE depth + 1
Shallower(depth) == IF depth - 1 < 0 THEN MaxDepth ELSE depth - 1

NotLoaded == [key |-> "none"]
Default   == [onboarding |-> TRUE, after |-> "space", depth |-> IF MaxDepth < 2 THEN MaxDepth ELSE 2]

Free(p) == loaded[p].key = "none" /\ job[p].pc = "idle"

\* Faulty: the other keys are written with their defaults.
LoadFaulty(p, key, value) ==
    loaded' = [loaded EXCEPT ![p] = [key |-> key, copy |-> [Default EXCEPT ![key] = value], lost |-> {}]]

\* load_preferences, and the change of one key in what was loaded; `lost` are the
\* keys that others have written since
Load(p, key, value) ==
    loaded' = [loaded EXCEPT ![p] = [key |-> key, copy |-> [prefs EXCEPT ![key] = value], lost |-> {}]]

\* write_preferences
Save(p) ==
    LET key == loaded[p].key IN
    /\ prefs' = loaded[p].copy
    /\ loaded' = [q \in People |->
                    IF q = p THEN NotLoaded
                    ELSE IF loaded[q].key = "none" THEN NotLoaded
                    ELSE [loaded[q] EXCEPT !.lost = @ \cup {key} \cup loaded[p].lost]]
    /\ kept' = [k \in Keys |-> IF k = key \/ k \in loaded[p].lost
                                THEN prefs'[k] ELSE kept[k]]

(* -------------------------------- menus -------------------------------- *)

Closed == [open |-> FALSE, waits |-> None, after |-> "space", depth |-> 0, ports |-> FALSE]

\* 'h': the preferences, and the companion's answer about its configuration
OpenMenu(m) ==
    /\ ~menu[m].open /\ Free(m)
    /\ config.kind # "broken"
    /\ menu' = [menu EXCEPT ![m] = [open |-> TRUE, waits |-> None, after |-> prefs.after,
                                    depth |-> prefs.depth, ports |-> PortsShown(config)]]
    /\ UNCHANGED <<configVars, prefs, loaded, kept, welcome, opener, machine, asked>>

CloseMenu(m) ==
    /\ menu[m].open /\ menu[m].waits = None /\ Free(m)
    /\ menu' = [menu EXCEPT ![m] = Closed]
    /\ UNCHANGED <<configVars, prefs, loaded, kept, welcome, opener, machine, asked>>

Ready(m) == menu[m].open /\ menu[m].waits = None /\ Free(m) /\ asked < MaxAsked

\* the rows of the menu: after forwarding, and the depth of the process tree,
\* from what the menu shows
ChangePreference(m) ==
    /\ Ready(m)
    /\ \/ \E after \in {Next3(menu[m].after), Previous3(menu[m].after)} : Load(m, "after", after)
       \/ \E depth \in {Deeper(menu[m].depth), Shallower(menu[m].depth)} :
            depth # menu[m].depth /\ Load(m, "depth", depth)
    /\ asked' = asked + 1
    /\ UNCHANGED <<configVars, prefs, kept, menu, welcome, opener, machine>>

\* the menu shows what was written
SavePreference(m) ==
    /\ loaded[m].key \in {"after", "depth"}
    /\ \/ /\ Save(m)
          /\ menu' = [menu EXCEPT ![m] =
                 IF loaded[m].key = "after" THEN [@ EXCEPT !.after = loaded[m].copy.after]
                                            ELSE [@ EXCEPT !.depth = loaded[m].copy.depth]]
       \/ /\ loaded' = [loaded EXCEPT ![m] = NotLoaded]
          /\ UNCHANGED <<prefs, kept, menu>>
    /\ UNCHANGED <<configVars, welcome, opener, machine, asked>>

\* the row of ports and the notifications are the companion's to change
AskCompanion(m, t) ==
    /\ Ready(m) /\ job[t].pc = "idle"
    /\ \/ Start(t, IF menu[m].ports THEN "ports off" ELSE "ports on")
       \/ Start(t, "notify")
    /\ menu' = [menu EXCEPT ![m].waits = t]
    /\ asked' = asked + 1
    /\ UNCHANGED <<config, backup, locker, promised, faults, prefs, loaded, kept, welcome,
                   opener, machine>>

\* A thread answers whoever still waits for it.
Answer(t) ==
    /\ job[t].pc = "answered"
    /\ menu' = [m \in Menus |->
                  IF menu[m].waits # t THEN menu[m]
                  ELSE [menu[m] EXCEPT !.waits = None,
                                       !.ports = IF job[t].ok /\ job[t].op # "notify"
                                                 THEN job[t].ports ELSE @]]
    /\ job' = [job EXCEPT ![t] = NoJob]
    /\ UNCHANGED <<config, backup, locker, promised, faults, prefs, loaded, kept, welcome,
                   opener, machine, asked>>

\* RPC_TIMEOUT: the menu shows an error, the companion goes on
GiveUp(m) ==
    /\ menu[m].waits # None
    /\ menu' = [menu EXCEPT ![m].waits = None]
    /\ UNCHANGED <<configVars, prefs, loaded, kept, welcome, opener, machine, asked>>

\* the shortcut is the dashboard's own to change
AskShortcut(m) ==
    /\ Ready(m)
    /\ Start(m, "shortcut")
    /\ asked' = asked + 1
    /\ UNCHANGED <<config, backup, locker, promised, faults, prefs, loaded, kept, menu, welcome,
                   opener, machine>>

\* and then Herdr is told to reload its configuration
Reload(p) ==
    /\ p \in People
    /\ job[p].pc = "answered"
    /\ job' = [job EXCEPT ![p] = NoJob]
    /\ UNCHANGED <<config, backup, locker, promised, faults, uiVars>>

(* ------------------------------- welcome ------------------------------- *)

Roles  == {"connect", "host", "both"}
NoPane == [open |-> FALSE, hfwd |-> FALSE, byHfwd |-> FALSE]

\* welcome_actions
WelcomeActions(role, w) ==
    (IF w.hfwd THEN {"done"} ELSE IF role = "host" THEN {} ELSE {"install"})
      \cup {"ports on", "shortcut"}
      \cup (IF w.hfwd THEN {} ELSE {"skip"})
      \cup (IF w.byHfwd THEN {"uninstall"} ELSE {})

\* The user reaches any action of any role; on the page of the roles there is
\* the removal of the plugin as well.
Chosen(action) ==
    /\ welcome.open /\ Free(Welcome)
    /\ \E role \in Roles : action \in WelcomeActions(role, welcome)

\* Skip, Done, 'q', or Esc on the first page: set_onboarding(false)
Dismiss ==
    /\ welcome.open /\ Free(Welcome)
    /\ Load(Welcome, "onboarding", FALSE)
    /\ UNCHANGED <<configVars, prefs, kept, menu, welcome, opener, machine, asked>>

\* and the pane closes; it closes as well if the preferences cannot be written
Dismissed ==
    /\ loaded[Welcome].key = "onboarding"
    /\ \/ Save(Welcome)
       \/ /\ loaded' = [loaded EXCEPT ![Welcome] = NotLoaded]
          /\ UNCHANGED <<prefs, kept>>
    /\ welcome' = NoPane
    /\ UNCHANGED <<configVars, menu, opener, machine, asked>>

Configure ==
    /\ asked < MaxAsked
    /\ \E op \in {"ports on", "shortcut"} : Chosen(op) /\ Start(Welcome, op)
    /\ asked' = asked + 1
    /\ UNCHANGED <<config, backup, locker, promised, faults, prefs, loaded, kept, menu, welcome,
                   opener, machine>>

\* install.sh; if it fails the pane shows why
InstallWrapper ==
    /\ Chosen("install")
    /\ welcome' = [welcome EXCEPT !.hfwd = TRUE]
    /\ machine' = [machine EXCEPT !.hfwd = TRUE]
    /\ UNCHANGED <<configVars, prefs, loaded, kept, menu, opener, asked>>

\* the plugin is gone, and with it hfwd's claim on it; then as Dismiss
Uninstall ==
    /\ Chosen("uninstall")
    /\ machine' = [machine EXCEPT !.byHfwd = FALSE]
    /\ Load(Welcome, "onboarding", FALSE)
    /\ UNCHANGED <<configVars, prefs, kept, menu, welcome, opener, asked>>

(* ------------------------------- opening ------------------------------- *)

Idle == [pc |-> "idle", enabled |-> FALSE, dismissed |-> FALSE]

\* maybe_open: the preference first, the session files, which come and go with
\* the wrappers, after
LookAtPreferences ==
    /\ opener.pc = "idle"
    /\ opener' = [pc |-> "loaded", enabled |-> prefs.onboarding, dismissed |-> ~kept.onboarding]
    /\ UNCHANGED <<configVars, prefs, loaded, kept, menu, welcome, machine, asked>>

\* decide_onboarding
ShowsFaulty(enabled, session) == enabled \/ ~session
Shows(enabled, session) == enabled /\ ~session

Decide ==
    /\ opener.pc = "loaded"
    /\ \E session \in BOOLEAN :
         welcome' = IF Shows(opener.enabled, session) /\ ~welcome.open
                    THEN [NoPane EXCEPT !.open = TRUE, !.hfwd = machine.hfwd, !.byHfwd = machine.byHfwd]
                    ELSE welcome
    /\ opener' = Idle
    /\ UNCHANGED <<configVars, prefs, loaded, kept, menu, machine, asked>>

\* A pane is closed, or a companion ends, with what its processes were doing.
Killed(w) ==
    /\ \/ job[w].pc # "idle"
       \/ w \in People /\ loaded[w].key # "none"
    /\ Drop(w)
    /\ loaded' = [p \in People |-> IF p = w THEN NotLoaded ELSE loaded[p]]
    /\ menu' = [m \in Menus |-> IF m = w THEN Closed
                                ELSE IF menu[m].waits = w THEN [menu[m] EXCEPT !.waits = None]
                                ELSE menu[m]]
    /\ welcome' = IF w = Welcome THEN NoPane ELSE welcome
    /\ UNCHANGED <<prefs, kept, opener, machine, asked>>

(* ---------------------------- specification ---------------------------- *)

Init ==
    /\ InitConfig(Starts)
    /\ prefs = Default
    /\ loaded = [p \in People |-> NotLoaded]
    /\ kept = prefs
    /\ menu = [m \in Menus |-> Closed]
    /\ welcome = NoPane
    /\ opener = Idle
    /\ machine = [hfwd |-> FALSE, byHfwd |-> TRUE]
    /\ asked = 0

Work(w) == WriterStep(w) /\ UNCHANGED uiVars

Next ==
    \/ \E w \in Writers : Work(w) \/ Killed(w)
    \/ \E doc \in Saves : Edit(doc) /\ UNCHANGED uiVars
    \/ \E m \in Menus : \/ OpenMenu(m) \/ CloseMenu(m) \/ ChangePreference(m) \/ SavePreference(m)
                        \/ GiveUp(m) \/ AskShortcut(m)
                        \/ \E t \in Threads : AskCompanion(m, t)
    \/ \E t \in Threads : Answer(t)
    \/ \E p \in People : Reload(p)
    \/ Dismiss \/ Dismissed
    \/ Configure \/ InstallWrapper \/ Uninstall
    \/ LookAtPreferences \/ Decide

\* The processes run; people, and the ends of processes, owe nothing.
Fairness ==
    /\ \A w \in Writers : WF_vars(Work(w))
    /\ \A t \in Threads : WF_vars(Answer(t))
    /\ \A p \in People : WF_vars(Reload(p))

Spec == Init /\ [][Next]_vars /\ Fairness

(* ------------------------------ properties ------------------------------ *)

\* The variables keep their types, and the writer that holds the lock is the one
\* that works under it.
TypeOK ==
    /\ ConfigTypeOK
    /\ prefs \in [onboarding : BOOLEAN, after : AfterForward, depth : 0..MaxDepth]
    /\ \A p \in People : loaded[p].key \in Keys \cup {"none"}
    /\ \A m \in Menus : /\ menu[m].waits \in Threads \cup {None}
                        /\ menu[m].after \in AfterForward /\ menu[m].depth \in 0..MaxDepth
    /\ welcome.open \in BOOLEAN
    /\ asked \in 0..MaxAsked

\* A change of one setting leaves the rest of the file as it was, the user's rows
\* and bindings among it, whatever other writers do meanwhile; what does not parse
\* is never touched.  Only the user's own edit under the writer's hands can be lost.
OnlyTheSetting ==
    [][\A w \in Writers :
         (config' # config /\ job[w].pc = "write" /\ job'[w].pc = "written" /\ ~job[w].overtaken) =>
           /\ config.kind # "broken" /\ config'.kind = "toml"
           /\ Setting(job[w].op) # "ports" => config'.rows = config.rows
           /\ config'.rows.others = config.rows.others
           /\ Setting(job[w].op) # "notify" => config'.toast = config.toast
           /\ Setting(job[w].op) # "shortcut" => config'.bound = config.bound]_vars

\* What a menu or the pane was told is saved stays so, until the same setting is
\* changed again or the user edits the file: no writer puts back an older file.
SavedStays == \A s \in Settings : promised[s] # "free" => Says(config, s) = promised[s]

\* Whenever a writer replaces a file that was not empty, the copy beside it is the
\* file it replaces.
BackupIsPrevious ==
    [][\A w \in Writers :
         (config' # config /\ job[w].pc = "write" /\ ~job[w].overtaken /\ config.kind # "empty") =>
           backup = config]_vars

\* A preference keeps the value it was last given.  It is lost only to a process
\* that had read the file before that value was written, and writes it back after:
\* there is no lock on the preferences.
PreferencesKept == \A k \in Keys : prefs[k] = kept[k]

\* A welcome pane that was dismissed is not opened again.
DismissedStaysAway == [][~welcome.open /\ welcome'.open => ~opener.dismissed]_vars

\* Every change that is asked for comes to an end, whoever holds the lock and
\* whoever is killed (the changes asked for are bounded).
EveryChangeEnds == []<>(\A w \in Writers : job[w].pc = "idle")
\* What the user was told is saved is in Herdr's configuration.
ConfigIsSound == TypeOK /\ SavedStays

\* A write to Herdr's configuration changes the setting it is for, and leaves the file
\* before the change beside it.
WritesAreExact == OnlyTheSetting /\ BackupIsPrevious

\* The plugin keeps to what the user last chose: preferences stay, and a welcome pane that
\* was dismissed stays away.
ChoicesAreKept == []PreferencesKept /\ DismissedStaysAway
=============================================================================
