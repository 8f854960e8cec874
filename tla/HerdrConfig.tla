---------------------------- MODULE HerdrConfig ----------------------------
(***************************************************************************)
(* Herdr's configuration file and the edits that Herdr Fwd makes to it:    *)
(* the row of ports in the sidebar, the delivery of notifications and the  *)
(* shortcut of the dashboard (herdr_config.rs).  Several processes of one   *)
(* machine edit the file: companions for the dashboards of their sessions,  *)
(* dashboards and the welcome pane for themselves.  They take a lock; the   *)
(* user's editor does not.                                                  *)
(*                                                                         *)
(* A document is what the edits read and write of it: the rows of the       *)
(* sidebar, the delivery, what is bound to the shortcut.  `others` stands    *)
(* for the rows that are not the row of ports and for their order.          *)
(***************************************************************************)
EXTENDS Integers, Sequences, FiniteSets, TLC

CONSTANTS
    Writers,    \* the processes that edit the file for Herdr Fwd
    MaxFaults   \* edits of the user, and processes killed half way

ASSUME ConfigAssumption ==
    MaxFaults \in Nat /\ IsFiniteSet(Writers)

VARIABLES
    config,     \* the file
    backup,     \* the copy beside it
    locker,     \* the writer that holds the lock file, or Nobody
    job,        \* what each writer is doing
    promised,   \* what each setting was last reported as saved as: a ghost
    faults      \* how many edits and kills there were

configVars == <<config, backup, locker, job, promised, faults>>

Nobody == "nobody"

(* ------------------------------ documents ------------------------------ *)

NoRows == [shape |-> "unset", others |-> "default", ports |-> 0]
RowsOf(others, ports) == [shape |-> "array", others |-> others, ports |-> ports]
\* `rows` is no array; a table on the way to it is written inline
OddRows    == [NoRows EXCEPT !.shape = "odd"]
InlineRows == [NoRows EXCEPT !.shape = "inline"]

Empty  == [kind |-> "empty", rows |-> NoRows, toast |-> "unset", bound |-> <<>>]
Broken == [Empty EXCEPT !.kind = "broken"]
Toml(rows, toast, bound) == [kind |-> "toml", rows |-> rows, toast |-> toast, bound |-> bound]

\* `bound`: what the shortcut is bound to, in the order of the file: "ours",
\* "half" (our command under another type), "clash"; <<"odd">> if the table of
\* commands is something else.
Documents ==
    {Empty, Broken}
      \cup {Toml(rows, toast, bound) :
              rows  \in {NoRows, OddRows, InlineRows}
                          \cup {RowsOf(o, n) : o \in {"default", "user"}, n \in 0..2},
              toast \in {"unset", "herdr", "off", "odd"},
              bound \in {<<>>, <<"ours">>, <<"half">>, <<"clash">>, <<"odd">>,
                         <<"clash", "ours">>}}

First(bound) == IF bound = <<>> THEN "nothing" ELSE Head(bound)

(* -------------------------------- edits -------------------------------- *)

Ops == {"ports on", "ports off", "notify", "shortcut"}

\* What the edits write.  A row is added at the end, after Herdr's own rows if
\* the file had none; of the bindings of the key only the first is looked at, and
\* not its type.
AddRowFaulty(doc) == [doc EXCEPT !.kind = "toml", !.rows = RowsOf("default", 1)]
AddRow(doc)    == [doc EXCEPT !.kind = "toml",
                              !.rows = RowsOf(@.others, IF @.ports = 0 THEN 1 ELSE @.ports)]
RemoveRow(doc) == [doc EXCEPT !.rows.ports = 0]
Notify(doc)    == [doc EXCEPT !.kind = "toml", !.toast = "herdr"]
Bind(doc)      == IF doc.bound = <<>> THEN [doc EXCEPT !.kind = "toml", !.bound = <<"ours">>]
                                      ELSE doc

Updated(doc, op) ==
    CASE op = "ports on"  -> AddRow(doc)
      [] op = "ports off" -> RemoveRow(doc)
      [] op = "notify"    -> Notify(doc)
      [] op = "shortcut"  -> Bind(doc)

\* Whether an edit goes through: nothing is written to what does not parse, has
\* another shape, or has bound the key; a second row of ports is left alone by
\* verify_ports_row_change.  `defaults`: herdr --default-config gave the rows.
Accepts(doc, op, defaults) ==
    /\ doc.kind # "broken"
    /\ CASE op = "ports on"  -> \/ doc.rows.shape = "array"
                                \/ doc.rows.shape = "unset" /\ defaults
         [] op = "ports off" -> doc.rows.shape # "odd" /\ doc.rows.ports < 2
         [] op = "notify"    -> doc.toast # "odd"
         [] op = "shortcut"  -> First(doc.bound) \in {"nothing", "ours", "half"}

\* The setting an edit is about, and what the file says of it.
Setting(op) == IF op \in {"ports on", "ports off"} THEN "ports" ELSE op
Settings == {"ports", "notify", "shortcut"}
Says(doc, setting) ==
    IF CASE setting = "ports"    -> doc.rows.ports > 0
         [] setting = "notify"   -> doc.toast = "herdr"
         [] setting = "shortcut" -> First(doc.bound) \in {"ours", "half"}
    THEN "on" ELSE "off"

\* dashboard_setup_status, of which the menu of ports depends on this
PortsShown(doc) == doc.rows.ports > 0

(* ------------------------------- writers ------------------------------- *)

\* `overtaken`: the user has edited the file since the writer read it
NoJob == [pc |-> "idle", op |-> "none", plan |-> Empty, overtaken |-> FALSE,
          ok |-> FALSE, ports |-> FALSE]

InitConfig(documents) ==
    /\ config \in documents
    /\ backup = Empty
    /\ locker = Nobody
    /\ job = [w \in Writers |-> NoJob]
    /\ promised = [s \in Settings |-> "free"]
    /\ faults = 0

Start(w, op) == job' = [job EXCEPT ![w] = [NoJob EXCEPT !.pc = "queued", !.op = op]]

Saved(w) ==
    LET op == job[w].op IN
    /\ job' = [job EXCEPT ![w].pc = "written"]
    /\ promised' = [promised EXCEPT ![Setting(op)] = IF op = "ports off" THEN "off" ELSE "on"]

Unlock(w) == locker' = IF locker = w THEN Nobody ELSE locker
Fail(w)   == /\ job' = [job EXCEPT ![w] = [NoJob EXCEPT !.pc = "answered"]]
             /\ Unlock(w)
             /\ UNCHANGED promised

\* Faulty: the lock is taken on the file itself, which does not survive its
\* replacement.
AcquireFaulty(w) ==
    /\ job[w].pc = "queued"
    /\ locker' = w
    /\ job' = [job EXCEPT ![w].pc = "locked"]
    /\ UNCHANGED <<config, backup, promised, faults>>

\* update_config: the lock, and only then the file
Acquire(w) ==
    /\ job[w].pc = "queued"
    /\ locker = Nobody
    /\ locker' = w
    /\ job' = [job EXCEPT ![w].pc = "locked"]
    /\ UNCHANGED <<config, backup, promised, faults>>

\* Faulty: a backup that is there is not replaced.
ReadFaulty(w) ==
    /\ job[w].pc = "locked"
    /\ LET plan == Updated(config, job[w].op) IN
       \/ Fail(w)        \* the file, or Herdr's defaults, cannot be read
       \/ /\ ~Accepts(config, job[w].op, TRUE)
          /\ Fail(w)
       \/ /\ Accepts(config, job[w].op, TRUE)
          /\ plan = config
          /\ Saved(w)
          /\ Unlock(w)
       \/ /\ Accepts(config, job[w].op, TRUE)
          /\ plan # config
          /\ job' = [job EXCEPT ![w].plan = plan,
                                ![w].pc = IF config.kind = "empty" \/ backup.kind # "empty"
                                        THEN "write" ELSE "backup"]
          /\ UNCHANGED <<locker, promised>>
    /\ UNCHANGED <<config, backup, faults>>

Read(w) ==
    /\ job[w].pc = "locked"
    /\ LET plan == Updated(config, job[w].op) IN
       \/ Fail(w)        \* the file, or Herdr's defaults, cannot be read
       \/ /\ ~Accepts(config, job[w].op, TRUE)
          /\ Fail(w)
       \/ /\ Accepts(config, job[w].op, TRUE)
          /\ plan = config
          /\ Saved(w)
          /\ Unlock(w)
       \/ /\ Accepts(config, job[w].op, TRUE)
          /\ plan # config
          /\ job' = [job EXCEPT ![w].plan = plan,
                                ![w].pc = IF config.kind = "empty" THEN "write" ELSE "backup"]
          /\ UNCHANGED <<locker, promised>>
    /\ UNCHANGED <<config, backup, faults>>

\* what is copied is the file as it is now
BackUp(w) ==
    /\ job[w].pc = "backup"
    /\ \/ /\ backup' = config
          /\ job' = [job EXCEPT ![w].pc = "write"]
          /\ UNCHANGED <<locker, promised>>
       \/ /\ Fail(w)
          /\ UNCHANGED backup
    /\ UNCHANGED <<config, faults>>

\* atomic::write_file: all or nothing
Write(w) ==
    /\ job[w].pc = "write"
    /\ \/ /\ config' = job[w].plan
          /\ Saved(w)
          /\ Unlock(w)
       \/ /\ Fail(w)
          /\ UNCHANGED config
    /\ UNCHANGED <<backup, faults>>

\* the status is read after the lock is given back
ReadStatus(w) ==
    /\ job[w].pc = "written"
    /\ IF config.kind = "broken"
       THEN Fail(w)
       ELSE /\ job' = [job EXCEPT ![w] = [NoJob EXCEPT !.pc = "answered", !.op = job[w].op,
                                          !.ok = TRUE, !.ports = PortsShown(config)]]
            /\ UNCHANGED <<locker, promised>>
    /\ UNCHANGED <<config, backup, faults>>

\* Faulty: the lock is a file that its owner removes.
DropFaulty(w) ==
    /\ faults < MaxFaults
    /\ faults' = faults + 1
    /\ job' = [job EXCEPT ![w] = NoJob]
    /\ UNCHANGED <<config, backup, locker, promised>>

\* The process ends; the operating system gives the lock back.
Drop(w) ==
    /\ faults < MaxFaults
    /\ faults' = faults + 1
    /\ job' = [job EXCEPT ![w] = NoJob]
    /\ Unlock(w)
    /\ UNCHANGED <<config, backup, promised>>

\* The user saves another document over the file.
Edit(doc) ==
    /\ faults < MaxFaults
    /\ doc # config
    /\ config' = doc
    /\ faults' = faults + 1
    /\ promised' = [s \in Settings |-> "free"]
    /\ job' = [w \in Writers |-> [job[w] EXCEPT !.overtaken = job[w].pc \in {"backup", "write"}]]
    /\ UNCHANGED <<backup, locker>>

WriterStep(w) == Acquire(w) \/ Read(w) \/ BackUp(w) \/ Write(w) \/ ReadStatus(w)

ConfigTypeOK ==
    /\ config \in Documents
    /\ backup \in Documents
    /\ locker \in Writers \cup {Nobody}
    /\ \A w \in Writers :
         /\ job[w].pc \in {"idle", "queued", "locked", "backup", "write", "written", "answered"}
         /\ job[w].op \in Ops \cup {"none"}
         /\ job[w].plan \in Documents
         /\ locker = w <=> job[w].pc \in {"locked", "backup", "write"}
    /\ promised \in [Settings -> {"free", "on", "off"}]
    /\ faults \in 0..MaxFaults
============================================================================
