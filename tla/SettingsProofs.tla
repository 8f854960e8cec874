--------------------------- MODULE SettingsProofs ---------------------------
(***************************************************************************)
(* Proofs about Settings, for any number of menus, of threads and other     *)
(* processes that edit Herdr's configuration, of edits by the user and of   *)
(* processes killed half way, from any configurations.                      *)
(*                                                                         *)
(* The argument for the configuration: an edit that goes through changes    *)
(* its setting only (EditFacts, proved of each edit over all documents).    *)
(* Its plan stays such an edit of the file as it is, because whoever else    *)
(* writes needs the lock; only the user does not, and after him nothing is  *)
(* promised until the holder of the lock is done (WriterInv).               *)
(*                                                                         *)
(* For the preferences, which have no lock: what a process read is still     *)
(* what the file says, but for the key it changes and those that others     *)
(* have written since (Fresh).                                             *)
(***************************************************************************)
EXTENDS Settings, TLAPS

Held == {"locked", "backup", "write"}
Steps == Held \cup {"idle", "queued", "written", "answered"}
Job == [pc : Steps, op : Ops \cup {"none"}, plan : Documents, overtaken : BOOLEAN,
        ok : BOOLEAN, ports : BOOLEAN]

\* What a setting is once the edit op is written.
Target(op) == IF op = "ports off" THEN "off" ELSE "on"

-----------------------------------------------------------------------------
(* Documents and edits.                                                    *)

RowShapes == {NoRows, OddRows, InlineRows}
                \cup {RowsOf(o, n) : o \in {"default", "user"}, n \in 0..2}
Toasts == {"unset", "herdr", "off", "odd"}
Bounds == {<<>>, <<"ours">>, <<"half">>, <<"clash">>, <<"odd">>, <<"clash", "ours">>}
Doc == [kind : {"empty", "broken", "toml"}, rows : RowShapes, toast : Toasts, bound : Bounds]

LEMMA DocumentShape ==
    \A doc : doc \in Documents <=>
        /\ doc \in Doc
        /\ doc.kind \in {"empty", "broken"} =>
             doc.rows = NoRows /\ doc.toast = "unset" /\ doc.bound = <<>>
<1> TAKE doc
<1>1. NoRows \in RowShapes /\ "unset" \in Toasts /\ <<>> \in Bounds
  BY DEF RowShapes, Toasts, Bounds
<1>2. ASSUME doc \in Documents
      PROVE  /\ doc \in Doc
             /\ doc.kind \in {"empty", "broken"} =>
                  doc.rows = NoRows /\ doc.toast = "unset" /\ doc.bound = <<>>
  <2>1. CASE doc \in {Empty, Broken}
    BY <2>1, <1>1 DEF Empty, Broken, Doc
  <2>2. CASE \E rows \in RowShapes, toast \in Toasts, bound \in Bounds :
               doc = Toml(rows, toast, bound)
    BY <2>2 DEF Toml, Doc
  <2> QED BY <1>2, <2>1, <2>2 DEF Documents, RowShapes, Toasts, Bounds
<1>3. ASSUME doc \in Doc,
             doc.kind \in {"empty", "broken"} =>
               doc.rows = NoRows /\ doc.toast = "unset" /\ doc.bound = <<>>
      PROVE  doc \in Documents
  <2>1. doc = [kind |-> doc.kind, rows |-> doc.rows, toast |-> doc.toast, bound |-> doc.bound]
    BY <1>3 DEF Doc
  <2>2. CASE doc.kind = "toml"
    <3>1. doc = Toml(doc.rows, doc.toast, doc.bound)
      BY <2>1, <2>2 DEF Toml
    <3>2. doc.rows \in RowShapes /\ doc.toast \in Toasts /\ doc.bound \in Bounds
      BY <1>3 DEF Doc
    <3> QED BY <3>1, <3>2 DEF Documents, RowShapes, Toasts, Bounds
  <2>3. CASE doc.kind = "empty"
    BY <1>3, <2>1, <2>3 DEF Documents, Empty
  <2>4. CASE doc.kind = "broken"
    BY <1>3, <2>1, <2>4 DEF Documents, Empty, Broken
  <2> QED BY <1>3, <2>2, <2>3, <2>4 DEF Doc
<1> QED BY <1>2, <1>3

LEMMA EmptyIsDocument == Empty \in Documents
BY DEF Documents

LEMMA RowFacts ==
    ASSUME NEW rows \in RowShapes
    PROVE  /\ rows = [shape |-> rows.shape, others |-> rows.others, ports |-> rows.ports]
           /\ rows.ports \in 0..2
           /\ rows.shape \in {"array", "unset"} =>
                [rows EXCEPT !.ports = 0] \in RowShapes /\
                RowsOf(rows.others, IF rows.ports = 0 THEN 1 ELSE rows.ports) \in RowShapes
           /\ rows.shape # "array" => rows.ports = 0
<1>1. CASE rows \in {NoRows, OddRows, InlineRows}
  BY <1>1 DEF NoRows, OddRows, InlineRows, RowsOf, RowShapes
<1>2. CASE \E o \in {"default", "user"}, n \in 0..2 : rows = RowsOf(o, n)
  BY <1>2 DEF NoRows, OddRows, InlineRows, RowsOf, RowShapes
<1> QED BY <1>1, <1>2 DEF RowShapes

LEMMA RowsOffFacts ==
    ASSUME NEW rows \in RowShapes, rows.shape # "odd"
    PROVE  /\ [rows EXCEPT !.ports = 0] \in RowShapes
           /\ [rows EXCEPT !.ports = 0].others = rows.others
           /\ [rows EXCEPT !.ports = 0].ports = 0
<1>1. CASE rows \in {NoRows, InlineRows}
  BY <1>1 DEF NoRows, InlineRows, RowShapes
<1>2. CASE \E o \in {"default", "user"}, n \in 0..2 : rows = RowsOf(o, n)
  <2>1. PICK o \in {"default", "user"}, n \in 0..2 : rows = RowsOf(o, n)
    BY <1>2
  <2>2. [rows EXCEPT !.ports = 0] = RowsOf(o, 0)
    BY <2>1 DEF RowsOf
  <2> QED BY <2>1, <2>2 DEF RowShapes, RowsOf
<1> QED BY <1>1, <1>2 DEF RowShapes, OddRows, NoRows

\* An edit that goes through leaves a document, says what it is to say, and leaves the
\* other settings and the user's rows alone.
EditFacts(doc, op, now) ==
    /\ now \in Documents
    /\ Says(now, Setting(op)) = Target(op)
    /\ \A s \in Settings \ {Setting(op)} : Says(now, s) = Says(doc, s)
    /\ now # doc =>
         /\ doc.kind # "broken" /\ now.kind = "toml"
         /\ Setting(op) # "ports" => now.rows = doc.rows
         /\ now.rows.others = doc.rows.others
         /\ Setting(op) # "notify" => now.toast = doc.toast
         /\ Setting(op) # "shortcut" => now.bound = doc.bound

Rec(kind, rows, toast, bound) ==
    [kind |-> kind, rows |-> rows, toast |-> toast, bound |-> bound]

LEMMA RecFacts ==
    /\ \A k, r, t, b : /\ Rec(k, r, t, b).kind = k /\ Rec(k, r, t, b).rows = r
                       /\ Rec(k, r, t, b).toast = t /\ Rec(k, r, t, b).bound = b
    /\ \A doc \in Doc : doc = Rec(doc.kind, doc.rows, doc.toast, doc.bound)
    /\ \A k, r, t, b : \A doc \in [kind : {k}, rows : {r}, toast : {t}, bound : {b}] :
         doc = Rec(k, r, t, b)
BY DEF Rec, Doc

One(ports) == IF ports = 0 THEN 1 ELSE ports
OnRows(r)  == RowsOf(r.others, One(r.ports))
OffRows(r) == [r EXCEPT !.ports = 0]
Ours == <<"ours">>

\* What the edits make of a document.
LEMMA RemoveShape == \A k, r, t, b : Updated(Rec(k, r, t, b), "ports off") = Rec(k, OffRows(r), t, b)
<1> TAKE k, r, t, b
<1>1. RemoveRow(Rec(k, r, t, b)) \in [kind : {k}, rows : {OffRows(r)}, toast : {t}, bound : {b}]
  BY DEF RemoveRow, Rec, OffRows
<1>2. RemoveRow(Rec(k, r, t, b)) = Rec(k, OffRows(r), t, b)
  BY <1>1, RecFacts
<1> QED BY <1>2 DEF Updated

LEMMA NotifyShape == \A k, r, t, b : Updated(Rec(k, r, t, b), "notify") = Rec("toml", r, "herdr", b)
<1> TAKE k, r, t, b
<1>1. Notify(Rec(k, r, t, b)) \in [kind : {"toml"}, rows : {r}, toast : {"herdr"}, bound : {b}]
  BY DEF Notify, Rec
<1>2. Notify(Rec(k, r, t, b)) = Rec("toml", r, "herdr", b)
  BY <1>1, RecFacts
<1> QED BY <1>2 DEF Updated

LEMMA BindShape == \A k, r, t : Updated(Rec(k, r, t, <<>>), "shortcut") = Rec("toml", r, t, Ours)
<1> TAKE k, r, t
<1>1. [Rec(k, r, t, <<>>) EXCEPT !.kind = "toml", !.bound = Ours]
        \in [kind : {"toml"}, rows : {r}, toast : {t}, bound : {Ours}]
  BY DEF Rec
<1>2. [Rec(k, r, t, <<>>) EXCEPT !.kind = "toml", !.bound = Ours] = Rec("toml", r, t, Ours)
  BY <1>1, RecFacts
<1>3. Rec(k, r, t, <<>>).bound = <<>>
  BY RecFacts
<1>4. Bind(Rec(k, r, t, <<>>)) = Rec("toml", r, t, Ours)
  BY <1>2, <1>3 DEF Bind, Ours
<1> QED BY <1>4 DEF Updated

LEMMA BoundShape == \A doc : doc.bound # <<>> => Updated(doc, "shortcut") = doc
BY DEF Updated, Bind

\* A document as the record of its parts.
Parts(doc, k, r, t, b) ==
    /\ doc = Rec(k, r, t, b)
    /\ doc.kind = k /\ doc.rows = r /\ doc.toast = t /\ doc.bound = b

LEMMA AddShape ==
    ASSUME NEW doc, NEW k, NEW r, NEW t, NEW b, Parts(doc, k, r, t, b)
    PROVE  Updated(doc, "ports on") = Rec("toml", OnRows(r), t, b)
<1>1. doc = Rec(k, r, t, b)
  BY DEF Parts
<1>2. AddRow(Rec(k, r, t, b)) \in [kind : {"toml"}, rows : {OnRows(r)}, toast : {t}, bound : {b}]
  BY DEF AddRow, Rec, One, OnRows
<1>3. AddRow(Rec(k, r, t, b)) = Rec("toml", OnRows(r), t, b)
  BY <1>2, RecFacts
<1>4. Updated(doc, "ports on") = AddRow(doc)
  BY DEF Updated
<1> QED BY <1>1, <1>3, <1>4

LEMMA RemoveShapeOf ==
    ASSUME NEW doc, NEW k, NEW r, NEW t, NEW b, Parts(doc, k, r, t, b)
    PROVE  Updated(doc, "ports off") = Rec(k, OffRows(r), t, b)
<1>1. doc = Rec(k, r, t, b)
  BY DEF Parts
<1>2. Updated(Rec(k, r, t, b), "ports off") = Rec(k, OffRows(r), t, b)
  BY RemoveShape, Zenon
<1> QED BY <1>1, <1>2, Zenon

LEMMA PartsOf ==
    ASSUME NEW doc \in Documents
    PROVE  \E k \in {"empty", "broken", "toml"}, r \in RowShapes, t \in Toasts, b \in Bounds :
             /\ Parts(doc, k, r, t, b)
             /\ k # "toml" => r = NoRows /\ t = "unset" /\ b = <<>>
<1>1. doc \in Doc /\ (doc.kind # "toml" => doc.rows = NoRows /\ doc.toast = "unset" /\ doc.bound = <<>>)
  BY DocumentShape DEF Doc
<1> QED BY <1>1, RecFacts DEF Parts, Doc

LEMMA PartsMake ==
    ASSUME NEW k \in {"empty", "broken", "toml"}, NEW r \in RowShapes, NEW t \in Toasts, NEW b \in Bounds,
           k # "toml" => r = NoRows /\ t = "unset" /\ b = <<>>
    PROVE  Rec(k, r, t, b) \in Documents /\ Parts(Rec(k, r, t, b), k, r, t, b)
<1>1. Rec(k, r, t, b) \in Doc
  BY DEF Rec, Doc
<1> QED BY <1>1, RecFacts, DocumentShape DEF Parts

\* What a document says of each setting is in the part of that setting.
LEMMA SaysIs ==
    ASSUME NEW doc, NEW k, NEW r, NEW t, NEW b, Parts(doc, k, r, t, b)
    PROVE  /\ Says(doc, "ports") = IF r.ports > 0 THEN "on" ELSE "off"
           /\ Says(doc, "notify") = IF t = "herdr" THEN "on" ELSE "off"
           /\ Says(doc, "shortcut") = IF First(b) \in {"ours", "half"} THEN "on" ELSE "off"
<1>1. Says(doc, "ports") = IF r.ports > 0 THEN "on" ELSE "off"
  BY DEF Says, Parts
<1>2. Says(doc, "notify") = IF t = "herdr" THEN "on" ELSE "off"
  BY DEF Says, Parts
<1>3. Says(doc, "shortcut") = IF First(b) \in {"ours", "half"} THEN "on" ELSE "off"
  BY DEF Says, Parts
<1> QED BY <1>1, <1>2, <1>3

LEMMA RowsOnFacts ==
    ASSUME NEW r \in RowShapes, r.shape \in {"array", "unset"}
    PROVE  /\ OnRows(r) \in RowShapes
           /\ OnRows(r).ports > 0
           /\ OnRows(r).others = r.others
<1>1. r.ports \in 0..2 /\ RowsOf(r.others, One(r.ports)) \in RowShapes
  BY RowFacts DEF One
<1>2. One(r.ports) > 0
  BY <1>1 DEF One
<1> QED BY <1>1, <1>2 DEF RowsOf, OnRows

LEMMA PortsOnFacts ==
    ASSUME NEW doc \in Documents, Accepts(doc, "ports on", TRUE)
    PROVE  EditFacts(doc, "ports on", Updated(doc, "ports on"))
<1> PICK k \in {"empty", "broken", "toml"}, r \in RowShapes, t \in Toasts, b \in Bounds :
           Parts(doc, k, r, t, b)
  BY PartsOf
<1>0. Updated(doc, "ports on") = Rec("toml", OnRows(r), t, b)
  BY AddShape
<1> DEFINE rows == OnRows(r)
<1> DEFINE now == Rec("toml", rows, t, b)
<1>1. doc.kind # "broken" /\ r.shape \in {"array", "unset"}
  BY DEF Accepts, Parts
<1>2. Updated(doc, "ports on") = now
  BY <1>0
<1>3. rows \in RowShapes /\ rows.ports > 0 /\ rows.others = r.others
  BY <1>1, RowsOnFacts
<1> HIDE DEF rows
<1>4. now \in Documents /\ Parts(now, "toml", rows, t, b)
  BY <1>3, PartsMake
<1> HIDE DEF now
<1>5. Says(now, "ports") = "on"
  BY <1>3, <1>4, SaysIs
<1>6. Says(now, "notify") = Says(doc, "notify") /\ Says(now, "shortcut") = Says(doc, "shortcut")
  BY <1>4, SaysIs
<1> QED BY <1>1, <1>2, <1>3, <1>4, <1>5, <1>6 DEF EditFacts, Setting, Target, Settings, Parts

LEMMA ZeroIsNone == \A n : n = 0 => ~(n > 0)
OBVIOUS

LEMMA NoRowsOff == [NoRows EXCEPT !.ports = 0] = NoRows
BY DEF NoRows

LEMMA PortsOffFacts ==
    ASSUME NEW doc \in Documents, Accepts(doc, "ports off", TRUE)
    PROVE  EditFacts(doc, "ports off", Updated(doc, "ports off"))
<1> PICK k \in {"empty", "broken", "toml"}, r \in RowShapes, t \in Toasts, b \in Bounds :
           /\ Parts(doc, k, r, t, b)
           /\ k # "toml" => r = NoRows /\ t = "unset" /\ b = <<>>
  BY PartsOf
<1>0. Updated(doc, "ports off") = Rec(k, OffRows(r), t, b)
  BY RemoveShapeOf
<1> DEFINE rows == OffRows(r)
<1> DEFINE now == Rec(k, rows, t, b)
<1>1. doc.kind # "broken" /\ r.shape # "odd"
  BY DEF Accepts, Parts
<1>2. Updated(doc, "ports off") = now
  BY <1>0
<1>3. rows \in RowShapes /\ rows.ports = 0 /\ rows.others = r.others
  BY <1>1, RowsOffFacts DEF OffRows
<1>4. r = NoRows => rows = NoRows
  BY NoRowsOff DEF OffRows
<1> HIDE DEF rows
<1>5. now \in Documents /\ Parts(now, k, rows, t, b)
  BY <1>3, <1>4, PartsMake
<1>6. now # doc => k = "toml"
  BY <1>4 DEF Parts
<1> HIDE DEF now
<1>7. ~(rows.ports > 0)
  BY <1>3, ZeroIsNone
<1>8. Says(now, "ports") = "off"
  BY <1>5, <1>7, SaysIs
<1>9. Says(now, "notify") = Says(doc, "notify") /\ Says(now, "shortcut") = Says(doc, "shortcut")
  BY <1>5, SaysIs
<1> QED BY <1>1, <1>2, <1>3, <1>5, <1>6, <1>8, <1>9 DEF EditFacts, Setting, Target, Settings, Parts

LEMMA NotifyFacts ==
    ASSUME NEW doc \in Documents, Accepts(doc, "notify", TRUE)
    PROVE  EditFacts(doc, "notify", Updated(doc, "notify"))
<1> PICK k \in {"empty", "broken", "toml"}, r \in RowShapes, t \in Toasts, b \in Bounds :
           Parts(doc, k, r, t, b)
  BY PartsOf
<1> DEFINE now == Rec("toml", r, "herdr", b)
<1>1. doc.kind # "broken"
  BY DEF Accepts
<1>2. Updated(doc, "notify") = now
  BY NotifyShape DEF Parts
<1>3. now \in Documents /\ Parts(now, "toml", r, "herdr", b)
  BY PartsMake DEF Toasts
<1> HIDE DEF now
<1>4. Says(now, "notify") = "on"
  BY <1>3, SaysIs
<1>5. Says(now, "ports") = Says(doc, "ports") /\ Says(now, "shortcut") = Says(doc, "shortcut")
  BY <1>3, SaysIs
<1> QED BY <1>1, <1>2, <1>3, <1>4, <1>5 DEF EditFacts, Setting, Target, Settings, Parts

LEMMA FirstFacts ==
    First(Ours) = "ours" /\ \A b \in Bounds : First(b) = "nothing" => b = <<>>
BY DEF Bounds, First, Ours

LEMMA ShortcutFacts ==
    ASSUME NEW doc \in Documents, Accepts(doc, "shortcut", TRUE)
    PROVE  EditFacts(doc, "shortcut", Updated(doc, "shortcut"))
<1> PICK k \in {"empty", "broken", "toml"}, r \in RowShapes, t \in Toasts, b \in Bounds :
           Parts(doc, k, r, t, b)
  BY PartsOf
<1>1. doc.kind # "broken" /\ First(b) \in {"nothing", "ours", "half"}
  BY DEF Accepts, Parts
<1>2. CASE b = <<>>
  <2> DEFINE now == Rec("toml", r, t, Ours)
  <2>1. Updated(doc, "shortcut") = now
    BY <1>2, BindShape DEF Parts
  <2>2. now \in Documents /\ Parts(now, "toml", r, t, Ours)
    <3>1. Ours \in Bounds
      BY DEF Bounds, Ours
    <3> QED BY <3>1, PartsMake
  <2> HIDE DEF now
  <2>3. Says(now, "shortcut") = "on"
    BY <2>2, SaysIs, FirstFacts
  <2>4. Says(now, "ports") = Says(doc, "ports") /\ Says(now, "notify") = Says(doc, "notify")
    BY <2>2, SaysIs
  <2> QED BY <1>1, <2>1, <2>2, <2>3, <2>4 DEF EditFacts, Setting, Target, Settings, Parts
<1>3. CASE b # <<>>
  <2>1. Updated(doc, "shortcut") = doc
    BY <1>3, BoundShape DEF Parts
  <2>2. First(b) \in {"ours", "half"}
    BY <1>1, <1>3, FirstFacts
  <2>3. Says(doc, "shortcut") = "on"
    BY <2>2, SaysIs
  <2> QED BY <2>1, <2>3 DEF EditFacts, Setting, Target, Settings
<1> QED BY <1>2, <1>3

LEMMA Edits ==
    ASSUME NEW doc \in Documents, NEW op \in Ops, Accepts(doc, op, TRUE)
    PROVE  EditFacts(doc, op, Updated(doc, op))
BY PortsOnFacts, PortsOffFacts, NotifyFacts, ShortcutFacts DEF Ops

-----------------------------------------------------------------------------
(* The configuration: one writer at a time, and its plan.                   *)

AllFree == \A s \in Settings : promised[s] = "free"

\* What a writer is about to write says what was asked for, and is an edit of the file as
\* it is, unless the user has edited the file since; then nothing is promised.
WriterInv(w) ==
    /\ job[w].pc \in {"queued", "locked", "backup", "write", "written"} => job[w].op \in Ops
    /\ job[w].pc \in {"queued", "locked"} => ~job[w].overtaken
    /\ job[w].pc \in {"backup", "write"} =>
         /\ Says(job[w].plan, Setting(job[w].op)) = Target(job[w].op)
         /\ job[w].overtaken => AllFree
         /\ ~job[w].overtaken => EditFacts(config, job[w].op, job[w].plan)
    /\ job[w].pc = "write" /\ ~job[w].overtaken /\ config.kind # "empty" => backup = config

ConfigTypes ==
    /\ config \in Documents /\ backup \in Documents
    /\ locker \in Writers \cup {Nobody}
    /\ job \in [Writers -> Job]
    /\ \A w \in Writers : locker = w <=> job[w].pc \in Held
    /\ promised \in [Settings -> {"free", "on", "off"}]

ConfigInv ==
    /\ ConfigTypes
    /\ SavedStays
    /\ \A w \in Writers : WriterInv(w)

LEMMA SettingOf == \A op \in Ops : Setting(op) \in Settings /\ Target(op) \in {"on", "off"}
BY DEF Ops, Setting, Settings, Target

LEMMA NoJobType == NoJob \in Job
BY EmptyIsDocument DEF NoJob, Job, Steps, Held

LEMMA NobodyWrites == \A w \in Writers : w # Nobody
BY SettingsAssumption

\* What others do who do not write leaves a writer as it was.
LEMMA OthersStay ==
    ASSUME ConfigInv, NEW d \in Writers, job'[d] = job[d], UNCHANGED config,
           job[d].pc \in Held => UNCHANGED <<backup, promised>>
    PROVE  WriterInv(d)'
<1>1. WriterInv(d)
  BY DEF ConfigInv
<1>2. CASE job[d].pc \in Held
  <2>1. UNCHANGED <<backup, promised>>
    BY <1>2
  <2>2. AllFree' <=> AllFree
    BY <2>1 DEF AllFree
  <2> QED BY <1>1, <2>1, <2>2 DEF WriterInv
<1>3. CASE job[d].pc \notin Held
  BY <1>1, <1>3 DEF WriterInv, Held
<1> QED BY <1>2, <1>3

\* Nor does the write of the holder of the lock matter to those who do not hold it.
LEMMA OthersWait ==
    ASSUME ConfigInv, NEW d \in Writers, job'[d] = job[d], job[d].pc \notin Held
    PROVE  WriterInv(d)'
<1>1. WriterInv(d)
  BY DEF ConfigInv
<1> QED BY <1>1 DEF WriterInv, Held

\* A step of one writer keeps the invariant if it keeps what is said of that writer, and
\* only the holder of the lock touches the files and the promises.
LEMMA StepOf ==
    ASSUME ConfigInv, NEW w \in Writers, NEW j \in Job, job' = [job EXCEPT ![w] = j],
           locker' = IF j.pc \in Held THEN w ELSE IF locker = w THEN Nobody ELSE locker,
           j.pc \in Held => locker \in {w, Nobody},
           config' \in Documents, backup' \in Documents,
           promised' \in [Settings -> {"free", "on", "off"}],
           locker = w \/ UNCHANGED <<config, backup, promised>>,
           SavedStays', WriterInv(w)'
    PROVE  ConfigInv'
<1>1. ConfigTypes
  BY DEF ConfigInv
<1>2. job' \in [Writers -> Job] /\ job'[w] = j /\ \A d \in Writers \ {w} : job'[d] = job[d]
  BY <1>1 DEF ConfigTypes
<1>3. locker' \in Writers \cup {Nobody}
  BY <1>1 DEF ConfigTypes
<1>4. \A d \in Writers : locker' = d <=> job'[d].pc \in Held
  <2> TAKE d \in Writers
  <2>1. CASE d = w
    <3>1. locker' = w <=> j.pc \in Held
      BY NobodyWrites
    <3> QED BY <1>2, <2>1, <3>1
  <2>2. CASE d # w
    <3>1. locker' = d <=> locker = d
      BY <2>2, NobodyWrites
    <3> QED BY <1>1, <1>2, <2>2, <3>1 DEF ConfigTypes
  <2> QED BY <2>1, <2>2
<1>5. ConfigTypes'
  BY <1>2, <1>3, <1>4 DEF ConfigTypes
<1>6. ASSUME NEW d \in Writers \ {w} PROVE WriterInv(d)'
  <2>1. CASE locker = w
    <3>1. job[d].pc \notin Held
      BY <1>1, <2>1 DEF ConfigTypes
    <3> QED BY <1>2, <3>1, OthersWait
  <2>2. CASE UNCHANGED <<config, backup, promised>>
    BY <1>2, <2>2, OthersStay
  <2> QED BY <2>1, <2>2
<1> QED BY <1>5, <1>6 DEF ConfigInv

\* A writer that gives up, is told to work, or is dropped.
LEMMA RestInv ==
    ASSUME ConfigInv, NEW w \in Writers, NEW j \in Job, j.pc \in {"idle", "queued", "answered"},
           j.pc = "queued" => j.op \in Ops /\ ~j.overtaken,
           job' = [job EXCEPT ![w] = j], locker' = IF locker = w THEN Nobody ELSE locker,
           UNCHANGED <<config, backup, promised>>
    PROVE  ConfigInv'
<1>1. ConfigTypes
  BY DEF ConfigInv
<1>2. job'[w] = j /\ j.pc \notin Held
  BY <1>1 DEF ConfigTypes, Held
<1>3. SavedStays'
  BY DEF ConfigInv, SavedStays
<1>4. WriterInv(w)'
  BY <1>2 DEF WriterInv
<1> QED BY <1>1, <1>2, <1>3, <1>4, StepOf DEF ConfigTypes

LEMMA FailInv ==
    ASSUME ConfigInv, NEW w \in Writers, Fail(w), UNCHANGED <<config, backup>>
    PROVE  ConfigInv'
<1> DEFINE j == [NoJob EXCEPT !.pc = "answered"]
<1>1. j \in Job /\ j.pc = "answered"
  BY NoJobType DEF Job, Steps, Held
<1>2. job' = [job EXCEPT ![w] = j] /\ UNCHANGED promised
  BY DEF Fail
<1>3. locker' = IF locker = w THEN Nobody ELSE locker
  BY DEF Fail, Unlock
<1> HIDE DEF j
<1> QED BY <1>1, <1>2, <1>3, RestInv

\* The lock goes to a writer that asked for it.
LEMMA AcquireInv ==
    ASSUME ConfigInv, NEW w \in Writers, Acquire(w)
    PROVE  ConfigInv'
<1> DEFINE j == [job[w] EXCEPT !.pc = "locked"]
<1>1. ConfigTypes /\ WriterInv(w)
  BY DEF ConfigInv
<1>2. /\ j \in Job /\ j.pc = "locked" /\ j.op = job[w].op
      /\ j.overtaken = job[w].overtaken
  BY <1>1 DEF ConfigTypes, Job, Steps, Held
<1>3. job' = [job EXCEPT ![w] = j] /\ job'[w] = j
  BY <1>1 DEF Acquire, ConfigTypes
<1>4. /\ locker = Nobody /\ locker' = w /\ job[w].pc = "queued"
      /\ UNCHANGED <<config, backup, promised>>
  BY DEF Acquire
<1>5. SavedStays'
  BY <1>4 DEF ConfigInv, SavedStays
<1>6. j.op \in Ops /\ ~j.overtaken
  BY <1>1, <1>2, <1>4 DEF WriterInv
<1> HIDE DEF j
<1>7. WriterInv(w)'
  BY <1>2, <1>3, <1>6 DEF WriterInv
<1>8. j.pc \in Held
  BY <1>2 DEF Held
<1> QED BY <1>1, <1>2, <1>3, <1>4, <1>5, <1>7, <1>8, StepOf DEF ConfigTypes

\* A setting is reported as saved when the file says so and has not lost another.
LEMMA SavedInv ==
    ASSUME ConfigInv, NEW w \in Writers, job[w].pc \in Held, Saved(w), Unlock(w),
           config' \in Documents, UNCHANGED backup,
           Says(config', Setting(job[w].op)) = Target(job[w].op),
           \A s \in Settings \ {Setting(job[w].op)} :
             promised[s] # "free" => Says(config', s) = Says(config, s)
    PROVE  ConfigInv'
<1> DEFINE j == [job[w] EXCEPT !.pc = "written"]
<1>1. ConfigTypes /\ WriterInv(w)
  BY DEF ConfigInv
<1>2. /\ j \in Job /\ j.pc = "written" /\ j.op = job[w].op
  BY <1>1 DEF ConfigTypes, Job, Steps, Held
<1>3. job' = [job EXCEPT ![w] = j] /\ job'[w] = j
  BY <1>1 DEF Saved, ConfigTypes
<1>4. job[w].op \in Ops
  BY <1>1 DEF WriterInv, Held
<1>5. promised' = [promised EXCEPT ![Setting(job[w].op)] = Target(job[w].op)]
  BY DEF Saved, Target
<1>6. promised' \in [Settings -> {"free", "on", "off"}]
  BY <1>1, <1>4, <1>5, SettingOf DEF ConfigTypes
<1>7. SavedStays'
  <2>1. ASSUME NEW s \in Settings, promised'[s] # "free" PROVE Says(config', s) = promised'[s]
    <3>1. CASE s = Setting(job[w].op)
      BY <1>1, <1>5, <3>1 DEF ConfigTypes
    <3>2. CASE s # Setting(job[w].op)
      <4>1. promised'[s] = promised[s]
        BY <1>1, <1>5, <3>2 DEF ConfigTypes
      <4> QED BY <2>1, <3>2, <4>1 DEF ConfigInv, SavedStays
    <3> QED BY <3>1, <3>2
  <2> QED BY <2>1 DEF SavedStays
<1>8. locker = w /\ locker' = Nobody
  BY <1>1 DEF Unlock, ConfigTypes
<1> HIDE DEF j
<1>9. WriterInv(w)'
  BY <1>2, <1>3, <1>4 DEF WriterInv
<1>10. j.pc \notin Held
  BY <1>2 DEF Held
<1> QED BY <1>1, <1>2, <1>3, <1>6, <1>7, <1>8, <1>9, <1>10, StepOf DEF ConfigTypes

LEMMA ReadInv ==
    ASSUME ConfigInv, NEW w \in Writers, Read(w)
    PROVE  ConfigInv'
<1> DEFINE op == job[w].op
<1> DEFINE plan == Updated(config, op)
<1>1. ConfigTypes /\ WriterInv(w) /\ job[w].pc = "locked" /\ UNCHANGED <<config, backup>>
  BY DEF ConfigInv, Read
<1>2. op \in Ops /\ config \in Documents
  BY <1>1 DEF WriterInv, ConfigTypes
<1>3. CASE Fail(w)
  BY <1>1, <1>3, FailInv
<1>4. CASE Accepts(config, op, TRUE) /\ plan = config /\ Saved(w) /\ Unlock(w)
  <2>1. EditFacts(config, op, Updated(config, op))
    BY <1>2, <1>4, Edits
  <2>2. EditFacts(config, op, config)
    BY <1>4, <2>1
  <2>3. Says(config, Setting(op)) = Target(op)
    BY <2>2 DEF EditFacts
  <2> QED BY <1>1, <1>2, <1>4, <2>3, SavedInv DEF Held
<1>5. CASE /\ Accepts(config, op, TRUE)
           /\ job' = [job EXCEPT ![w].plan = plan,
                                 ![w].pc = IF config.kind = "empty" THEN "write" ELSE "backup"]
           /\ UNCHANGED <<locker, promised>>
  <2> DEFINE next == IF config.kind = "empty" THEN "write" ELSE "backup"
  <2> DEFINE j == [job[w] EXCEPT !.plan = plan, !.pc = next]
  <2>1. EditFacts(config, op, plan)
    BY <1>2, <1>5, Edits
  <2>2. j \in Job /\ j.pc = next /\ j.op = op /\ j.plan = plan
    BY <1>1, <2>1 DEF ConfigTypes, Job, Steps, Held, EditFacts
  <2>3. job' = [job EXCEPT ![w] = j] /\ job'[w] = j
    BY <1>1, <1>5 DEF ConfigTypes
  <2>4. locker = w
    BY <1>1 DEF ConfigTypes, Held
  <2>5. SavedStays'
    BY <1>1, <1>5 DEF ConfigInv, SavedStays
  <2>6. j.pc \in {"write", "backup"} /\ (j.pc = "write" => config.kind = "empty")
    BY <2>2
  <2>7. j.overtaken = job[w].overtaken
    BY <1>1 DEF ConfigTypes, Job
  <2>8. ~job[w].overtaken
    BY <1>1 DEF WriterInv
  <2>9. Says(plan, Setting(op)) = Target(op)
    BY <2>1 DEF EditFacts
  <2> HIDE DEF j, next, plan
  <2>10. WriterInv(w)'
    BY <1>1, <1>2, <2>1, <2>2, <2>3, <2>6, <2>7, <2>8, <2>9 DEF WriterInv
  <2>11. j.pc \in Held
    BY <2>6 DEF Held
  <2> QED BY <1>1, <1>5, <2>2, <2>3, <2>4, <2>5, <2>10, <2>11, StepOf DEF ConfigTypes
<1> QED BY <1>1, <1>3, <1>4, <1>5 DEF Read

LEMMA BackUpInv ==
    ASSUME ConfigInv, NEW w \in Writers, BackUp(w)
    PROVE  ConfigInv'
<1>1. ConfigTypes /\ WriterInv(w) /\ job[w].pc = "backup" /\ UNCHANGED config
  BY DEF ConfigInv, BackUp
<1>2. CASE Fail(w) /\ UNCHANGED backup
  BY <1>1, <1>2, FailInv
<1>3. CASE /\ backup' = config /\ job' = [job EXCEPT ![w].pc = "write"]
           /\ UNCHANGED <<locker, promised>>
  <2> DEFINE j == [job[w] EXCEPT !.pc = "write"]
  <2>1. /\ j \in Job /\ j.pc = "write" /\ j.op = job[w].op
        /\ j.plan = job[w].plan /\ j.overtaken = job[w].overtaken
    BY <1>1 DEF ConfigTypes, Job, Steps, Held
  <2>2. job' = [job EXCEPT ![w] = j] /\ job'[w] = j
    BY <1>1, <1>3 DEF ConfigTypes
  <2>3. locker = w
    BY <1>1 DEF ConfigTypes, Held
  <2>4. SavedStays'
    BY <1>1, <1>3 DEF ConfigInv, SavedStays
  <2> HIDE DEF j
  <2>5. AllFree' <=> AllFree
    BY <1>3 DEF AllFree
  <2>6. WriterInv(w)'
    BY <1>1, <1>3, <2>1, <2>2, <2>5 DEF WriterInv
  <2>7. j.pc \in Held
    BY <2>1 DEF Held
  <2> QED BY <1>1, <1>3, <2>1, <2>2, <2>3, <2>4, <2>6, <2>7, StepOf DEF ConfigTypes
<1> QED BY <1>2, <1>3 DEF BackUp

LEMMA WriteInv ==
    ASSUME ConfigInv, NEW w \in Writers, Write(w)
    PROVE  ConfigInv'
<1>1. ConfigTypes /\ WriterInv(w) /\ job[w].pc = "write" /\ UNCHANGED backup
  BY DEF ConfigInv, Write
<1>2. CASE Fail(w) /\ UNCHANGED config
  BY <1>1, <1>2, FailInv
<1>3. CASE config' = job[w].plan /\ Saved(w) /\ Unlock(w)
  <2>1. Says(config', Setting(job[w].op)) = Target(job[w].op)
    BY <1>1, <1>3 DEF WriterInv
  <2>2. config' \in Documents
    BY <1>1, <1>3 DEF ConfigTypes, Job
  <2>3. \A s \in Settings \ {Setting(job[w].op)} :
          promised[s] # "free" => Says(config', s) = Says(config, s)
    BY <1>1, <1>3 DEF WriterInv, AllFree, EditFacts
  <2>4. job[w].pc \in Held
    BY <1>1 DEF Held
  <2> QED BY <1>1, <1>3, <2>1, <2>2, <2>3, <2>4, SavedInv
<1> QED BY <1>2, <1>3 DEF Write

LEMMA StatusType ==
    ASSUME NEW j0 \in Job, NEW doc
    PROVE  LET j == [NoJob EXCEPT !.pc = "answered", !.op = j0.op,
                                  !.ok = TRUE, !.ports = PortsShown(doc)]
           IN  j \in Job /\ j.pc = "answered"
<1>1. PortsShown(doc) \in BOOLEAN
  BY DEF PortsShown
<1> QED BY <1>1, EmptyIsDocument DEF NoJob, Job, Steps, Held

LEMMA ReadStatusInv ==
    ASSUME ConfigInv, NEW w \in Writers, ReadStatus(w)
    PROVE  ConfigInv'
<1>1. ConfigTypes /\ job[w].pc = "written" /\ UNCHANGED <<config, backup>>
  BY DEF ConfigInv, ReadStatus
<1>2. CASE Fail(w)
  BY <1>1, <1>2, FailInv
<1>3. CASE /\ job' = [job EXCEPT ![w] = [NoJob EXCEPT !.pc = "answered", !.op = job[w].op,
                                           !.ok = TRUE, !.ports = PortsShown(config)]]
           /\ UNCHANGED <<locker, promised>>
  <2> DEFINE j == [NoJob EXCEPT !.pc = "answered", !.op = job[w].op,
                                !.ok = TRUE, !.ports = PortsShown(config)]
  <2>1. j \in Job /\ j.pc = "answered"
    BY <1>1, StatusType DEF ConfigTypes
  <2>2. locker # w
    BY <1>1 DEF ConfigTypes, Held
  <2>3. job' = [job EXCEPT ![w] = j]
    BY <1>3
  <2> HIDE DEF j
  <2> QED BY <1>1, <1>3, <2>1, <2>2, <2>3, RestInv
<1> QED BY <1>2, <1>3 DEF ReadStatus

LEMMA StartInv ==
    ASSUME ConfigInv, NEW w \in Writers, NEW op \in Ops, job[w].pc \notin Held, Start(w, op),
           UNCHANGED <<config, backup, locker, promised>>
    PROVE  ConfigInv'
<1> DEFINE j == [NoJob EXCEPT !.pc = "queued", !.op = op]
<1>1. j \in Job /\ j.pc = "queued" /\ j.op = op /\ ~j.overtaken
  BY EmptyIsDocument DEF NoJob, Job, Steps, Held
<1>2. job' = [job EXCEPT ![w] = j]
  BY DEF Start
<1>3. locker # w
  BY DEF ConfigInv, ConfigTypes
<1> HIDE DEF j
<1> QED BY <1>1, <1>2, <1>3, RestInv

\* A job that is answered, or whose writer is killed.
LEMMA ClearInv ==
    ASSUME ConfigInv, NEW w \in Writers, job' = [job EXCEPT ![w] = NoJob], Unlock(w),
           UNCHANGED <<config, backup, promised>>
    PROVE  ConfigInv'
<1>1. NoJob.pc = "idle"
  BY DEF NoJob
<1> QED BY <1>1, NoJobType, RestInv DEF Unlock

LEMMA EditInv ==
    ASSUME ConfigInv, NEW doc \in Documents, Edit(doc)
    PROVE  ConfigInv'
<1>1. ConfigTypes
  BY DEF ConfigInv
<1>2. /\ config' = doc /\ promised' = [s \in Settings |-> "free"] /\ UNCHANGED <<backup, locker>>
      /\ job' = [w \in Writers |-> [job[w] EXCEPT !.overtaken = job[w].pc \in {"backup", "write"}]]
  BY DEF Edit
<1>3. ASSUME NEW w \in Writers
      PROVE  /\ job'[w] \in Job /\ job'[w].pc = job[w].pc /\ job'[w].op = job[w].op
             /\ job'[w].plan = job[w].plan
             /\ job'[w].overtaken <=> job[w].pc \in {"backup", "write"}
  <2>1. job[w] \in Job /\ job'[w] = [job[w] EXCEPT !.overtaken = job[w].pc \in {"backup", "write"}]
    BY <1>1, <1>2 DEF ConfigTypes
  <2>2. CASE job[w].pc \in {"backup", "write"}
    <3>1. job'[w] = [job[w] EXCEPT !.overtaken = TRUE]
      BY <2>1, <2>2
    <3> QED BY <2>1, <2>2, <3>1 DEF Job
  <2>3. CASE job[w].pc \notin {"backup", "write"}
    <3>1. (job[w].pc \in {"backup", "write"}) = FALSE
      BY <2>3
    <3>2. job'[w] = [job[w] EXCEPT !.overtaken = FALSE]
      BY <2>1, <3>1
    <3> QED BY <2>1, <2>3, <3>2 DEF Job
  <2> QED BY <2>2, <2>3
<1>4. job' \in [Writers -> Job]
  BY <1>2, <1>3
<1>5. ConfigTypes'
  BY <1>1, <1>2, <1>3, <1>4 DEF ConfigTypes
<1>6. SavedStays' /\ AllFree'
  BY <1>2 DEF SavedStays, AllFree
<1>7. ASSUME NEW w \in Writers PROVE WriterInv(w)'
  BY <1>3, <1>6 DEF ConfigInv, WriterInv
<1> QED BY <1>5, <1>6, <1>7 DEF ConfigInv

LEMMA InitConfigInv == Init => ConfigInv
<1> SUFFICES ASSUME Init PROVE ConfigInv
  OBVIOUS
<1>1. /\ config \in Documents /\ backup = Empty /\ locker = Nobody
      /\ job = [w \in Writers |-> NoJob] /\ promised = [s \in Settings |-> "free"]
  BY SettingsAssumption DEF Init, InitConfig
<1>2. NoJob.pc = "idle" /\ "idle" \notin Held
  BY DEF NoJob, Held
<1>3. ConfigTypes
  BY <1>1, <1>2, NoJobType, EmptyIsDocument, NobodyWrites DEF ConfigTypes
<1>4. SavedStays
  BY <1>1 DEF SavedStays
<1>5. \A w \in Writers : WriterInv(w)
  BY <1>1, <1>2 DEF WriterInv
<1> QED BY <1>3, <1>4, <1>5 DEF ConfigInv

LEMMA ConfigStutters ==
    ASSUME ConfigInv, UNCHANGED <<config, backup, locker, job, promised>>
    PROVE  ConfigInv'
<1>1. ConfigTypes'
  BY DEF ConfigInv, ConfigTypes
<1>2. SavedStays' /\ (AllFree' <=> AllFree)
  BY DEF ConfigInv, SavedStays, AllFree
<1>3. ASSUME NEW w \in Writers PROVE WriterInv(w)'
  BY <1>2 DEF ConfigInv, WriterInv
<1> QED BY <1>1, <1>2, <1>3 DEF ConfigInv

\* What the actions of menus, pane and opener do to the configuration and its writers.
LEMMA ConfigSteps ==
    ASSUME ConfigInv, Next
    PROVE  \/ \E w \in Writers : WriterStep(w)
           \/ \E doc \in Documents : Edit(doc)
           \/ /\ UNCHANGED <<config, backup, promised>>
              /\ \/ UNCHANGED <<job, locker>>
                 \/ \E w \in Writers, op \in Ops :
                      job[w].pc \notin Held /\ Start(w, op) /\ UNCHANGED locker
                 \/ \E w \in Writers : job' = [job EXCEPT ![w] = NoJob] /\ Unlock(w)
<1> DEFINE Rest ==
           /\ UNCHANGED <<config, backup, promised>>
           /\ \/ UNCHANGED <<job, locker>>
              \/ \E w \in Writers, op \in Ops :
                   job[w].pc \notin Held /\ Start(w, op) /\ UNCHANGED locker
              \/ \E w \in Writers : job' = [job EXCEPT ![w] = NoJob] /\ Unlock(w)
<1>0. Menus \subseteq Writers /\ Welcome \in Writers /\ Threads \subseteq Writers /\ People \subseteq Writers
  BY SettingsAssumption DEF Threads, People
<1>1. ASSUME NEW w \in Writers, Work(w) PROVE WriterStep(w)
  BY <1>1 DEF Work
<1>2. ASSUME NEW w \in Writers, Killed(w) PROVE Rest
  BY <1>2 DEF Killed, Drop
<1>3. ASSUME NEW m \in Menus, \/ OpenMenu(m) \/ CloseMenu(m) \/ ChangePreference(m)
                              \/ SavePreference(m) \/ GiveUp(m)
      PROVE  Rest
  BY <1>3 DEF OpenMenu, CloseMenu, ChangePreference, SavePreference, GiveUp, configVars
<1>4. ASSUME NEW m \in Menus, AskShortcut(m) PROVE Rest
  <2>1. job[m].pc \notin Held /\ "shortcut" \in Ops
    BY <1>4 DEF AskShortcut, Ready, Free, Held, Ops
  <2> QED BY <1>0, <1>4, <2>1 DEF AskShortcut
<1>5. ASSUME NEW m \in Menus, NEW t \in Threads, AskCompanion(m, t) PROVE Rest
  <2>1. job[t].pc \notin Held /\ {"ports on", "ports off", "notify"} \subseteq Ops
    BY <1>5 DEF AskCompanion, Held, Ops
  <2>2. \E op \in Ops : Start(t, op)
    BY <1>5, <2>1 DEF AskCompanion
  <2> QED BY <1>0, <1>5, <2>1, <2>2 DEF AskCompanion
<1>6. ASSUME NEW t \in Threads, Answer(t) PROVE Rest
  <2>1. locker # t
    BY <1>0, <1>6 DEF Answer, ConfigInv, ConfigTypes, Held
  <2>2. Unlock(t)
    BY <1>6, <2>1 DEF Answer, Unlock
  <2> QED BY <1>0, <1>6, <2>2 DEF Answer
<1>7. ASSUME NEW p \in People, Reload(p) PROVE Rest
  <2>1. locker # p
    BY <1>0, <1>7 DEF Reload, ConfigInv, ConfigTypes, Held
  <2>2. Unlock(p)
    BY <1>7, <2>1 DEF Reload, Unlock
  <2> QED BY <1>0, <1>7, <2>2 DEF Reload
<1>8. ASSUME Dismiss \/ Dismissed \/ InstallWrapper \/ Uninstall \/ LookAtPreferences \/ Decide
      PROVE  Rest
  BY <1>8 DEF Dismiss, Dismissed, InstallWrapper, Uninstall, LookAtPreferences, Decide, configVars
<1>9. ASSUME Configure PROVE Rest
  <2>1. PICK op \in {"ports on", "shortcut"} : Chosen(op) /\ Start(Welcome, op)
    BY <1>9 DEF Configure
  <2>2. job[Welcome].pc \notin Held /\ op \in Ops
    BY <2>1 DEF Chosen, Free, Held, Ops
  <2> QED BY <1>0, <1>9, <2>1, <2>2 DEF Configure
<1>10. ASSUME NEW doc \in Saves, Edit(doc) PROVE \E d \in Documents : Edit(d)
  BY <1>10, SettingsAssumption
<1> HIDE DEF Rest
<1>11. \/ \E w \in Writers : WriterStep(w)
       \/ \E doc \in Documents : Edit(doc)
       \/ Rest
  BY <1>1, <1>2, <1>3, <1>4, <1>5, <1>6, <1>7, <1>8, <1>9, <1>10 DEF Next
<1> QED BY <1>11 DEF Rest

LEMMA ConfigStep ==
    ASSUME ConfigInv, [Next]_vars
    PROVE  ConfigInv'
<1>1. CASE UNCHANGED vars
  BY <1>1, ConfigStutters DEF vars, configVars
<1>2. CASE Next
  <2>1. CASE \E w \in Writers : WriterStep(w)
    BY <2>1, AcquireInv, ReadInv, BackUpInv, WriteInv, ReadStatusInv DEF WriterStep
  <2>2. CASE \E doc \in Documents : Edit(doc)
    BY <2>2, EditInv
  <2>3. CASE UNCHANGED <<config, backup, promised, job, locker>>
    BY <2>3, ConfigStutters
  <2>4. CASE /\ UNCHANGED <<config, backup, promised>>
             /\ \E w \in Writers, op \in Ops :
                  job[w].pc \notin Held /\ Start(w, op) /\ UNCHANGED locker
    BY <2>4, StartInv
  <2>5. CASE /\ UNCHANGED <<config, backup, promised>>
             /\ \E w \in Writers : job' = [job EXCEPT ![w] = NoJob] /\ Unlock(w)
    BY <2>5, ClearInv
  <2> QED BY <1>2, <2>1, <2>2, <2>3, <2>4, <2>5, ConfigSteps
<1> QED BY <1>1, <1>2

\* The part of the invariant about the configuration holds by itself, whatever menus and
\* pane do beside the writers.
THEOREM ConfigAlways == Spec => []ConfigInv
BY InitConfigInv, ConfigStep, PTL DEF Spec

\* Only a writer at its write, and the user, change the file.
LEMMA OnlyWrites ==
    ASSUME ConfigInv, Next, config' # config, NEW w \in Writers,
           job[w].pc = "write", job'[w].pc = "written"
    PROVE  Write(w)
<1>1. CASE \E d \in Writers : WriterStep(d)
  <2>1. PICK d \in Writers : WriterStep(d)
    BY <1>1
  <2>2. Write(d)
    BY <2>1 DEF WriterStep, Acquire, Read, BackUp, ReadStatus
  <2>3. d = w
    BY <2>2 DEF ConfigInv, ConfigTypes, Held, Write
  <2> QED BY <2>2, <2>3
<1>2. CASE \E doc \in Documents : Edit(doc)
  <2>1. job'[w] = [job[w] EXCEPT !.overtaken = job[w].pc \in {"backup", "write"}]
    BY <1>2 DEF Edit
  <2>2. job'[w].pc = job[w].pc
    BY <2>1 DEF ConfigInv, ConfigTypes, Job
  <2> QED BY <2>2
<1> QED BY <1>1, <1>2, ConfigSteps

\* An edit changes its setting only, and leaves the file before it beside it, whatever
\* other writers, users and kills there are.
THEOREM Writes == Spec => WritesAreExact
<1> DEFINE Exact == \A w \in Writers :
         (config' # config /\ job[w].pc = "write" /\ job'[w].pc = "written" /\ ~job[w].overtaken) =>
           /\ config.kind # "broken" /\ config'.kind = "toml"
           /\ Setting(job[w].op) # "ports" => config'.rows = config.rows
           /\ config'.rows.others = config.rows.others
           /\ Setting(job[w].op) # "notify" => config'.toast = config.toast
           /\ Setting(job[w].op) # "shortcut" => config'.bound = config.bound
<1> DEFINE Copied == \A w \in Writers :
         (config' # config /\ job[w].pc = "write" /\ ~job[w].overtaken /\ config.kind # "empty") =>
           backup = config
<1>1. ASSUME ConfigInv, Next PROVE Exact
  <2> SUFFICES ASSUME NEW w \in Writers, config' # config, job[w].pc = "write",
                      job'[w].pc = "written", ~job[w].overtaken
               PROVE  /\ config.kind # "broken" /\ config'.kind = "toml"
                      /\ Setting(job[w].op) # "ports" => config'.rows = config.rows
                      /\ config'.rows.others = config.rows.others
                      /\ Setting(job[w].op) # "notify" => config'.toast = config.toast
                      /\ Setting(job[w].op) # "shortcut" => config'.bound = config.bound
    OBVIOUS
  <2>1. Write(w)
    BY <1>1, OnlyWrites
  <2>2. config' = job[w].plan
    BY <2>1 DEF Write
  <2>3. EditFacts(config, job[w].op, job[w].plan)
    BY <1>1 DEF ConfigInv, WriterInv
  <2> QED BY <2>2, <2>3 DEF EditFacts
<1>2. ASSUME ConfigInv, Next PROVE Copied
  BY <1>2 DEF ConfigInv, WriterInv
<1>3. ConfigInv /\ [Next]_vars => [Exact]_vars /\ [Copied]_vars
  BY <1>1, <1>2
<1> QED BY <1>3, ConfigAlways, PTL DEF Spec, WritesAreExact, OnlyTheSetting, BackupIsPrevious

-----------------------------------------------------------------------------
(* The preferences: what has been read and not written, and when that is    *)
(* still what the file says.                                               *)

PluginPreferences == [onboarding : BOOLEAN, after : AfterForward, depth : 0..MaxDepth]
Loaded == [key : Keys, copy : PluginPreferences, lost : SUBSET Keys]
Fresh(l) == \A k \in Keys \ ({l.key} \cup l.lost) : l.copy[k] = prefs[k]

PrefInv ==
    /\ prefs \in PluginPreferences
    /\ PreferencesKept
    /\ DOMAIN loaded = People
    /\ loaded = [p \in People |-> loaded[p]]
    /\ \A p \in People : loaded[p] = NotLoaded \/ (loaded[p] \in Loaded /\ Fresh(loaded[p]))
    /\ opener.pc = "loaded" /\ opener.enabled => ~opener.dismissed

LEMMA NotLoadedKey == NotLoaded.key = "none" /\ \A l \in Loaded : l.key \in Keys /\ l.key # "none"
BY DEF NotLoaded, Loaded, Keys

\* Reading the file and changing one key.
LEMMA LoadInv ==
    ASSUME PrefInv, NEW p \in People, NEW key \in Keys, NEW value,
           [prefs EXCEPT ![key] = value] \in PluginPreferences, Load(p, key, value),
           UNCHANGED <<prefs, kept, opener>>
    PROVE  PrefInv'
<1> DEFINE l == [key |-> key, copy |-> [prefs EXCEPT ![key] = value], lost |-> {}]
<1>1. l \in Loaded /\ l.key = key /\ l.copy = [prefs EXCEPT ![key] = value]
  BY DEF Loaded
<1>2. DOMAIN prefs = Keys
  BY DEF PrefInv, PluginPreferences, Keys
<1>3. Fresh(l)
  BY <1>1, <1>2 DEF Fresh
<1>4. loaded' = [loaded EXCEPT ![p] = l]
  BY DEF Load
<1> HIDE DEF l
<1>5. loaded' = [q \in People |-> loaded'[q]] /\ DOMAIN loaded' = People
  BY <1>4 DEF PrefInv
<1>6. \A q \in People : loaded'[q] = IF q = p THEN l ELSE loaded[q]
  BY <1>4 DEF PrefInv
<1>7. ASSUME NEW q \in People
      PROVE  loaded'[q] = NotLoaded \/ (loaded'[q] \in Loaded /\ Fresh(loaded[q])')
  <2>1. CASE q = p
    BY <1>1, <1>3, <1>6, <2>1 DEF Fresh
  <2>2. CASE q # p
    BY <1>6, <2>2 DEF PrefInv, Fresh
  <2> QED BY <2>1, <2>2
<1> QED BY <1>5, <1>7 DEF PrefInv, PreferencesKept

\* What was read is forgotten.
LEMMA ForgetInv ==
    ASSUME PrefInv, NEW w, UNCHANGED <<prefs, kept, opener>>,
           loaded' = [p \in People |-> IF p = w THEN NotLoaded ELSE loaded[p]]
    PROVE  PrefInv'
<1>1. \A q \in People : loaded'[q] \in {NotLoaded, loaded[q]}
  OBVIOUS
<1>2. loaded' = [q \in People |-> loaded'[q]] /\ DOMAIN loaded' = People
  OBVIOUS
<1> QED BY <1>1, <1>2 DEF PrefInv, PreferencesKept, Fresh

\* Writing back what was read.
LEMMA SaveInv ==
    ASSUME PrefInv, NEW p \in People, loaded[p].key \in Keys, Save(p), UNCHANGED opener
    PROVE  PrefInv'
<1> DEFINE key == loaded[p].key
<1>1. loaded[p] \in Loaded /\ Fresh(loaded[p])
  BY NotLoadedKey DEF PrefInv, Keys
<1>2. prefs' = loaded[p].copy /\ prefs' \in PluginPreferences
  BY <1>1 DEF Save, Loaded
<1>3. kept' = [k \in Keys |-> IF k = key \/ k \in loaded[p].lost THEN prefs'[k] ELSE kept[k]]
  BY DEF Save
<1>4. \A k \in Keys : k # key /\ k \notin loaded[p].lost => prefs'[k] = prefs[k]
  BY <1>1, <1>2 DEF Fresh
<1>5. PreferencesKept'
  BY <1>3, <1>4 DEF PreferencesKept, PrefInv
<1>6. loaded' = [q \in People |-> IF q = p THEN NotLoaded
                    ELSE IF loaded[q].key = "none" THEN NotLoaded
                    ELSE [loaded[q] EXCEPT !.lost = @ \cup {key} \cup loaded[p].lost]]
  BY DEF Save
<1>7. loaded' = [q \in People |-> loaded'[q]] /\ DOMAIN loaded' = People
  BY <1>6
<1>8. ASSUME NEW q \in People
      PROVE  loaded'[q] = NotLoaded \/ (loaded'[q] \in Loaded /\ Fresh(loaded[q])')
  <2>1. CASE q = p \/ loaded[q].key = "none"
    BY <1>6, <2>1
  <2>2. CASE q # p /\ loaded[q].key # "none"
    <3> DEFINE l == [loaded[q] EXCEPT !.lost = @ \cup {key} \cup loaded[p].lost]
    <3>1. loaded'[q] = l
      BY <1>6, <2>2
    <3>2. loaded[q] \in Loaded /\ Fresh(loaded[q])
      BY <2>2, NotLoadedKey DEF PrefInv
    <3>3. /\ l \in Loaded /\ l.key = loaded[q].key /\ l.copy = loaded[q].copy
          /\ l.lost = loaded[q].lost \cup {key} \cup loaded[p].lost
      BY <1>1, <3>2 DEF Loaded
    <3> HIDE DEF l
    <3>4. \A k \in Keys \ ({l.key} \cup l.lost) : l.copy[k] = prefs'[k]
      BY <1>4, <3>2, <3>3 DEF Fresh
    <3>5. loaded'[q] \in Loaded /\ Fresh(loaded[q])'
      BY <3>1, <3>3, <3>4 DEF Fresh
    <3> QED BY <3>5
  <2> QED BY <2>1, <2>2
<1> QED BY <1>2, <1>5, <1>7, <1>8 DEF PrefInv, Fresh

LEMMA PrefStutters ==
    ASSUME PrefInv, UNCHANGED <<prefs, kept, loaded, opener>>
    PROVE  PrefInv'
BY DEF PrefInv, PreferencesKept, Fresh

LEMMA DepthTypes ==
    \A d \in 0..MaxDepth : Deeper(d) \in 0..MaxDepth /\ Shallower(d) \in 0..MaxDepth
BY SettingsAssumption DEF Deeper, Shallower

LEMMA DefaultType == Default \in PluginPreferences
BY SettingsAssumption DEF Default, PluginPreferences, AfterForward

LEMMA ChangedTypes ==
    ASSUME NEW old \in PluginPreferences
    PROVE  /\ \A after \in AfterForward : [old EXCEPT !["after"] = after] \in PluginPreferences
           /\ \A depth \in 0..MaxDepth : [old EXCEPT !["depth"] = depth] \in PluginPreferences
           /\ [old EXCEPT !["onboarding"] = FALSE] \in PluginPreferences
BY DEF PluginPreferences

\* What the screens show, and for whom they wait.
Menu == [open : BOOLEAN, waits : Threads \cup {None}, after : AfterForward,
         depth : 0..MaxDepth, ports : BOOLEAN]

Pane    == [open : BOOLEAN, hfwd : BOOLEAN, byHfwd : BOOLEAN]
Machine == [hfwd : BOOLEAN, byHfwd : BOOLEAN]

MenuInv ==
    /\ menu \in [Menus -> Menu]
    /\ welcome \in Pane
    /\ machine \in Machine
    /\ asked \in 0..MaxAsked
    /\ faults \in 0..MaxFaults

LEMMA CycleTypes ==
    \A after \in AfterForward : Next3(after) \in AfterForward /\ Previous3(after) \in AfterForward
BY DEF AfterForward, Next3, Previous3

LEMMA InitScreens == Init => PrefInv /\ MenuInv
<1> SUFFICES ASSUME Init PROVE PrefInv /\ MenuInv
  OBVIOUS
<1>1. PrefInv
  BY DefaultType DEF Init, PrefInv, PreferencesKept, Idle
<1>2. Closed \in Menu
  BY SettingsAssumption DEF Closed, Menu, AfterForward
<1>3. MenuInv
  BY <1>2, SettingsAssumption, ConfigAssumption DEF Init, InitConfig, MenuInv, NoPane, Pane, Machine
<1> QED BY <1>1, <1>3

LEMMA PrefStep ==
    ASSUME PrefInv, MenuInv, [Next]_vars
    PROVE  PrefInv'
<1>0. Menus \subseteq People /\ Welcome \in People
  BY DEF People
<1>1. CASE UNCHANGED uiVars
  BY <1>1, PrefStutters DEF uiVars
<1>2. ASSUME NEW w \in Writers, Killed(w) PROVE PrefInv'
  BY <1>2, ForgetInv DEF Killed
<1>3. ASSUME NEW m \in Menus, ChangePreference(m) PROVE PrefInv'
  <2>1. prefs \in PluginPreferences /\ menu[m].after \in AfterForward /\ menu[m].depth \in 0..MaxDepth
    BY DEF PrefInv, MenuInv, Menu
  <2>2. UNCHANGED <<prefs, kept, opener>> /\ {"after", "depth"} \subseteq Keys
    BY <1>3 DEF ChangePreference, Keys
  <2>3. CASE \E after \in {Next3(menu[m].after), Previous3(menu[m].after)} : Load(m, "after", after)
    <3>1. PICK after \in AfterForward : Load(m, "after", after)
      BY <2>1, <2>3, CycleTypes
    <3> QED BY <1>0, <2>1, <2>2, <3>1, ChangedTypes, LoadInv
  <2>4. CASE \E depth \in {Deeper(menu[m].depth), Shallower(menu[m].depth)} :
               Load(m, "depth", depth)
    <3>1. PICK depth \in 0..MaxDepth : Load(m, "depth", depth)
      BY <2>1, <2>4, DepthTypes
    <3> QED BY <1>0, <2>1, <2>2, <3>1, ChangedTypes, LoadInv
  <2> QED BY <1>3, <2>3, <2>4 DEF ChangePreference
<1>4. ASSUME NEW m \in Menus, SavePreference(m) PROVE PrefInv'
  <2>1. m \in People /\ loaded[m].key \in Keys /\ UNCHANGED opener
    BY <1>0, <1>4 DEF SavePreference, Keys
  <2>2. CASE Save(m)
    BY <2>1, <2>2, SaveInv
  <2>3. CASE loaded' = [loaded EXCEPT ![m] = NotLoaded] /\ UNCHANGED <<prefs, kept>>
    <3>1. loaded' = [p \in People |-> IF p = m THEN NotLoaded ELSE loaded[p]]
      BY <2>3 DEF PrefInv
    <3> QED BY <2>1, <2>3, <3>1, ForgetInv
  <2> QED BY <1>4, <2>2, <2>3 DEF SavePreference
<1>5. ASSUME Dismissed PROVE PrefInv'
  <2>1. loaded[Welcome].key \in Keys /\ UNCHANGED opener
    BY <1>5 DEF Dismissed, Keys
  <2>2. CASE Save(Welcome)
    BY <1>0, <2>1, <2>2, SaveInv
  <2>3. CASE loaded' = [loaded EXCEPT ![Welcome] = NotLoaded] /\ UNCHANGED <<prefs, kept>>
    <3>1. loaded' = [p \in People |-> IF p = Welcome THEN NotLoaded ELSE loaded[p]]
      BY <2>3 DEF PrefInv
    <3> QED BY <2>1, <2>3, <3>1, ForgetInv
  <2> QED BY <1>5, <2>2, <2>3 DEF Dismissed
<1>6. ASSUME Dismiss \/ Uninstall PROVE PrefInv'
  <2>1. Load(Welcome, "onboarding", FALSE) /\ UNCHANGED <<prefs, kept, opener>>
    BY <1>6 DEF Dismiss, Uninstall
  <2>2. "onboarding" \in Keys /\ [prefs EXCEPT !["onboarding"] = FALSE] \in PluginPreferences
    BY ChangedTypes DEF Keys, PrefInv
  <2> QED BY <1>0, <2>1, <2>2, LoadInv
<1>7. ASSUME LookAtPreferences PROVE PrefInv'
  <2>1. /\ UNCHANGED <<prefs, kept, loaded>>
        /\ opener' = [pc |-> "loaded", enabled |-> prefs.onboarding, dismissed |-> ~kept.onboarding]
    BY <1>7 DEF LookAtPreferences
  <2>2. prefs["onboarding"] = kept["onboarding"]
    BY DEF PrefInv, PreferencesKept, Keys
  <2>3. opener'.enabled => ~opener'.dismissed
    BY <2>1, <2>2
  <2> QED BY <2>1, <2>3 DEF PrefInv, PreferencesKept, Fresh
<1>8. ASSUME Decide PROVE PrefInv'
  BY <1>8 DEF Decide, Idle, PrefInv, PreferencesKept, Fresh
<1>9. ASSUME UNCHANGED <<prefs, kept, loaded, opener>> PROVE PrefInv'
  BY <1>9, PrefStutters
<1>10. ASSUME NEW m \in Menus, OpenMenu(m) \/ CloseMenu(m) \/ GiveUp(m) \/ AskShortcut(m)
       PROVE  UNCHANGED <<prefs, kept, loaded, opener>>
  BY <1>10 DEF OpenMenu, CloseMenu, GiveUp, AskShortcut
<1>11. ASSUME NEW m \in Menus, NEW t \in Threads, AskCompanion(m, t)
       PROVE  UNCHANGED <<prefs, kept, loaded, opener>>
  BY <1>11 DEF AskCompanion
<1>12. ASSUME NEW t \in Threads, Answer(t) PROVE UNCHANGED <<prefs, kept, loaded, opener>>
  BY <1>12 DEF Answer
<1>13. ASSUME NEW p \in People, Reload(p) PROVE UNCHANGED uiVars
  BY <1>13 DEF Reload
<1>14. ASSUME Configure \/ InstallWrapper PROVE UNCHANGED <<prefs, kept, loaded, opener>>
  BY <1>14 DEF Configure, InstallWrapper
<1>15. ASSUME NEW w \in Writers, Work(w) PROVE UNCHANGED uiVars
  BY <1>15 DEF Work
<1>16. CASE UNCHANGED vars
  BY <1>16, PrefStutters DEF vars
<1> QED BY <1>1, <1>2, <1>3, <1>4, <1>5, <1>6, <1>7, <1>8, <1>9, <1>10, <1>11, <1>12, <1>13,
           <1>14, <1>15, <1>16 DEF Next

LEMMA CountUp ==
    /\ \A n \in 0..MaxFaults : n < MaxFaults => n + 1 \in 0..MaxFaults
    /\ \A n \in 0..MaxAsked : n < MaxAsked => n + 1 \in 0..MaxAsked
BY ConfigAssumption, SettingsAssumption

LEMMA MenuStep ==
    ASSUME ConfigInv, PrefInv, MenuInv, [Next]_vars
    PROVE  MenuInv'
<1> DEFINE Counts == /\ asked' = asked \/ (asked < MaxAsked /\ asked' = asked + 1)
                     /\ faults' = faults \/ (faults < MaxFaults /\ faults' = faults + 1)
<1> DEFINE Shown == menu' \in [Menus -> Menu] /\ welcome' \in Pane /\ machine' \in Machine
<1>0. /\ menu \in [Menus -> Menu] /\ welcome \in Pane /\ machine \in Machine
      /\ config \in Documents /\ prefs \in PluginPreferences
      /\ \A w \in Writers : job[w] \in Job
  BY DEF MenuInv, ConfigInv, ConfigTypes, PrefInv
<1>1. Closed \in Menu
  BY SettingsAssumption DEF Closed, Menu, AfterForward
<1>2. NoPane \in Pane
  BY DEF NoPane, Pane
<1>3. ASSUME NEW w \in Writers, Killed(w) PROVE Counts /\ Shown
  <2>1. Counts
    BY <1>3 DEF Killed, Drop
  <2>2. menu' = [m \in Menus |-> IF m = w THEN Closed
                                 ELSE IF menu[m].waits = w THEN [menu[m] EXCEPT !.waits = None]
                                 ELSE menu[m]]
    BY <1>3 DEF Killed
  <2>3. \A m \in Menus : [menu[m] EXCEPT !.waits = None] \in Menu
    BY <1>0 DEF Menu
  <2>4. menu' \in [Menus -> Menu]
    BY <1>0, <1>1, <2>2, <2>3
  <2> QED BY <1>0, <1>2, <1>3, <2>1, <2>4 DEF Killed
<1>4. ASSUME NEW m \in Menus, OpenMenu(m) PROVE Counts /\ Shown
  <2> DEFINE shown == [open |-> TRUE, waits |-> None, after |-> prefs.after,
                       depth |-> prefs.depth, ports |-> PortsShown(config)]
  <2>1. shown \in Menu
    BY <1>0 DEF Menu, PluginPreferences, PortsShown
  <2>2. menu' = [menu EXCEPT ![m] = shown]
    BY <1>4 DEF OpenMenu
  <2> HIDE DEF shown
  <2> QED BY <1>0, <1>4, <2>1, <2>2 DEF OpenMenu, configVars
<1>5. ASSUME NEW m \in Menus, CloseMenu(m) PROVE Counts /\ Shown
  BY <1>0, <1>1, <1>5 DEF CloseMenu, configVars
<1>6. ASSUME NEW m \in Menus, ChangePreference(m) \/ AskShortcut(m) PROVE Counts /\ Shown
  BY <1>0, <1>6 DEF ChangePreference, AskShortcut, Ready, configVars
<1>7. ASSUME NEW m \in Menus, SavePreference(m) PROVE Counts /\ Shown
  <2>1. Counts /\ UNCHANGED <<welcome, machine>>
    BY <1>7 DEF SavePreference, configVars
  <2>2. CASE UNCHANGED menu
    BY <1>0, <2>1, <2>2
  <2>3. CASE menu' = [menu EXCEPT ![m] =
                 IF loaded[m].key = "after" THEN [@ EXCEPT !.after = loaded[m].copy.after]
                                            ELSE [@ EXCEPT !.depth = loaded[m].copy.depth]]
    <3>1. loaded[m] \in Loaded
      BY <1>7, NotLoadedKey DEF SavePreference, PrefInv, People
    <3>2. /\ [menu[m] EXCEPT !.after = loaded[m].copy.after] \in Menu
          /\ [menu[m] EXCEPT !.depth = loaded[m].copy.depth] \in Menu
      BY <1>0, <3>1 DEF Menu, Loaded, PluginPreferences
    <3> QED BY <1>0, <2>1, <2>3, <3>2
  <2> QED BY <1>7, <2>2, <2>3 DEF SavePreference
<1>8. ASSUME NEW m \in Menus, GiveUp(m) PROVE Counts /\ Shown
  <2>1. [menu[m] EXCEPT !.waits = None] \in Menu
    BY <1>0 DEF Menu
  <2> QED BY <1>0, <1>8, <2>1 DEF GiveUp, configVars
<1>9. ASSUME NEW m \in Menus, NEW t \in Threads, AskCompanion(m, t) PROVE Counts /\ Shown
  <2>1. [menu[m] EXCEPT !.waits = t] \in Menu
    BY <1>0 DEF Menu
  <2> QED BY <1>0, <1>9, <2>1 DEF AskCompanion, Ready
<1>10. ASSUME NEW t \in Threads, Answer(t) PROVE Counts /\ Shown
  <2>1. Counts /\ UNCHANGED <<welcome, machine>>
    BY <1>10 DEF Answer
  <2>2. menu' = [m \in Menus |->
                  IF menu[m].waits # t THEN menu[m]
                  ELSE [menu[m] EXCEPT !.waits = None,
                                       !.ports = IF job[t].ok /\ job[t].op # "notify"
                                                 THEN job[t].ports ELSE @]]
    BY <1>10 DEF Answer
  <2>3. job[t] \in Job
    BY <1>0 DEF Threads
  <2>4. ASSUME NEW m \in Menus, NEW p \in {job[t].ports, menu[m].ports}
        PROVE  [menu[m] EXCEPT !.waits = None, !.ports = p] \in Menu
    <3>1. p \in BOOLEAN
      BY <1>0, <2>3 DEF Menu, Job
    <3> QED BY <1>0, <3>1 DEF Menu
  <2>5. ASSUME NEW m \in Menus PROVE menu'[m] \in Menu
    <3>1. CASE job[t].ok /\ job[t].op # "notify"
      BY <1>0, <2>2, <2>4, <3>1
    <3>2. CASE ~(job[t].ok /\ job[t].op # "notify")
      BY <1>0, <2>2, <2>4, <3>2
    <3> QED BY <3>1, <3>2
  <2>6. menu' \in [Menus -> Menu]
    BY <2>2, <2>5
  <2> QED BY <1>0, <2>1, <2>6
<1>11. ASSUME NEW p \in People, Reload(p) PROVE Counts /\ Shown
  BY <1>0, <1>11 DEF Reload, uiVars
<1>12. ASSUME NEW w \in Writers, Work(w) PROVE Counts /\ Shown
  BY <1>0, <1>12 DEF Work, WriterStep, Acquire, Read, BackUp, Write, ReadStatus, uiVars
<1>13. ASSUME NEW doc \in Saves, Edit(doc), UNCHANGED uiVars PROVE Counts /\ Shown
  BY <1>0, <1>13 DEF Edit, uiVars
<1>14. ASSUME Dismiss \/ Dismissed \/ Configure \/ Uninstall \/ LookAtPreferences
       PROVE  Counts /\ Shown
  BY <1>0, <1>2, <1>14 DEF Dismiss, Dismissed, Configure, Uninstall, LookAtPreferences, configVars, Machine
<1>15. ASSUME InstallWrapper PROVE Counts /\ Shown
  <2>1. [welcome EXCEPT !.hfwd = TRUE] \in Pane /\ [machine EXCEPT !.hfwd = TRUE] \in Machine
    BY <1>0 DEF Pane, Machine
  <2> QED BY <1>0, <1>15, <2>1 DEF InstallWrapper, configVars
<1>16. ASSUME Decide PROVE Counts /\ Shown
  <2>1. [NoPane EXCEPT !.open = TRUE, !.hfwd = machine.hfwd, !.byHfwd = machine.byHfwd] \in Pane
    BY <1>0 DEF NoPane, Pane, Machine
  <2> QED BY <1>0, <1>16, <2>1 DEF Decide, configVars
<1>17. CASE UNCHANGED vars
  BY <1>17 DEF vars, configVars, MenuInv
<1> HIDE DEF Counts, Shown
<1>18. CASE Next
  <2>1. Counts /\ Shown
    BY <1>3, <1>4, <1>5, <1>6, <1>7, <1>8, <1>9, <1>10, <1>11, <1>12, <1>13, <1>14, <1>15,
       <1>16, <1>18 DEF Next
  <2>2. asked' \in 0..MaxAsked /\ faults' \in 0..MaxFaults
    BY <2>1, CountUp DEF Counts, MenuInv
  <2> QED BY <2>1, <2>2 DEF Shown, MenuInv
<1> QED BY <1>17, <1>18

-----------------------------------------------------------------------------
(* The theorems.                                                           *)

IInv == ConfigInv /\ PrefInv /\ MenuInv

\* IInv holds of every behaviour: whoever edits, saves, reads stale preferences or is killed.
THEOREM Invariance == Spec => []IInv
<1>1. Init => IInv
  BY InitConfigInv, InitScreens DEF IInv
<1>2. IInv /\ [Next]_vars => IInv'
  BY ConfigStep, PrefStep, MenuStep DEF IInv
<1> QED BY <1>1, <1>2, PTL DEF Spec

LEMMA Typed == IInv => TypeOK
<1> SUFFICES ASSUME IInv PROVE TypeOK
  OBVIOUS
<1>1. ConfigTypeOK
  BY DEF IInv, ConfigInv, ConfigTypes, MenuInv, ConfigTypeOK, Job, Steps, Held
<1>2. \A p \in People : loaded[p].key \in Keys \cup {"none"}
  BY NotLoadedKey DEF IInv, PrefInv
<1> QED BY <1>1, <1>2 DEF IInv, PrefInv, MenuInv, TypeOK, PluginPreferences, Menu, Pane

\* What a menu or the pane was told is saved is in Herdr's configuration, for any number of
\* processes that edit it, and the lock is held by the one that works under it.
THEOREM Config == Spec => []ConfigIsSound
<1>1. IInv => ConfigIsSound
  BY Typed DEF IInv, ConfigInv, ConfigIsSound
<1> QED BY <1>1, Invariance, PTL

LEMMA StaysAway ==
    ASSUME IInv, Next, ~welcome.open, welcome'.open
    PROVE  ~opener.dismissed
<1>1. Decide
  <2>1. NoPane.open = FALSE
    BY DEF NoPane
  <2>2. welcome' # welcome
    OBVIOUS
  <2>3. \A w \in Writers : Work(w) \/ Killed(w) => welcome' \in {welcome, NoPane}
    BY DEF Work, Killed, uiVars
  <2>4. \A doc \in Saves : ~(Edit(doc) /\ UNCHANGED uiVars)
    BY <2>2 DEF uiVars
  <2>5. \A m \in Menus : ~(\/ OpenMenu(m) \/ CloseMenu(m) \/ ChangePreference(m) \/ SavePreference(m)
                           \/ GiveUp(m) \/ AskShortcut(m)
                           \/ \E t \in Threads : AskCompanion(m, t))
    BY <2>2 DEF OpenMenu, CloseMenu, ChangePreference, SavePreference, GiveUp, AskShortcut,
                AskCompanion
  <2>6. /\ \A t \in Threads : ~Answer(t)
        /\ \A p \in People : ~Reload(p)
    BY <2>2 DEF Answer, Reload, uiVars
  <2>7. ~(Dismiss \/ Configure \/ Uninstall \/ LookAtPreferences)
    BY <2>2 DEF Dismiss, Configure, Uninstall, LookAtPreferences
  <2>8. ~Dismissed /\ ~InstallWrapper
    BY <2>1 DEF Dismissed, InstallWrapper, Chosen
  <2> QED BY <2>1, <2>2, <2>3, <2>4, <2>5, <2>6, <2>7, <2>8 DEF Next
<1>2. opener.pc = "loaded" /\ opener.enabled
  BY <1>1 DEF Decide, Shows
<1> QED BY <1>2 DEF IInv, PrefInv

\* PluginPreferences stay as last chosen, unless they were read before and written after, and a
\* welcome pane that was dismissed is not opened again, by any number of menus.
THEOREM Choices == Spec => ChoicesAreKept
<1> DEFINE Away == ~welcome.open /\ welcome'.open => ~opener.dismissed
<1>1. IInv => PreferencesKept
  BY DEF IInv, PrefInv
<1>2. IInv /\ [Next]_vars => [Away]_vars
  BY StaysAway
<1> QED BY <1>1, <1>2, Invariance, PTL DEF Spec, ChoicesAreKept, DismissedStaysAway
=============================================================================
