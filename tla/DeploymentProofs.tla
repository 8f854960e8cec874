-------------------------- MODULE DeploymentProofs --------------------------
(***************************************************************************)
(* Proofs about Deployment and the release cache it fetches from: for every  *)
(* set of editions of a release and of processes that share the cache, any   *)
(* bound on the failures of one operation, with and without killed programs. *)
(*                                                                           *)
(* The argument.  MachineIsSound is about the machine between two operations, *)
(* and a command that fails may have had any part of its effect; so it holds *)
(* only because an operation never leaves a step without what it would need  *)
(* to go back.  Going says, step by step, what that is on the way to the      *)
(* activation (the directory of what was registered, in its version), Back    *)
(* what it is after it (the bundle that was moved aside); Removing what a     *)
(* removal has removed by now.  Provenance is the same for the origin file:   *)
(* it is rewritten last and removed after the registration, so that at no     *)
(* moment it names an installation that hfwd did not make.  Releases follows  *)
(* a release from the download to the publication.                            *)
(*                                                                           *)
(* A command is a list of states that it goes through, and may stop at any of *)
(* them: the lemmas of the first two parts say which machines those are.      *)
(***************************************************************************)
EXTENDS Deployment, SequenceTheorems, TLAPS

\* Nobody touches the user's own checkout.
MachineType ==
    {m \in [reg : Status \cup {Absent}, disk : [Roots -> Contents], stage : Contents,
            previous : Contents, origin : Origins \cup {NoOrigin}] : m.disk["own"] = Old}

\* What a directory of the machine must hold for a registration.
Holds(m, status) ==
    status # Absent =>
        m.disk[status.root] # Nothing /\ VersionOf(m.disk[status.root]) = status.version

Cached == {Empty} \cup [binary : Editions \cup {Rotten}, checksum : Editions]

(* The release cache: nothing but whole releases is published.             *)
Releases ==
    /\ cache \in Cached /\ aside \in [Fetchers -> Cached]
    /\ \A f \in Fetchers :
        /\ step[f] \in {"publish", "aside", "swap", "tidy", "done"} => hand[f] \in Editions
        /\ step[f] = "checksum" => hand[f] \in Editions \cup {Rotten}

(* Who is where, and on whose behalf.                                      *)
Places ==
    /\ pc \in {"check", "install", "restore", "access", "unlink", "reinstall", "relink", "bundle",
               "activate", "confirm", "rollback", "sweep", "verify", "record"} => job.op = "deploy"
    /\ pc \in {"remove", "absent", "forget", "clear"} =>
        job.op = "uninstall" \/ (job.op = "deploy" /\ was = Absent)
    /\ pc \in {"leave", "purge", "withdraw"} => job.op = "welcome"
    /\ pc \in {"unlink", "reinstall", "relink"} => was.root = "managed"
    /\ pc = "record" => job.owned

(* No operation but that of the popup is under way in a session, if it looked. *)
Alone == pc \notin {"idle", "check"} /\ job.op # "welcome" /\ ~job.intruded => ~session

(* The origin is never that of a foreign installation.                     *)
Provenance ==
    /\ machine.origin.root \in {"none", "native", "managed"}
    /\ ~byHfwd /\ machine.reg # Absent => machine.origin.root # machine.reg.root
    /\ pc # "idle" /\ ~job.mine =>
        /\ was # Absent => machine.origin.root # was.root
        /\ was = Absent => job.op # "deploy"
    /\ pc \notin {"idle", "check"} /\ job.owned => job.mine
    /\ pc = "check" => machine.reg = was
    /\ pc \in {"confirm", "sweep", "verify", "record"} =>
        machine.reg.root \in {"native", "managed"}

(* What a removal has removed.                                             *)
Removing ==
    /\ pc \in {"forget", "clear", "purge", "withdraw"} => machine.reg = Absent
    /\ pc = "clear" => machine.origin = NoOrigin
    /\ pc = "withdraw" => machine.disk["managed"] = Nothing

(* What a deployment can go back to.                                       *)
Going ==
    /\ pc \in {"check", "install", "access", "unlink", "bundle", "activate"} => machine.reg = was
    /\ pc = "activate" => machine.stage \in Editions
    /\ pc = "restore" /\ was # Absent => machine.disk[was.root] # Nothing
    /\ pc = "confirm" => machine.reg = Registration("managed", New, TRUE)
    /\ pc \in {"check", "install", "access", "unlink", "reinstall", "relink", "bundle",
               "activate"} =>
        Holds(machine, was)
    /\ pc \in {"check", "install", "restore", "access", "bundle", "activate"} =>
        machine.disk["managed"] = job.found /\ machine.previous = Nothing
    /\ pc # "rollback" => Holds(machine, machine.reg)

\* The bundle it found has been moved out of the way, and what was registered is there.
Back ==
    pc \in {"confirm", "rollback"} =>
        /\ machine.previous = job.found
        /\ was # Absent =>
            LET content == IF was.root = "managed" THEN job.found ELSE machine.disk[was.root] IN
                content # Nothing /\ VersionOf(content) = was.version

(* The inductive invariant.                                                *)
Sound ==
    /\ Places /\ Alone /\ Provenance /\ Removing
    /\ ~trouble => Going
    /\ ~trouble /\ ~Refusals => Back

IInv == TypeOK /\ machine \in MachineType /\ Releases /\ Sound

-----------------------------------------------------------------------------
(* The states that a command takes the machine through.                    *)

Last(states) == states[Len(states)]

\* The last of a few states, and all of them.
LEMMA Lists ==
    ASSUME NEW a, NEW b, NEW c, NEW d
    PROVE  /\ Last(<<a>>) = a /\ SomeOf(<<a>>) = {a}
           /\ Last(<<a, b>>) = b /\ SomeOf(<<a, b>>) = {a, b}
           /\ Last(<<a, b, c>>) = c /\ SomeOf(<<a, b, c>>) = {a, b, c}
           /\ Last(<<a, b, c, d>>) = d /\ SomeOf(<<a, b, c, d>>) = {a, b, c, d}
BY DEF SomeOf, Last

\* One more state at the end, if there is one, ...
LEMMA Longer ==
    ASSUME NEW S, NEW states \in Seq(S), NEW m \in S
    PROVE  /\ Last(Append(states, m)) = m
           /\ SomeOf(Append(states, m)) = SomeOf(states) \cup {m}
<1>1. /\ Append(states, m) \in Seq(S)
      /\ Len(states) \in Nat /\ Len(Append(states, m)) = Len(states) + 1
      /\ \A i \in 1..Len(states) : Append(states, m)[i] = states[i]
      /\ Append(states, m)[Len(states) + 1] = m
  BY AppendProperties, LenProperties
<1>2. DOMAIN states = 1..Len(states) /\ DOMAIN Append(states, m) = 1..(Len(states) + 1)
  BY <1>1, LenProperties
<1>3. SomeOf(Append(states, m)) \subseteq SomeOf(states) \cup {m}
  BY <1>1, <1>2 DEF SomeOf
<1>4. SomeOf(states) \cup {m} \subseteq SomeOf(Append(states, m))
  BY <1>1, <1>2 DEF SomeOf
<1> QED BY <1>1, <1>3, <1>4 DEF Last

\* ... or at the beginning.
LEMMA NotRefused ==
    ASSUME NEW a, NEW b, NEW c
    PROVE  Last(<<>> \o <<a, b, c>>) = c /\ SomeOf(<<>> \o <<a, b, c>>) = {a, b, c}
<1> DEFINE S == {a, b, c}
           three == <<a, b, c>>
<1>1. three \in Seq(S)
  OBVIOUS
<1>2. Last(three) = c /\ SomeOf(three) = {a, b, c}
  BY DEF Last, SomeOf
<1> HIDE DEF S, three
<1>3. <<>> \o three = three
  BY <1>1, ConcatEmptySeq
<1>4. Last(<<>> \o three) = c /\ SomeOf(<<>> \o three) = {a, b, c}
  BY <1>2, <1>3
<1> QED BY <1>4 DEF three

\* A list that starts, or does not, with one more state.
LEMMA Refused ==
    ASSUME NEW m, NEW a, NEW b, NEW c
    PROVE  /\ Last(<<>> \o <<a, b, c>>) = c /\ SomeOf(<<>> \o <<a, b, c>>) = {a, b, c}
           /\ Last(<<m>> \o <<a, b, c>>) = c /\ SomeOf(<<m>> \o <<a, b, c>>) = {m, a, b, c}
<1> DEFINE S == {m, a, b, c}
           none == <<>>
           one == <<m>>
           three == <<a, b, c>>
<1>1. /\ none \in Seq(S) /\ one \in Seq(S) /\ three \in Seq(S)
      /\ Len(three) = 3 /\ Len(one) = 1
      /\ three[1] = a /\ three[2] = b /\ three[3] = c /\ one[1] = m /\ SomeOf(three) = {a, b, c}
  <2>1. none \in Seq(S)
    OBVIOUS
  <2>2. one \in Seq(S) /\ Len(one) = 1 /\ one[1] = m
    OBVIOUS
  <2>3. three \in Seq(S) /\ Len(three) = 3 /\ three[1] = a /\ three[2] = b /\ three[3] = c
    OBVIOUS
  <2>4. SomeOf(three) = {a, b, c}
    BY DEF SomeOf
  <2> HIDE DEF one, three, none, S
  <2> QED BY <2>1, <2>2, <2>3, <2>4
<1> HIDE DEF S, three, one
<1>2. none \o three = three
  BY <1>1, ConcatEmptySeq
<1>3. /\ Len(one \o three) = 4 /\ DOMAIN (one \o three) = 1..4
      /\ \A i \in 1..4 : (one \o three)[i] = IF i <= 1 THEN one[i] ELSE three[i - 1]
  <2>1. /\ one \o three \in Seq(S) /\ Len(one \o three) = Len(one) + Len(three)
        /\ \A i \in 1..Len(one) + Len(three) :
             (one \o three)[i] = IF i <= Len(one) THEN one[i] ELSE three[i - Len(one)]
    BY <1>1, ConcatProperties
  <2>2. Len(one) + Len(three) = 4
    BY <1>1
  <2>3. DOMAIN (one \o three) = 1..Len(one \o three)
    BY <2>1, LenProperties
  <2> QED BY <1>1, <2>1, <2>2, <2>3
<1>4. /\ (one \o three)[1] = m /\ (one \o three)[2] = a /\ (one \o three)[3] = b
      /\ (one \o three)[4] = c
  BY <1>1, <1>3
<1>5. SomeOf(one \o three) = {m, a, b, c}
  <2> DEFINE four == one \o three
  <2>1. DOMAIN four = {1, 2, 3, 4}
    BY <1>3
  <2>2. four[1] = m /\ four[2] = a /\ four[3] = b /\ four[4] = c
    BY <1>4
  <2> HIDE DEF four
  <2>3. SomeOf(four) = {m, a, b, c}
    BY <2>1, <2>2 DEF SomeOf
  <2> QED BY <2>3 DEF four
<1> QED BY <1>1, <1>2, <1>3, <1>4, <1>5 DEF Last, none, one, three

-----------------------------------------------------------------------------
(* What is left of a machine.                                              *)

\* What a directory may hold, and the version of it.
LEMMA ContentsAre ==
    /\ Old \in Contents /\ New \in Contents /\ Nothing \in Contents /\ Editions \subseteq Contents
    /\ Old # Nothing /\ New # Nothing /\ Old # New
    /\ VersionOf(Old) = Old /\ VersionOf(New) = New
    /\ \A e \in Editions : VersionOf(e) = New /\ e # Nothing
    /\ \A content : VersionOf(content) \in {Old, New}
BY EditionsAssumption, VersionsAssumption DEF Contents, Old, New, Nothing, Rotten, VersionOf

\* A registration has the three fields it was made of.
LEMMA RegistrationsAre ==
    /\ Absent.root = "none" /\ ~Absent.enabled
    /\ \A status \in Status :
         /\ status # Absent /\ status.root \in Roots /\ status.version \in {Old, New}
         /\ status.enabled \in BOOLEAN
         /\ status = Registration(status.root, status.version, status.enabled)
    /\ \A r \in Roots, v \in {Old, New}, b \in BOOLEAN :
         /\ Registration(r, v, b) \in Status /\ Registration(r, v, b).root = r
         /\ Registration(r, v, b).version = v /\ Registration(r, v, b).enabled = b
BY DEF Absent, Status, Roots, Registration

\* Unlinking forgets the registration alone.
LEMMA UnlinkedIs ==
    ASSUME NEW m \in MachineType
    PROVE  /\ Unlinked(m) \in MachineType /\ Unlinked(m).reg = Absent /\ Unlinked(m).disk = m.disk
           /\ Unlinked(m).stage = m.stage /\ Unlinked(m).previous = m.previous
           /\ Unlinked(m).origin = m.origin
BY DEF Unlinked, MachineType

\* Linking registers a directory in the version that it holds.
LEMMA LinkedIs ==
    ASSUME NEW m \in MachineType, NEW status \in Status
    PROVE  /\ Linked(m, status) \in MachineType
           /\ Linked(m, status).reg \in Status
           /\ Linked(m, status).reg =
                Registration(status.root, VersionOf(m.disk[status.root]), status.enabled)
           /\ Linked(m, status).disk = m.disk
           /\ Linked(m, status).stage = m.stage /\ Linked(m, status).previous = m.previous
           /\ Linked(m, status).origin = m.origin
<1>1. Registration(status.root, VersionOf(m.disk[status.root]), status.enabled) \in Status
  BY ContentsAre, RegistrationsAre
<1> QED BY <1>1 DEF Linked, MachineType

\* The native installation replaces its own directory alone.
LEMMA InstalledIs ==
    ASSUME NEW m \in MachineType, NEW b \in BOOLEAN
    PROVE  /\ Installed(m, b) \in MachineType
           /\ Installed(m, b).reg = Registration("native", New, b)
           /\ Installed(m, b).disk = [m.disk EXCEPT !["native"] = New]
           /\ Installed(m, b).disk["native"] = New
           /\ \A r \in Roots \ {"native"} : Installed(m, b).disk[r] = m.disk[r]
           /\ Installed(m, b).stage = m.stage /\ Installed(m, b).previous = m.previous
           /\ Installed(m, b).origin = m.origin
<1>1. Registration("native", New, b) \in Status
  BY RegistrationsAre DEF Roots
<1> QED BY <1>1, ContentsAre DEF Installed, MachineType, Roots

\* Dropping the registration takes no directory but that of a native installation.
LEMMA DroppedIs ==
    ASSUME NEW m \in MachineType
    PROVE  /\ Dropped(m) \in MachineType /\ Dropped(m).reg = Absent
           /\ \A r \in Roots :
                Dropped(m).disk[r] = m.disk[r] \/ (r = "native" /\ m.reg.root = "native")
           /\ Dropped(m).stage = m.stage /\ Dropped(m).previous = m.previous
           /\ Dropped(m).origin = m.origin
BY ContentsAre DEF Dropped, Uninstallable, Uninstalled, Unlinked, MachineType, Roots

\* Herdr's uninstallation takes no directory but the native one.
LEMMA UninstalledIs ==
    ASSUME NEW m \in MachineType
    PROVE  /\ Uninstalled(m) \in MachineType /\ Uninstalled(m).reg = Absent
           /\ \A r \in Roots \ {"native"} : Uninstalled(m).disk[r] = m.disk[r]
           /\ Uninstalled(m).origin = m.origin
BY ContentsAre DEF Uninstalled, MachineType, Roots

\* Staging touches nothing that is in use.
LEMMA StagedIs ==
    ASSUME NEW m \in MachineType, NEW content \in Contents
    PROVE  /\ Staged(m, content) \in MachineType /\ Staged(m, content).reg = m.reg
           /\ Staged(m, content).disk = m.disk /\ Staged(m, content).stage = content
           /\ Staged(m, content).previous = m.previous /\ Staged(m, content).origin = m.origin
BY DEF Staged, MachineType

\* The two renames of an activation, ...
LEMMA MovedAsideIs ==
    ASSUME NEW m \in MachineType
    PROVE  /\ MovedAside(m) \in MachineType /\ MovedAside(m).reg = m.reg
           /\ MovedAside(m).disk["managed"] = Nothing
           /\ \A r \in Roots \ {"managed"} : MovedAside(m).disk[r] = m.disk[r]
           /\ MovedAside(m).stage = m.stage /\ MovedAside(m).previous = m.disk["managed"]
           /\ MovedAside(m).origin = m.origin
BY ContentsAre DEF MovedAside, MachineType, Roots

\* ... the second of which puts in place what was staged.
LEMMA MovedInIs ==
    ASSUME NEW m \in MachineType
    PROVE  /\ MovedIn(m) \in MachineType /\ MovedIn(m).reg = m.reg
           /\ MovedIn(m).disk["managed"] = m.stage
           /\ \A r \in Roots \ {"managed"} : MovedIn(m).disk[r] = m.disk[r]
           /\ MovedIn(m).previous = m.previous /\ MovedIn(m).origin = m.origin
BY ContentsAre DEF MovedIn, MachineType, Roots

\* A bundle that is cleared away is not the one that was moved aside.
LEMMA ClearedIs ==
    ASSUME NEW m \in MachineType
    PROVE  /\ Cleared(m) \in MachineType /\ Cleared(m).reg = m.reg
           /\ Cleared(m).disk["managed"] = Nothing
           /\ \A r \in Roots \ {"managed"} : Cleared(m).disk[r] = m.disk[r]
           /\ Cleared(m).previous = m.previous /\ Cleared(m).origin = m.origin
BY ContentsAre DEF Cleared, MachineType, Roots

\* Moving back restores the bundle, if one was moved aside.
LEMMA MovedBackIs ==
    ASSUME NEW m \in MachineType
    PROVE  /\ MovedBack(m) \in MachineType /\ MovedBack(m).reg = m.reg
           /\ m.previous # Nothing => MovedBack(m).disk["managed"] = m.previous
           /\ m.previous = Nothing => MovedBack(m).disk["managed"] = m.disk["managed"]
           /\ \A r \in Roots \ {"managed"} : MovedBack(m).disk[r] = m.disk[r]
           /\ MovedBack(m).origin = m.origin
BY ContentsAre DEF MovedBack, MachineType, Roots

\* Without bundles the managed directory is gone.
LEMMA NoBundlesIs ==
    ASSUME NEW m \in MachineType
    PROVE  /\ NoBundles(m) \in MachineType /\ NoBundles(m).reg = m.reg
           /\ NoBundles(m).disk["managed"] = Nothing
           /\ NoBundles(m).origin = m.origin
<1>1. Cleared(m) \in MachineType
  BY ClearedIs
<1> QED BY <1>1, ClearedIs, ContentsAre DEF NoBundles, MachineType

\* The origin file gets the root and version of the registration, ...
LEMMA RecordedIs ==
    ASSUME NEW m \in MachineType, m.reg \in Status
    PROVE  /\ Recorded(m) \in MachineType /\ Recorded(m).reg = m.reg /\ Recorded(m).disk = m.disk
           /\ Recorded(m).stage = m.stage /\ Recorded(m).previous = m.previous
           /\ Recorded(m).origin = [root |-> m.reg.root, version |-> m.reg.version]
BY DEF Recorded, MachineType, Status, Origins

\* ... or is removed, ...
LEMMA ForgottenIs ==
    ASSUME NEW m \in MachineType
    PROVE  LET n == [m EXCEPT !.origin = NoOrigin] IN
           /\ n \in MachineType /\ n.reg = m.reg /\ n.disk = m.disk /\ n.stage = m.stage
           /\ n.previous = m.previous /\ n.origin = NoOrigin
BY DEF MachineType

\* ... and the user's switch changes neither the root nor the version.
LEMMA DisabledIs ==
    ASSUME NEW m \in MachineType
    PROVE  LET n == [m EXCEPT !.reg.enabled = FALSE] IN
           /\ n \in MachineType /\ n.disk = m.disk /\ n.stage = m.stage /\ n.previous = m.previous
           /\ n.origin = m.origin
           /\ n.reg.root = m.reg.root /\ n.reg.version = m.reg.version
           /\ n.reg = Absent <=> m.reg = Absent
<1> DEFINE n == [m EXCEPT !.reg.enabled = FALSE]
           reg == [m.reg EXCEPT !.enabled = FALSE]
<1>1. /\ reg.root = m.reg.root /\ reg.version = m.reg.version /\ reg \in Status \cup {Absent}
      /\ reg = Absent <=> m.reg = Absent
  <2>1. CASE m.reg = Absent
    <3> DEFINE Absences == [root : {"none"}, version : {"none"}, enabled : BOOLEAN]
    <3>1. Absent \in Absences /\ \A x, y \in Absences : x.enabled = y.enabled => x = y
      BY DEF Absent
    <3>2. reg \in Absences /\ reg.enabled = FALSE /\ Absent.enabled = FALSE
      BY <2>1, <3>1 DEF Absent
    <3>3. reg = Absent
      BY <3>1, <3>2
    <3> QED BY <2>1, <3>3
  <2>2. CASE m.reg \in Status
    <3>1. /\ reg \in Status /\ reg.root = m.reg.root /\ reg.version = m.reg.version
      BY <2>2 DEF Status
    <3> HIDE DEF reg
    <3>2. reg # Absent /\ m.reg # Absent
      BY <2>2, <3>1, RegistrationsAre
    <3> QED BY <3>1, <3>2
  <2> QED BY <2>1, <2>2 DEF MachineType
<1>2. n.reg = reg /\ n = [m EXCEPT !.reg = reg]
  BY DEF MachineType
<1> HIDE DEF n, reg
<1>3. n \in MachineType /\ n.disk = m.disk /\ n.stage = m.stage /\ n.previous = m.previous
      /\ n.origin = m.origin
  BY <1>1, <1>2 DEF MachineType
<1> QED BY <1>1, <1>2, <1>3 DEF n

-----------------------------------------------------------------------------
(* What the steps of an operation do.                                      *)

JobType ==
    [op : {"deploy", "uninstall", "welcome", "none"}, was : Status \cup {Absent},
     owned : BOOLEAN, faults : 0..MaxFaults, found : Contents, mine : BOOLEAN,
     intruded : BOOLEAN]

\* The operation goes on, and knows what it knew.
Moved(here, there) ==
    /\ pc = here /\ pc' = there /\ UNCHANGED session
    /\ there = "idle" => job' = NoJob
    /\ there # "idle" =>
        /\ job'.op = job.op /\ job'.was = was /\ job'.owned = job.owned
        /\ job'.found = job.found /\ job'.mine = job.mine /\ job'.intruded = job.intruded
    /\ job' \in JobType
    /\ byHfwd' = (job.mine \/ machine'.reg.root \notin {"none", was.root})

\* No operation.
LEMMA NoJobIs ==
    /\ NoJob \in JobType /\ NoJob.op = "none" /\ NoJob.was = Absent /\ ~NoJob.owned
    /\ ~NoJob.mine /\ ~NoJob.intruded /\ NoJob.found = Nothing
BY FetchersAssumption, ContentsAre DEF NoJob, JobType

\* Whether a step succeeds or fails, the operation knows what it knew.
LEMMA MovedIs ==
    ASSUME job \in JobType, NEW here, NEW there, Goto(here, there) \/ Fault(here, there)
    PROVE  Moved(here, there)
<1>1. CASE Goto(here, there)
  BY <1>1, NoJobIs DEF Goto, Advance, Moved, JobType, was
<1>2. CASE Fault(here, there)
  <2> DEFINE j == [job EXCEPT !.faults = @ + 1]
  <2>1. /\ job.faults + 1 \in 0..MaxFaults /\ j \in JobType
        /\ j.op = job.op /\ j.was = job.was /\ j.owned = job.owned
        /\ j.found = job.found /\ j.mine = job.mine /\ j.intruded = job.intruded
    BY <1>2, FetchersAssumption DEF Fault, JobType
  <2> HIDE DEF j
  <2>2. Advance(here, there, j)
    BY <1>2 DEF Fault, j
  <2> QED BY <2>1, <2>2, NoJobIs DEF Advance, Moved, was
<1> QED BY <1>1, <1>2

\* A command ends with its last state, or fails with any of them.
LEMMA RunIs ==
    ASSUME job \in JobType, NEW states, NEW here, NEW next, NEW failed,
           Run(states, here, next, failed)
    PROVE  /\ UNCHANGED trouble /\ UNCHANGED cacheVars
           /\ \/ Moved(here, next) /\ machine' = Last(states)
              \/ Moved(here, failed) /\ machine' \in SomeOf(states)
BY MovedIs DEF Run, Last, Goto

\* So does a repair, after whose failure there is trouble.
LEMMA RepairIs ==
    ASSUME job \in JobType, NEW states, NEW possible \in BOOLEAN, NEW here, NEW next,
           Repair(states, possible, here, next)
    PROVE  /\ UNCHANGED cacheVars
           /\ \/ /\ Moved(here, IF possible THEN next ELSE "idle")
                 /\ machine' = Last(states) /\ UNCHANGED trouble
              \/ Moved(here, "idle") /\ machine' \in SomeOf(states) /\ trouble'
BY MovedIs DEF Repair, Last, Goto

\* Commands that go through one, two or three states.
LEMMA RunOne ==
    ASSUME job \in JobType, NEW a, NEW here, NEW next, NEW failed, Run(<<a>>, here, next, failed)
    PROVE  /\ UNCHANGED trouble /\ UNCHANGED cacheVars /\ machine' = a
           /\ Moved(here, next) \/ Moved(here, failed)
<1>1. Last(<<a>>) = a /\ SomeOf(<<a>>) = {a}
  BY DEF Last, SomeOf
<1> QED BY <1>1, RunIs

LEMMA RunTwo ==
    ASSUME job \in JobType, NEW a, NEW b, NEW here, NEW next, NEW failed,
           Run(<<a, b>>, here, next, failed)
    PROVE  /\ UNCHANGED trouble /\ UNCHANGED cacheVars
           /\ \/ Moved(here, next) /\ machine' = b
              \/ Moved(here, failed) /\ machine' \in {a, b}
<1>1. Last(<<a, b>>) = b /\ SomeOf(<<a, b>>) = {a, b}
  BY DEF Last, SomeOf
<1> QED BY <1>1, RunIs

LEMMA RunThree ==
    ASSUME job \in JobType, NEW a, NEW b, NEW c, NEW here, NEW next, NEW failed,
           Run(<<a, b, c>>, here, next, failed)
    PROVE  /\ UNCHANGED trouble /\ UNCHANGED cacheVars
           /\ \/ Moved(here, next) /\ machine' = c
              \/ Moved(here, failed) /\ machine' \in {a, b, c}
<1>1. Last(<<a, b, c>>) = c /\ SomeOf(<<a, b, c>>) = {a, b, c}
  BY DEF Last, SomeOf
<1> QED BY <1>1, RunIs

LEMMA RepairOne ==
    ASSUME job \in JobType, NEW a, NEW possible \in BOOLEAN, NEW here, NEW next,
           Repair(<<a>>, possible, here, next)
    PROVE  /\ UNCHANGED cacheVars /\ machine' = a
           /\ \/ Moved(here, IF possible THEN next ELSE "idle") /\ UNCHANGED trouble
              \/ Moved(here, "idle") /\ trouble'
<1>1. Last(<<a>>) = a /\ SomeOf(<<a>>) = {a}
  BY DEF Last, SomeOf
<1> QED BY <1>1, RepairIs

LEMMA RepairTwo ==
    ASSUME job \in JobType, NEW a, NEW b, NEW possible \in BOOLEAN, NEW here, NEW next,
           Repair(<<a, b>>, possible, here, next)
    PROVE  /\ UNCHANGED cacheVars
           /\ \/ /\ Moved(here, IF possible THEN next ELSE "idle")
                 /\ machine' = b /\ UNCHANGED trouble
              \/ Moved(here, "idle") /\ machine' \in {a, b} /\ trouble'
<1>1. Last(<<a, b>>) = b /\ SomeOf(<<a, b>>) = {a, b}
  BY DEF Last, SomeOf
<1> QED BY <1>1, RepairIs

LEMMA RepairThree ==
    ASSUME job \in JobType, NEW a, NEW b, NEW c, NEW possible \in BOOLEAN, NEW here, NEW next,
           Repair(<<a, b, c>>, possible, here, next)
    PROVE  /\ UNCHANGED cacheVars
           /\ \/ /\ Moved(here, IF possible THEN next ELSE "idle")
                 /\ machine' = c /\ UNCHANGED trouble
              \/ Moved(here, "idle") /\ machine' \in {a, b, c} /\ trouble'
<1>1. Last(<<a, b, c>>) = c /\ SomeOf(<<a, b, c>>) = {a, b, c}
  BY DEF Last, SomeOf
<1> QED BY <1>1, RepairIs

\* A repair that may not come to its last state.
LEMMA RepairThen ==
    ASSUME job \in JobType, NEW S, NEW states \in Seq(S), NEW m \in S,
           NEW reach \in BOOLEAN, NEW possible \in BOOLEAN, NEW here, NEW next,
           Repair(Then(states, reach, m), possible, here, next)
    PROVE  /\ UNCHANGED cacheVars
           /\ \/ /\ Moved(here, IF possible THEN next ELSE "idle")
                 /\ machine' = IF reach THEN m ELSE Last(states)
                 /\ UNCHANGED trouble
              \/ /\ Moved(here, "idle") /\ trouble'
                 /\ machine' \in SomeOf(states) \cup (IF reach THEN {m} ELSE {})
<1>1. CASE reach
  <2>1. Repair(Append(states, m), possible, here, next)
    BY <1>1 DEF Then
  <2>2. Last(Append(states, m)) = m /\ SomeOf(Append(states, m)) = SomeOf(states) \cup {m}
    BY Longer
  <2> QED BY <1>1, <2>1, <2>2, RepairIs
<1>2. CASE ~reach
  <2>1. Repair(states, possible, here, next)
    BY <1>2 DEF Then
  <2> QED BY <1>2, <2>1, RepairIs
<1> QED BY <1>1, <1>2

\* Repairs that go through one state, two or four, and to one more if they reach it.
LEMMA OneThen ==
    ASSUME job \in JobType, NEW a, NEW m, NEW reach \in BOOLEAN, NEW possible \in BOOLEAN,
           NEW here, NEW next, Repair(Then(<<a>>, reach, m), possible, here, next)
    PROVE  \/ /\ Moved(here, IF possible THEN next ELSE "idle")
              /\ machine' = (IF reach THEN m ELSE a) /\ UNCHANGED trouble
           \/ Moved(here, "idle") /\ trouble' /\ (machine' = a \/ (reach /\ machine' = m))
<1> DEFINE S == {a, m}
           states == <<a>>
<1>1. states \in Seq(S) /\ m \in S
  OBVIOUS
<1>2. Last(states) = a /\ SomeOf(states) = {a}
  BY DEF Last, SomeOf
<1>3. Repair(Then(states, reach, m), possible, here, next)
  OBVIOUS
<1> HIDE DEF S, states
<1> QED BY <1>1, <1>2, <1>3, RepairThen

LEMMA TwoThen ==
    ASSUME job \in JobType, NEW a, NEW b, NEW m, NEW reach \in BOOLEAN, NEW possible \in BOOLEAN,
           NEW here, NEW next, Repair(Then(<<a, b>>, reach, m), possible, here, next)
    PROVE  \/ /\ Moved(here, IF possible THEN next ELSE "idle")
              /\ machine' = (IF reach THEN m ELSE b) /\ UNCHANGED trouble
           \/ /\ Moved(here, "idle") /\ trouble'
              /\ machine' \in {a, b} \/ (reach /\ machine' = m)
<1> DEFINE S == {a, b, m}
           states == <<a, b>>
<1>1. states \in Seq(S) /\ m \in S
  OBVIOUS
<1>2. Last(states) = b /\ SomeOf(states) = {a, b}
  BY DEF Last, SomeOf
<1>3. Repair(Then(states, reach, m), possible, here, next)
  OBVIOUS
<1> HIDE DEF S, states
<1> QED BY <1>1, <1>2, <1>3, RepairThen

LEMMA FourThen ==
    ASSUME job \in JobType, NEW a, NEW b, NEW c, NEW d, NEW m, NEW reach \in BOOLEAN,
           NEW possible \in BOOLEAN, NEW here, NEW next,
           Repair(Then(<<a, b, c, d>>, reach, m), possible, here, next)
    PROVE  \/ /\ Moved(here, IF possible THEN next ELSE "idle")
              /\ machine' = (IF reach THEN m ELSE d) /\ UNCHANGED trouble
           \/ /\ Moved(here, "idle") /\ trouble'
              /\ machine' \in {a, b, c, d} \/ (reach /\ machine' = m)
<1> DEFINE S == {a, b, c, d, m}
           states == <<a, b, c, d>>
<1>1. states \in Seq(S) /\ m \in S
  OBVIOUS
<1>2. Last(states) = d /\ SomeOf(states) = {a, b, c, d}
  BY DEF Last, SomeOf
<1>3. Repair(Then(states, reach, m), possible, here, next)
  OBVIOUS
<1> HIDE DEF S, states
<1> QED BY <1>1, <1>2, <1>3, RepairThen

\* A command that only reads.
LEMMA ReadIs ==
    ASSUME job \in JobType, NEW here, NEW next, NEW failed, Read(here, next, failed)
    PROVE  /\ UNCHANGED trouble /\ UNCHANGED cacheVars /\ UNCHANGED machine
           /\ Moved(here, next) \/ Moved(here, failed)
BY RunOne DEF Read

\* The start of an operation: it knows what is registered and whose it is.
LEMMA StartIs ==
    ASSUME machine \in MachineType, byHfwd \in BOOLEAN,
           NEW op \in {"deploy", "uninstall", "welcome"}, NEW next, StartsAs(op, next)
    PROVE  /\ machine' \in MachineType /\ machine'.reg = machine.reg /\ machine'.disk = machine.disk
           /\ machine'.origin = machine.origin /\ machine'.previous = Nothing
           /\ pc = "idle" /\ pc' = next /\ job' \in JobType
           /\ job'.op = op /\ job'.was = machine.reg /\ job'.found = machine.disk["managed"]
           /\ ~job'.owned /\ ~job'.intruded
           /\ job'.mine = (byHfwd \/ (op = "deploy" /\ machine.reg = Absent))
           /\ UNCHANGED session /\ UNCHANGED byHfwd /\ UNCHANGED trouble /\ UNCHANGED cacheVars
<1>1. /\ machine' \in MachineType /\ machine'.reg = machine.reg /\ machine'.disk = machine.disk
      /\ machine'.origin = machine.origin /\ machine'.previous = Nothing
  BY ContentsAre DEF StartsAs, MachineType
<1>2. machine.disk["managed"] \in Contents /\ machine.reg \in Status \cup {Absent}
  BY DEF MachineType, Roots
<1> DEFINE mine == byHfwd \/ (op = "deploy" /\ machine.reg = Absent)
           j == [NoJob EXCEPT !.op = op, !.was = machine.reg, !.found = machine.disk["managed"],
                              !.mine = mine]
<1>3. mine \in BOOLEAN
  OBVIOUS
<1>4. /\ j \in JobType /\ j.op = op /\ j.was = machine.reg /\ j.found = machine.disk["managed"]
      /\ j.mine = mine /\ ~j.owned /\ ~j.intruded
  <2> HIDE DEF mine
  <2> QED BY <1>2, <1>3, NoJobIs DEF JobType
<1>5. job' = j
  BY DEF StartsAs
<1> HIDE DEF j
<1> QED BY <1>1, <1>4, <1>5 DEF StartsAs

-----------------------------------------------------------------------------
(* Each step of an operation keeps the invariant.                          *)

\* How an operation ends, if no repair fails.
Ends ==
    pc # "idle" /\ pc' = "idle" /\ ~trouble' =>
        /\ pc = "rollback" /\ ~Refusals =>
            machine'.reg = was /\ machine'.disk["managed"] = job.found
        /\ job.op = "deploy" /\ was # Absent /\ ~Refusals => machine'.reg # Absent
        /\ pc \in {"clear", "withdraw"} =>
            /\ machine'.reg = Absent /\ machine'.disk["managed"] = Nothing
            /\ machine'.origin = NoOrigin

Kept == machine' \in MachineType /\ Sound' /\ Ends

USE DEF was

\* Only Absent has no root.
LEMMA StatusIs ==
    ASSUME NEW status \in Status \cup {Absent}
    PROVE  /\ status # Absent => status \in Status /\ status.root \in Roots /\ status.root # "none"
           /\ status = Absent => status.root = "none"
BY DEF Status, Absent, Roots

\* What is registered is one of the installations, or nothing.
LEMMA RegIs ==
    ASSUME NEW m \in MachineType
    PROVE  /\ m.reg \in Status \cup {Absent}
           /\ m.reg # Absent => m.reg \in Status /\ m.reg.root \in Roots /\ m.reg.root # "none"
           /\ m.reg = Absent => m.reg.root = "none"
           /\ \A r \in Roots : m.disk[r] \in Contents
           /\ m.stage \in Contents /\ m.previous \in Contents
<1>1. m.reg \in Status \cup {Absent}
  BY DEF MachineType
<1>2. (\A r \in Roots : m.disk[r] \in Contents) /\ m.stage \in Contents /\ m.previous \in Contents
  BY DEF MachineType
<1> QED BY <1>1, <1>2, StatusIs

\* So was what the operation found.
LEMMA WasIs ==
    ASSUME job \in JobType
    PROVE  /\ was \in Status \cup {Absent} /\ job.mine \in BOOLEAN
           /\ was # Absent => was \in Status /\ was.root \in Roots /\ was.root # "none"
           /\ was = Absent => was.root = "none"
<1>1. was \in Status \cup {Absent} /\ job.mine \in BOOLEAN
  BY DEF JobType
<1> HIDE DEF was
<1> QED BY <1>1, StatusIs

\* After a native installation Herdr lists what is there.
LEMMA NativeIs ==
    ASSUME machine \in MachineType, NEW b \in BOOLEAN, machine' = Installed(machine, b)
    PROVE  /\ machine' \in MachineType /\ machine'.origin = machine.origin
           /\ machine'.previous = machine.previous
           /\ machine'.disk["managed"] = machine.disk["managed"]
           /\ machine'.reg.root = "native" /\ machine'.reg.version = New
           /\ machine'.disk["native"] = New
           /\ \A r \in Roots : machine'.disk[r] = machine.disk[r] \/ machine'.disk[r] # Nothing
<1>1. /\ Registration("native", New, b).root = "native"
      /\ Registration("native", New, b).version = New
  BY DEF Registration
<1>2. "managed" \in Roots \ {"native"}
  BY DEF Roots
<1>3. New # Nothing
  BY ContentsAre
<1>4. ASSUME NEW r \in Roots
      PROVE  machine'.disk[r] = machine.disk[r] \/ machine'.disk[r] # Nothing
  <2>1. CASE r = "native"
    BY <1>3, <2>1, InstalledIs
  <2>2. CASE r # "native"
    BY <2>2, InstalledIs
  <2> QED BY <2>1, <2>2
<1> QED BY <1>1, <1>2, <1>4, InstalledIs

\* A step that leaves the origin alone or forgets it, ...
LEMMA MovedKeeps ==
    ASSUME machine' \in MachineType, job \in JobType, Sound,
           NEW here, here \notin {"idle", "check"}, NEW there, there # "check", Moved(here, there),
           machine'.origin \in {machine.origin, NoOrigin},
           there \in {"confirm", "sweep", "verify", "record"} =>
               machine'.reg.root \in {"native", "managed"}
    PROVE  Alone' /\ Provenance'
<1>1. Alone'
  BY NoJobIs DEF Moved, Sound, Alone
<1>2. NoOrigin.root = "none"
  BY DEF NoOrigin
<1>3. ~byHfwd' /\ machine'.reg # Absent => machine'.origin.root # machine'.reg.root
  BY <1>2, RegIs, WasIs DEF Moved, Sound, Provenance
<1>4. pc' # "idle" /\ ~job'.mine => /\ job'.was # Absent => machine'.origin.root # job'.was.root
                                    /\ job'.was = Absent => job'.op # "deploy"
  BY <1>2, WasIs DEF Moved, Sound, Provenance
<1> QED BY <1>1, <1>2, <1>3, <1>4 DEF Moved, Sound, Provenance

\* ... or ends the operation.
LEMMA EndKeeps ==
    ASSUME machine' \in MachineType, job \in JobType, Sound,
           NEW here, here \notin {"idle", "check"}, Moved(here, "idle"),
           machine'.origin \in {machine.origin, NoOrigin},
           ~trouble' => Holds(machine', machine'.reg)
    PROVE  Sound'
<1>1. Alone' /\ Places' /\ Removing' /\ Back'
  BY DEF Moved, Alone, Places, Removing, Back
<1>2. Provenance'
  BY MovedKeeps
<1>3. ~trouble' => Going'
  BY DEF Moved, Going
<1> QED BY <1>1, <1>2, <1>3 DEF Sound

\* The steps of an update, in the order of the code; the first reads the origin file.
LEMMA CheckKeeps ==
    ASSUME machine \in MachineType, job \in JobType, byHfwd \in BOOLEAN, Sound, Check
    PROVE  Kept /\ job' \in JobType
<1> DEFINE owned == was = Absent \/ Matches(machine.origin, was)
           j == [job EXCEPT !.owned = owned]
<1>1. /\ j \in JobType /\ j.op = job.op /\ j.was = was /\ j.owned = owned
      /\ j.found = job.found /\ j.mine = job.mine /\ j.intruded = job.intruded
  <2>1. owned \in BOOLEAN
    BY DEF Matches
  <2> HIDE DEF owned
  <2> QED BY <2>1 DEF JobType
<1>2. /\ pc = "check" /\ pc' = (IF session THEN "idle" ELSE "install")
      /\ job' = (IF session THEN NoJob ELSE j)
      /\ byHfwd' = (job.mine \/ machine.reg.root \notin {"none", was.root})
      /\ UNCHANGED machine /\ UNCHANGED session /\ UNCHANGED trouble
  <2> HIDE DEF j
  <2>1. Checking(session, owned) /\ j = [job EXCEPT !.owned = owned]
    BY DEF Check, j
  <2> HIDE DEF owned
  <2> QED BY <1>1, <2>1 DEF Checking, Advance
<1>3. owned => job.mine
  BY <1>2, RegIs DEF Sound, Provenance, Places, Matches
<1> HIDE DEF owned, j
<1>4. Places' /\ Alone' /\ Removing' /\ Back'
  BY <1>1, <1>2 DEF Sound, Places, Alone, Removing, Back
<1>5. Provenance'
  <2>1. ~byHfwd' /\ machine'.reg # Absent => machine'.origin.root # machine'.reg.root
    BY <1>2, RegIs, WasIs DEF Sound, Provenance
  <2> QED BY <1>1, <1>2, <1>3, <2>1 DEF Sound, Provenance
<1>6. ~trouble' => Going'
  BY <1>1, <1>2 DEF Sound, Going, Holds
<1>7. Ends
  BY <1>2 DEF Sound, Going, Ends
<1> QED BY <1>1, <1>2, <1>4, <1>5, <1>6, <1>7, NoJobIs DEF Kept, Sound

LEMMA InstallKeeps ==
    ASSUME machine \in MachineType, job \in JobType, Sound, Install
    PROVE  Kept
<1>1. /\ UNCHANGED trouble
      /\ \/ Moved("install", "verify") /\ machine' = Installed(machine, TRUE)
         \/ /\ Moved("install", "restore")
            /\ UNCHANGED machine \/ \E b \in BOOLEAN : machine' = Installed(machine, b)
  BY MovedIs DEF Install, Goto
<1>2. /\ machine' \in MachineType /\ machine'.origin = machine.origin
      /\ machine'.previous = machine.previous /\ machine'.disk["managed"] = machine.disk["managed"]
      /\ \A r \in Roots : machine'.disk[r] = machine.disk[r] \/ machine'.disk[r] # Nothing
      /\ \/ UNCHANGED machine
         \/ /\ machine'.reg.root = "native" /\ machine'.reg.version = New
            /\ machine'.disk["native"] = New
      /\ pc' = "verify" => machine'.reg.root = "native"
  BY <1>1, NativeIs DEF Moved
<1>3. Alone' /\ Provenance'
  BY <1>1, <1>2, MovedKeeps DEF Moved
<1>4. Places' /\ Removing' /\ Back'
  BY <1>1 DEF Moved, Sound, Places, Removing, Back
<1>5. ~trouble' => Going'
  <2> SUFFICES ASSUME ~trouble' PROVE Going'
    OBVIOUS
  <2>1. /\ machine.reg = was /\ Holds(machine, was)
        /\ machine.disk["managed"] = job.found /\ machine.previous = Nothing
    BY <1>1 DEF Moved, Sound, Going
  <2>2. was # Absent => machine'.disk[was.root] # Nothing
    BY <1>2, <2>1, WasIs DEF Holds
  <2>3. Holds(machine', machine'.reg)
    BY <1>2, <2>1, ContentsAre DEF Holds
  <2> QED BY <1>1, <1>2, <2>1, <2>2, <2>3 DEF Moved, Going
<1>6. Ends
  BY <1>1 DEF Moved, Ends
<1> QED BY <1>1, <1>2, <1>3, <1>4, <1>5, <1>6 DEF Kept, Sound

LEMMA UnlinkKeeps ==
    ASSUME machine \in MachineType, job \in JobType, Sound, Unlink
    PROVE  Kept
<1>1. /\ UNCHANGED trouble
      /\ \/ Moved("unlink", "reinstall") /\ machine' = Unlinked(machine)
         \/ Moved("unlink", "relink") /\ machine' \in {machine, Unlinked(machine)}
  BY RunTwo DEF Unlink
<1>2. /\ machine' \in MachineType /\ (machine'.reg = Absent \/ machine'.reg = machine.reg)
      /\ machine'.disk = machine.disk /\ machine'.origin = machine.origin
  BY <1>1, UnlinkedIs
<1>3. Alone' /\ Provenance'
  BY <1>1, <1>2, MovedKeeps DEF Moved
<1>4. Places' /\ Removing' /\ Back'
  BY <1>1 DEF Moved, Sound, Places, Removing, Back
<1>5. ~trouble' => Going'
  BY <1>1, <1>2 DEF Moved, Sound, Going, Holds
<1>6. Ends
  BY <1>1 DEF Moved, Ends
<1> QED BY <1>1, <1>2, <1>3, <1>4, <1>5, <1>6 DEF Kept, Sound

LEMMA ReinstallKeeps ==
    ASSUME machine \in MachineType, job \in JobType, Sound, Reinstall
    PROVE  Kept
<1>1. /\ UNCHANGED trouble
      /\ \/ Moved("reinstall", "verify") /\ machine' = Installed(machine, TRUE)
         \/ /\ Moved("reinstall", "relink")
            /\ machine' \in {machine, Installed(machine, FALSE), Installed(machine, TRUE)}
  BY RunThree DEF Reinstall
<1>2. /\ machine' \in MachineType /\ machine'.origin = machine.origin
      /\ machine'.disk["managed"] = machine.disk["managed"]
      /\ \/ UNCHANGED machine
         \/ /\ machine'.reg.root = "native" /\ machine'.reg.version = New
            /\ machine'.disk["native"] = New
      /\ pc' = "verify" => machine'.reg.root = "native"
  BY <1>1, NativeIs DEF Moved
<1>3. Alone' /\ Provenance'
  BY <1>1, <1>2, MovedKeeps DEF Moved
<1>4. Places' /\ Removing' /\ Back'
  BY <1>1 DEF Moved, Sound, Places, Removing, Back
<1>5. ~trouble' => Going'
  <2> SUFFICES ASSUME ~trouble' PROVE Going'
    OBVIOUS
  <2>1. Holds(machine, machine.reg) /\ Holds(machine, was)
    BY <1>1 DEF Moved, Sound, Going
  <2>2. Holds(machine', machine'.reg)
    BY <1>2, <2>1, ContentsAre DEF Holds
  <2>3. was.root = "managed"
    BY <1>1 DEF Moved, Sound, Places
  <2>4. Holds(machine', was)
    BY <1>2, <2>1, <2>3 DEF Holds
  <2> QED BY <1>1, <2>2, <2>4 DEF Moved, Going
<1>6. Ends
  BY <1>1 DEF Moved, Ends
<1> QED BY <1>1, <1>2, <1>3, <1>4, <1>5, <1>6 DEF Kept, Sound

\* What is linked is there.
LEMMA BackIs ==
    ASSUME NEW m \in MachineType, was \in Status
    PROVE  /\ Linked(m, was) \in MachineType /\ Linked(m, was).disk = m.disk
           /\ Linked(m, was).previous = m.previous /\ Linked(m, was).origin = m.origin
           /\ Linked(m, was).reg # Absent
           /\ Linkable(m, was.root) => Holds(Linked(m, was), Linked(m, was).reg)
           /\ Holds(m, was) => Linkable(m, was.root) /\ Linked(m, was).reg = was
<1> DEFINE version == VersionOf(m.disk[was.root])
<1>1. version \in {Old, New}
  BY ContentsAre
<1> HIDE DEF version
<1>2. /\ was.root \in Roots /\ was.enabled \in BOOLEAN
      /\ was = Registration(was.root, was.version, was.enabled)
  BY RegistrationsAre
<1>3. /\ Registration(was.root, version, was.enabled) \in Status
      /\ Registration(was.root, version, was.enabled).root = was.root
      /\ Registration(was.root, version, was.enabled).version = version
  BY <1>1, <1>2, RegistrationsAre
<1>4. Registration(was.root, version, was.enabled) # Absent /\ was # Absent
  BY <1>3, RegistrationsAre
<1>5. Linked(m, was).reg = Registration(was.root, version, was.enabled)
  BY LinkedIs DEF version
<1> QED BY <1>2, <1>3, <1>4, <1>5, LinkedIs DEF Holds, Linkable, version

LEMMA RestoreKeeps ==
    ASSUME machine \in MachineType, job \in JobType, Sound, Restore
    PROVE  Kept
<1> DEFINE back == Linked(machine, was)
<1>1. pc = "restore" /\ job.op = "deploy"
  BY DEF Restore, Read, Run, Repair, Sound, Places
<1>2. CASE machine.reg = was /\ Read("restore", "access", "idle")
  <2>1. /\ UNCHANGED trouble /\ UNCHANGED machine
        /\ Moved("restore", "access") \/ Moved("restore", "idle")
    BY <1>2, ReadIs
  <2>2. Alone' /\ Provenance'
    BY <2>1, MovedKeeps
  <2>3. Places' /\ Removing' /\ Back'
    BY <2>1 DEF Moved, Sound, Places, Removing, Back
  <2>4. ~trouble' => Going'
    BY <1>2, <2>1 DEF Moved, Sound, Going
  <2>5. Ends
    BY <1>2, <2>1 DEF Moved, Ends
  <2> QED BY <2>1, <2>2, <2>3, <2>4, <2>5 DEF Kept, Sound
<1>3. CASE was # Absent /\ Repair(<<machine, back>>, back.reg = was, "restore", "access")
  <2>1. was \in Status
    BY <1>3, WasIs
  <2>2. \/ /\ Moved("restore", IF back.reg = was THEN "access" ELSE "idle")
           /\ machine' = back /\ UNCHANGED trouble
        \/ Moved("restore", "idle") /\ machine' \in {machine, back} /\ trouble'
    BY <1>3, RepairTwo
  <2>3. /\ machine' \in MachineType /\ machine'.origin = machine.origin
        /\ machine'.disk = machine.disk /\ machine'.previous = machine.previous
    BY <2>1, <2>2, BackIs
  <2>4. ~trouble' => /\ machine' = back /\ machine'.reg # Absent
                     /\ Holds(machine', machine'.reg)
    <3>1. ~trouble' => Linkable(machine, was.root)
      BY <1>1, <1>3, <2>2 DEF Sound, Going, Linkable
    <3> QED BY <2>1, <2>2, <3>1, BackIs
  <2>5. Alone' /\ Provenance'
    BY <2>2, <2>3, MovedKeeps
  <2>6. Places' /\ Removing' /\ Back'
    BY <1>1, <2>2 DEF Moved, Places, Removing, Back
  <2>7. ~trouble' => Going'
    BY <1>1, <2>2, <2>3, <2>4 DEF Moved, Sound, Going
  <2>8. Ends
    BY <1>1, <2>4 DEF Ends
  <2> QED BY <2>3, <2>5, <2>6, <2>7, <2>8, <2>2 DEF Kept, Sound
<1>4. CASE was = Absent /\ Repair(<<machine, Dropped(machine)>>, TRUE, "restore", "access")
  <2>1. \/ Moved("restore", "access") /\ machine' = Dropped(machine) /\ UNCHANGED trouble
        \/ Moved("restore", "idle") /\ machine' \in {machine, Dropped(machine)} /\ trouble'
    BY <1>4, RepairTwo
  <2>2. /\ machine' \in MachineType /\ machine'.origin = machine.origin
        /\ machine'.disk["managed"] = machine.disk["managed"]
        /\ machine'.previous = machine.previous
        /\ ~trouble' => machine'.reg = Absent
    BY <2>1, DroppedIs DEF Roots
  <2>3. Alone' /\ Provenance'
    BY <2>1, <2>2, MovedKeeps
  <2>4. Places' /\ Removing' /\ Back'
    BY <1>1, <2>1 DEF Moved, Places, Removing, Back
  <2>5. ~trouble' => Going'
    BY <1>1, <1>4, <2>1, <2>2 DEF Moved, Sound, Going, Holds
  <2>6. Ends
    BY <1>1, <1>4 DEF Ends
  <2> QED BY <2>1, <2>2, <2>3, <2>4, <2>5, <2>6 DEF Kept, Sound
<1> QED BY <1>2, <1>3, <1>4 DEF Restore

LEMMA AccessKeeps ==
    ASSUME machine \in MachineType, job \in JobType, Sound, Access
    PROVE  Kept
<1>1. /\ UNCHANGED machine /\ UNCHANGED trouble
      /\ \/ Moved("access", IF was.root = "managed" THEN "unlink" ELSE "idle")
         \/ Moved("access", "idle") \/ Moved("access", "bundle")
  BY ReadIs, MovedIs DEF Access, Goto
<1>2. Alone' /\ Provenance'
  BY <1>1, MovedKeeps
<1>3. Places' /\ Removing' /\ Back'
  BY <1>1 DEF Moved, Sound, Places, Removing, Back
<1>4. ~trouble' => Going'
  BY <1>1 DEF Moved, Sound, Going
<1>5. Ends
  BY <1>1 DEF Moved, Sound, Going, Ends
<1> QED BY <1>1, <1>2, <1>3, <1>4, <1>5 DEF Kept, Sound

LEMMA RelinkKeeps ==
    ASSUME machine \in MachineType, job \in JobType, Sound, Relink
    PROVE  Kept
<1> DEFINE gone == Dropped(machine)
           back == Linked(gone, was)
           possible == Linkable(gone, was.root)
<1>1. pc = "relink" /\ was.root = "managed" /\ was \in Status
  BY WasIs DEF Relink, Repair, Sound, Places
<1>2. /\ gone \in MachineType /\ gone.reg = Absent /\ gone.origin = machine.origin
      /\ gone.disk["managed"] = machine.disk["managed"]
  BY DroppedIs DEF Roots
<1>3. /\ back \in MachineType /\ back.origin = machine.origin /\ back.reg # Absent
      /\ possible => Holds(back, back.reg)
  <2> HIDE DEF gone
  <2> QED BY <1>1, <1>2, BackIs
<1>4. possible \in BOOLEAN
  BY DEF Linkable
<1>5. ~trouble => possible
  BY <1>1, <1>2, WasIs DEF Sound, Going, Holds, Linkable
<1>6. Repair(Then(<<machine, gone>>, possible, back), possible, "relink", "idle")
  BY DEF Relink
<1> HIDE DEF gone, back, possible
<1>7. /\ Moved("relink", "idle") /\ machine' \in {machine, gone, back}
      /\ \/ UNCHANGED trouble /\ machine' = (IF possible THEN back ELSE gone)
         \/ trouble'
  <2>1. \/ /\ Moved("relink", IF possible THEN "idle" ELSE "idle")
           /\ machine' = (IF possible THEN back ELSE gone) /\ UNCHANGED trouble
        \/ /\ Moved("relink", "idle") /\ trouble'
           /\ machine' \in {machine, gone} \/ (possible /\ machine' = back)
    BY <1>4, <1>6, TwoThen
  <2> QED BY <2>1
<1>8. ~trouble' => machine' = back /\ possible
  BY <1>5, <1>7
<1>9. Sound' /\ machine' \in MachineType
  BY <1>2, <1>3, <1>7, <1>8, EndKeeps
<1>10. Ends
  BY <1>1, <1>3, <1>8 DEF Ends
<1> QED BY <1>9, <1>10 DEF Kept

LEMMA StageKeeps ==
    ASSUME machine \in MachineType, job \in JobType, Me \in Fetchers, Releases, Sound, Stage
    PROVE  Kept
<1>1. hand[Me] \in Editions /\ hand[Me] \in Contents
  BY ContentsAre DEF Stage, End, Step, Releases
<1>2. /\ UNCHANGED trouble
      /\ \/ Moved("bundle", "activate") /\ machine' = Staged(machine, hand[Me])
         \/ Moved("bundle", "idle") /\ UNCHANGED machine
  BY MovedIs DEF Stage, Goto
<1>3. /\ machine' \in MachineType /\ machine'.reg = machine.reg /\ machine'.disk = machine.disk
      /\ machine'.previous = machine.previous /\ machine'.origin = machine.origin
      /\ pc' = "activate" => machine'.stage \in Editions
  BY <1>1, <1>2, StagedIs DEF Moved
<1>4. Alone' /\ Provenance'
  BY <1>2, <1>3, MovedKeeps
<1>5. Places' /\ Removing' /\ Back'
  BY <1>2 DEF Moved, Sound, Places, Removing, Back
<1>6. ~trouble' => Going'
  BY <1>2, <1>3 DEF Moved, Sound, Going, Holds
<1>7. Ends
  BY <1>2, <1>3 DEF Moved, Sound, Going, Ends
<1> QED BY <1>2, <1>3, <1>4, <1>5, <1>6, <1>7 DEF Kept, Sound

LEMMA NoBundleKeeps ==
    ASSUME machine \in MachineType, job \in JobType, Sound, NoBundle
    PROVE  Kept
<1>1. UNCHANGED trouble /\ UNCHANGED machine /\ Moved("bundle", "idle")
  BY MovedIs DEF NoBundle, Goto
<1>2. ~trouble' => Holds(machine', machine'.reg)
  BY <1>1 DEF Moved, Sound, Going
<1>3. Sound'
  BY <1>1, <1>2, EndKeeps
<1>4. Ends
  BY <1>1 DEF Moved, Sound, Going, Ends
<1> QED BY <1>1, <1>3, <1>4 DEF Kept

\* The states that an activation goes through.
LEMMA Activated ==
    ASSUME machine \in MachineType
    PROVE  LET away == MovedAside(machine)
               there == MovedIn(away)
               linked == Linked(there, Registration("managed", New, TRUE)) IN
           /\ \A m \in {away, there, linked} :
                /\ m \in MachineType /\ m.origin = machine.origin
                /\ m.previous = machine.disk["managed"]
                /\ \A r \in Roots \ {"managed"} : m.disk[r] = machine.disk[r]
           /\ linked.reg.root = "managed" /\ linked.disk["managed"] = machine.stage
           /\ linked.reg = Registration("managed", VersionOf(machine.stage), TRUE)
<1> DEFINE away == MovedAside(machine)
           there == MovedIn(away)
           new == Registration("managed", New, TRUE)
           linked == Linked(there, new)
<1>1. /\ away \in MachineType /\ away.origin = machine.origin
      /\ away.previous = machine.disk["managed"] /\ away.stage = machine.stage
      /\ \A r \in Roots \ {"managed"} : away.disk[r] = machine.disk[r]
  BY MovedAsideIs
<1>2. /\ there \in MachineType /\ there.origin = machine.origin
      /\ there.previous = machine.disk["managed"] /\ there.disk["managed"] = machine.stage
      /\ \A r \in Roots \ {"managed"} : there.disk[r] = machine.disk[r]
  <2> HIDE DEF away
  <2> QED BY <1>1, MovedInIs
<1>3. /\ new \in Status /\ new.root = "managed" /\ new.enabled = TRUE
  BY RegistrationsAre DEF Roots
<1>4. /\ linked \in MachineType /\ linked.disk = there.disk /\ linked.origin = there.origin
      /\ linked.previous = there.previous
      /\ linked.reg = Registration("managed", VersionOf(machine.stage), TRUE)
  <2> HIDE DEF there, new
  <2>1. /\ linked \in MachineType /\ linked.disk = there.disk /\ linked.origin = there.origin
        /\ linked.previous = there.previous
        /\ linked.reg = Registration(new.root, VersionOf(there.disk[new.root]), new.enabled)
    BY <1>2, <1>3, LinkedIs
  <2>2. there.disk[new.root] = machine.stage
    BY <1>2, <1>3
  <2> QED BY <1>3, <2>1, <2>2
<1>5. linked.reg.root = "managed"
  BY <1>4 DEF Registration
<1> HIDE DEF away, there, linked
<1>6. /\ linked.previous = machine.disk["managed"] /\ linked.origin = machine.origin
      /\ \A r \in Roots \ {"managed"} : linked.disk[r] = machine.disk[r]
      /\ linked.disk["managed"] = machine.stage
  BY <1>2, <1>4
<1> QED BY <1>1, <1>2, <1>4, <1>5, <1>6 DEF away, there, linked

LEMMA ActivateKeeps ==
    ASSUME machine \in MachineType, job \in JobType, Sound, Activate
    PROVE  Kept
<1> DEFINE away == MovedAside(machine)
           there == MovedIn(away)
           linked == Linked(there, Registration("managed", New, TRUE))
<1>1. /\ \A m \in {away, there, linked} :
           /\ m \in MachineType /\ m.origin = machine.origin
           /\ m.previous = machine.disk["managed"]
           /\ \A r \in Roots \ {"managed"} : m.disk[r] = machine.disk[r]
      /\ linked.reg.root = "managed" /\ linked.disk["managed"] = machine.stage
      /\ linked.reg = Registration("managed", VersionOf(machine.stage), TRUE)
  BY Activated
<1>2. Run((IF Refusals THEN <<machine>> ELSE <<>>) \o <<away, there, linked>>,
          "activate", "confirm", "rollback")
  BY DEF Activate
<1> HIDE DEF away, there, linked
<1>3. /\ UNCHANGED trouble
      /\ \/ Moved("activate", "confirm") /\ machine' = linked
         \/ Moved("activate", "rollback") /\ machine' \in {away, there, linked}
         \/ Moved("activate", "rollback") /\ machine' = machine /\ Refusals
  <2>1. CASE Refusals
    <3> DEFINE states == <<machine>> \o <<away, there, linked>>
    <3>1. Run(states, "activate", "confirm", "rollback")
      BY <1>2, <2>1
    <3>2. Last(states) = linked /\ SomeOf(states) = {machine, away, there, linked}
      BY Refused
    <3> HIDE DEF states
    <3> QED BY <2>1, <3>1, <3>2, RunIs
  <2>2. CASE ~Refusals
    <3> DEFINE states == <<>> \o <<away, there, linked>>
    <3>1. Run(states, "activate", "confirm", "rollback")
      BY <1>2, <2>2
    <3>2. Last(states) = linked /\ SomeOf(states) = {away, there, linked}
      BY NotRefused
    <3> HIDE DEF states
    <3> QED BY <3>1, <3>2, RunIs
  <2> QED BY <2>1, <2>2, FetchersAssumption
<1>4. /\ machine' \in MachineType /\ machine'.origin = machine.origin
      /\ pc' = "confirm" => machine' = linked
      /\ ~Refusals => /\ machine'.previous = machine.disk["managed"]
                      /\ \A r \in Roots \ {"managed"} : machine'.disk[r] = machine.disk[r]
  BY <1>1, <1>3 DEF Moved
<1>5. Alone' /\ Provenance'
  BY <1>1, <1>3, <1>4, MovedKeeps DEF Moved
<1>6. Places' /\ Removing'
  BY <1>3 DEF Moved, Sound, Places, Removing
<1>7. ~trouble' => Going'
  <2>1. ~trouble' /\ pc' = "confirm" =>
          /\ machine'.reg = Registration("managed", New, TRUE)
          /\ machine'.disk["managed"] \in Editions
    BY <1>1, <1>3, ContentsAre DEF Moved, Sound, Going
  <2>2. /\ Registration("managed", New, TRUE).root = "managed"
        /\ Registration("managed", New, TRUE).version = New
    BY DEF Registration
  <2>3. ~trouble' /\ pc' = "confirm" => Holds(machine', machine'.reg)
    BY <2>1, <2>2, ContentsAre DEF Holds
  <2> QED BY <1>3, <2>1, <2>3 DEF Moved, Going
<1>8. ~trouble' /\ ~Refusals => Back'
  <2> SUFFICES ASSUME ~trouble', ~Refusals PROVE Back'
    OBVIOUS
  <2>1. Holds(machine, was) /\ machine.disk["managed"] = job.found
    BY <1>3 DEF Moved, Sound, Going
  <2>2. was # Absent /\ was.root # "managed" => machine'.disk[was.root] = machine.disk[was.root]
    BY <1>4, WasIs
  <2>3. job'.found = job.found /\ job'.was = was
    BY <1>3 DEF Moved
  <2> QED BY <1>4, <2>1, <2>2, <2>3 DEF Back, Holds
<1>9. Ends
  BY <1>3 DEF Moved, Ends
<1> QED BY <1>3, <1>4, <1>5, <1>6, <1>7, <1>8, <1>9 DEF Kept, Sound

LEMMA ConfirmKeeps ==
    ASSUME machine \in MachineType, job \in JobType, Sound, Confirm
    PROVE  Kept
<1>1. /\ UNCHANGED trouble /\ UNCHANGED machine
      /\ Moved("confirm", "sweep") \/ Moved("confirm", "rollback")
  BY ReadIs DEF Confirm
<1>2. Alone' /\ Provenance'
  BY <1>1, MovedKeeps DEF Moved, Sound, Provenance
<1>3. Places' /\ Removing'
  BY <1>1 DEF Moved, Sound, Places, Removing
<1>4. ~trouble' => Going'
  BY <1>1 DEF Moved, Sound, Going
<1>5. ~trouble' /\ ~Refusals => Back'
  BY <1>1 DEF Moved, Sound, Back
<1>6. Ends
  BY <1>1 DEF Moved, Ends
<1> QED BY <1>1, <1>2, <1>3, <1>4, <1>5, <1>6 DEF Kept, Sound

LEMMA RollbackKeeps ==
    ASSUME machine \in MachineType, job \in JobType, Sound, Rollback
    PROVE  Kept
<1> DEFINE unlinked == Unlinked(machine)
           cleared == Cleared(unlinked)
           back == MovedBack(cleared)
           linked == Linked(back, was)
           relink == was # Absent /\ Linkable(back, was.root)
           possible == was = Absent \/ relink
<1>1. /\ unlinked \in MachineType /\ unlinked.reg = Absent /\ unlinked.disk = machine.disk
      /\ unlinked.previous = machine.previous /\ unlinked.origin = machine.origin
  BY UnlinkedIs
<1>2. /\ cleared \in MachineType /\ cleared.reg = Absent /\ cleared.disk["managed"] = Nothing
      /\ \A r \in Roots \ {"managed"} : cleared.disk[r] = machine.disk[r]
      /\ cleared.previous = machine.previous /\ cleared.origin = machine.origin
  <2> HIDE DEF unlinked
  <2> QED BY <1>1, ClearedIs
<1>3. /\ back \in MachineType /\ back.reg = Absent /\ back.disk["managed"] = machine.previous
      /\ \A r \in Roots \ {"managed"} : back.disk[r] = machine.disk[r]
      /\ back.origin = machine.origin
  <2> HIDE DEF cleared
  <2> QED BY <1>2, MovedBackIs
<1>4. was # Absent =>
        /\ linked \in MachineType /\ linked.reg # Absent /\ linked.origin = machine.origin
        /\ linked.disk = back.disk
        /\ Linkable(back, was.root) => Holds(linked, linked.reg)
        /\ Holds(back, was) => Linkable(back, was.root) /\ linked.reg = was
  <2> HIDE DEF back
  <2> QED BY <1>3, WasIs, BackIs
<1>5. relink \in BOOLEAN /\ possible \in BOOLEAN
  BY DEF Linkable
<1>6. Repair(Then(<<machine, unlinked, cleared, back>>, relink, linked), possible,
             "rollback", "idle")
  BY DEF Rollback
<1>7. relink => was # Absent /\ Linkable(back, was.root)
  OBVIOUS
<1>8. ~relink => was = Absent \/ ~Linkable(back, was.root)
  OBVIOUS
<1> HIDE DEF unlinked, cleared, back, linked, relink, possible
<1>9. /\ Moved("rollback", "idle")
      /\ \/ machine' = (IF relink THEN linked ELSE back) /\ UNCHANGED trouble
         \/ /\ trouble'
            /\ machine' \in {machine, unlinked, cleared, back} \/ (relink /\ machine' = linked)
  <2>1. \/ /\ Moved("rollback", IF possible THEN "idle" ELSE "idle")
           /\ machine' = (IF relink THEN linked ELSE back) /\ UNCHANGED trouble
        \/ /\ Moved("rollback", "idle") /\ trouble'
           /\ machine' \in {machine, unlinked, cleared, back} \/ (relink /\ machine' = linked)
    BY <1>5, <1>6, FourThen
  <2> QED BY <2>1
<1>10. machine' \in MachineType /\ machine'.origin = machine.origin
  BY <1>1, <1>2, <1>3, <1>4, <1>7, <1>9
<1>11. ~trouble' => Holds(machine', machine'.reg)
  BY <1>3, <1>4, <1>7, <1>9 DEF Holds
<1>12. Sound'
  BY <1>9, <1>10, <1>11, EndKeeps
<1>13. ~trouble' /\ ~Refusals => machine'.reg = was /\ machine'.disk["managed"] = job.found
  <2> SUFFICES ASSUME ~trouble', ~Refusals
               PROVE  machine'.reg = was /\ machine'.disk["managed"] = job.found
    OBVIOUS
  <2>1. machine.previous = job.found /\ back.disk["managed"] = job.found
    BY <1>3, <1>9 DEF Moved, Sound, Back
  <2>2. Holds(back, was)
    <3>1. was # Absent /\ was.root # "managed" => back.disk[was.root] = machine.disk[was.root]
      BY <1>3, WasIs
    <3> QED BY <1>9, <2>1, <3>1 DEF Moved, Sound, Back, Holds
  <2>3. CASE was = Absent
    BY <1>3, <1>7, <1>9, <2>1, <2>3
  <2>4. CASE was # Absent
    BY <1>4, <1>8, <1>9, <2>1, <2>2, <2>4
  <2> QED BY <2>3, <2>4
<1>14. Ends
  BY <1>9, <1>13 DEF Moved, Ends
<1> QED BY <1>10, <1>12, <1>14 DEF Kept

LEMMA SweepKeeps ==
    ASSUME machine \in MachineType, job \in JobType, Sound, Sweep
    PROVE  Kept
<1> DEFINE swept == [machine EXCEPT !.previous = Nothing]
<1>1. /\ swept \in MachineType /\ swept.reg = machine.reg /\ swept.disk = machine.disk
      /\ swept.origin = machine.origin
  BY ContentsAre DEF MachineType
<1>2. UNCHANGED trouble /\ Moved("sweep", "verify") /\ machine' \in {machine, swept}
  BY RunTwo DEF Sweep
<1> HIDE DEF swept
<1>3. /\ machine' \in MachineType /\ machine'.reg = machine.reg /\ machine'.disk = machine.disk
      /\ machine'.origin = machine.origin
  BY <1>1, <1>2
<1>4. Alone' /\ Provenance'
  BY <1>2, <1>3, MovedKeeps DEF Moved, Sound, Provenance
<1>5. Places' /\ Removing' /\ Back'
  BY <1>2 DEF Moved, Sound, Places, Removing, Back
<1>6. ~trouble' => Going'
  BY <1>2, <1>3 DEF Moved, Sound, Going, Holds
<1>7. Ends
  BY <1>2 DEF Moved, Ends
<1> QED BY <1>2, <1>3, <1>4, <1>5, <1>6, <1>7 DEF Kept, Sound

LEMMA VerifyKeeps ==
    ASSUME machine \in MachineType, job \in JobType, Sound, Verify
    PROVE  Kept
<1>1. /\ UNCHANGED trouble /\ UNCHANGED machine
      /\ (Moved("verify", "record") /\ job.owned) \/ Moved("verify", "idle")
  BY ReadIs DEF Verify
<1>2. Alone' /\ Provenance'
  BY <1>1, MovedKeeps DEF Moved, Sound, Provenance
<1>3. Places' /\ Removing' /\ Back'
  BY <1>1 DEF Moved, Sound, Places, Removing, Back
<1>4. ~trouble' => Going'
  BY <1>1 DEF Moved, Sound, Going
<1>5. Ends
  BY <1>1, RegistrationsAre DEF Moved, Sound, Provenance, Ends
<1> QED BY <1>1, <1>2, <1>3, <1>4, <1>5 DEF Kept, Sound

LEMMA RecordKeeps ==
    ASSUME machine \in MachineType, job \in JobType, Sound, Record
    PROVE  Kept
<1>1. /\ UNCHANGED trouble /\ pc = "record"
      /\ \/ Moved("record", "idle") /\ machine' \in {machine, Recorded(machine)}
         \/ Moved("record", "remove") /\ was = Absent /\ machine' \in {machine, Recorded(machine)}
  BY RunTwo DEF Record, Run
<1>2. machine.reg \in Status /\ machine.reg.root \in {"native", "managed"} /\ machine.reg # Absent
  BY <1>1, RegIs, StatusIs DEF Sound, Provenance, Absent
<1>3. /\ machine' \in MachineType /\ machine'.reg = machine.reg /\ machine'.disk = machine.disk
      /\ machine'.origin = machine.origin \/ machine'.origin.root = machine.reg.root
  <2> DEFINE now == Recorded(machine)
  <2>1. /\ now \in MachineType /\ now.reg = machine.reg /\ now.disk = machine.disk
        /\ now.origin = [root |-> machine.reg.root, version |-> machine.reg.version]
    BY <1>2, RecordedIs
  <2>2. now.origin.root = machine.reg.root
    BY <2>1
  <2>3. machine' \in {machine, now}
    BY <1>1
  <2> HIDE DEF now
  <2> QED BY <2>1, <2>2, <2>3
<1>4. job.mine /\ job.op = "deploy"
  BY <1>1 DEF Sound, Places, Provenance
<1>5. Alone'
  BY <1>1 DEF Moved, Sound, Alone
<1>6. Provenance'
  BY <1>1, <1>2, <1>3, <1>4 DEF Moved, Sound, Provenance
<1>7. Places' /\ Removing' /\ Back'
  BY <1>1, <1>4 DEF Moved, Sound, Places, Removing, Back
<1>8. ~trouble' => Going'
  BY <1>1, <1>3 DEF Moved, Sound, Going, Holds
<1>9. Ends
  BY <1>1, <1>2, <1>3 DEF Moved, Ends
<1> QED BY <1>1, <1>3, <1>5, <1>6, <1>7, <1>8, <1>9 DEF Kept, Sound

\* The steps of a removal.
LEMMA RemoveKeeps ==
    ASSUME machine \in MachineType, job \in JobType, Sound, Remove
    PROVE  Kept
<1>1. pc = "remove"
  BY DEF Remove, Repair
<1>2. CASE machine.reg.root = "managed"
  <2> DEFINE gone == Unlinked(machine)
             bare == [gone EXCEPT !.disk["managed"] = Nothing]
  <2>1. gone \in MachineType /\ gone.reg = Absent /\ gone.origin = machine.origin
    BY UnlinkedIs
  <2>2. bare \in MachineType /\ bare.reg = Absent /\ bare.origin = machine.origin
    <3> HIDE DEF gone
    <3> QED BY <2>1, ContentsAre DEF MachineType, Roots
  <2>3. Repair(<<machine, gone, bare>>, TRUE, "remove", "absent")
    BY <1>2 DEF Remove
  <2> HIDE DEF gone, bare
  <2>4. /\ Moved("remove", "absent") \/ (Moved("remove", "idle") /\ trouble')
        /\ machine' \in {machine, gone, bare}
        /\ trouble' \/ (machine' = bare /\ UNCHANGED trouble)
    BY <2>3, RepairThree
  <2>5. /\ machine' \in MachineType /\ machine'.origin = machine.origin
        /\ ~trouble' => machine'.reg = Absent
    BY <2>1, <2>2, <2>4
  <2>6. Alone' /\ Provenance'
    BY <2>4, <2>5, MovedKeeps
  <2>7. Places' /\ Removing' /\ Back'
    BY <2>4 DEF Moved, Sound, Places, Removing, Back
  <2>8. ~trouble' => Going'
    BY <2>4, <2>5 DEF Moved, Going, Holds
  <2>9. Ends
    BY <2>4 DEF Moved, Ends
  <2> QED BY <2>4, <2>5, <2>6, <2>7, <2>8, <2>9 DEF Kept, Sound
<1>3. CASE machine.reg.root # "managed"
  <2> DEFINE disabled == [machine EXCEPT !.reg.enabled = FALSE]
             gone == Uninstalled(machine)
             possible == Uninstallable(machine)
  <2>1. /\ disabled \in MachineType /\ disabled.origin = machine.origin
        /\ disabled.disk = machine.disk
        /\ disabled.reg.root = machine.reg.root /\ disabled.reg.version = machine.reg.version
        /\ disabled.reg = Absent <=> machine.reg = Absent
    BY DisabledIs
  <2>2. gone \in MachineType /\ gone.reg = Absent /\ gone.origin = machine.origin
    BY UninstalledIs
  <2>3. possible \in BOOLEAN
    BY DEF Uninstallable
  <2>4. Repair(Then(<<machine, disabled>>, possible, gone), possible, "remove", "absent")
    BY <1>3 DEF Remove
  <2> HIDE DEF disabled, gone, possible
  <2>5. \/ /\ Moved("remove", IF possible THEN "absent" ELSE "idle")
           /\ machine' = (IF possible THEN gone ELSE disabled) /\ UNCHANGED trouble
        \/ /\ Moved("remove", "idle") /\ trouble'
           /\ machine' \in {machine, disabled} \/ (possible /\ machine' = gone)
    BY <2>3, <2>4, TwoThen
  <2>6. Moved("remove", "absent") \/ Moved("remove", "idle")
    BY <2>5
  <2>7. machine' \in MachineType /\ machine'.origin = machine.origin
    BY <2>1, <2>2, <2>5
  <2>8. ~trouble' => Holds(machine', machine'.reg)
    <3>1. ~trouble' => Holds(machine, machine.reg)
      BY <1>1, <2>5 DEF Sound, Going
    <3>2. Holds(machine, machine.reg) => Holds(disabled, disabled.reg)
      BY <2>1 DEF Holds
    <3>3. Holds(gone, gone.reg)
      BY <2>2 DEF Holds
    <3> QED BY <2>5, <3>1, <3>2, <3>3
  <2>9. Alone' /\ Provenance'
    BY <2>6, <2>7, MovedKeeps
  <2>10. Places' /\ Removing' /\ Back'
    BY <2>6 DEF Moved, Sound, Places, Removing, Back
  <2>11. ~trouble' => Going'
    BY <2>6, <2>8 DEF Moved, Going
  <2>12. Ends
    BY <2>6 DEF Moved, Sound, Places, Ends
  <2> QED BY <2>5, <2>7, <2>9, <2>10, <2>11, <2>12, <2>6 DEF Kept, Sound, Moved
<1> QED BY <1>2, <1>3

LEMMA GoneKeeps ==
    ASSUME machine \in MachineType, job \in JobType, Sound, Gone
    PROVE  Kept
<1> DEFINE possible == machine.reg = Absent
<1>1. Repair(<<machine>>, possible, "absent", "forget") /\ possible \in BOOLEAN
  BY DEF Gone
<1> HIDE DEF possible
<1>2. /\ UNCHANGED machine
      /\ \/ Moved("absent", "forget") /\ possible /\ UNCHANGED trouble
         \/ Moved("absent", "idle") /\ UNCHANGED trouble
         \/ Moved("absent", "idle") /\ trouble'
  <2>1. /\ machine' = machine
        /\ \/ Moved("absent", IF possible THEN "forget" ELSE "idle") /\ UNCHANGED trouble
           \/ Moved("absent", "idle") /\ trouble'
    BY <1>1, RepairOne
  <2> QED BY <2>1
<1>3. Alone' /\ Provenance'
  BY <1>2, MovedKeeps
<1>4. Places' /\ Removing' /\ Back'
  BY <1>2 DEF Moved, Sound, Places, Removing, Back, possible
<1>5. ~trouble' => Going'
  <2>1. ~trouble' => Holds(machine, machine.reg)
    BY <1>2 DEF Moved, Sound, Going
  <2>2. machine' = machine /\ pc' \in {"forget", "idle"}
    BY <1>2 DEF Moved
  <2> QED BY <2>1, <2>2 DEF Going
<1>6. Ends
  BY <1>2 DEF Moved, Sound, Places, Ends
<1> QED BY <1>2, <1>3, <1>4, <1>5, <1>6 DEF Kept, Sound

\* The origin is forgotten at the end of either removal.
LEMMA Forgotten ==
    ASSUME machine \in MachineType, job \in JobType, NEW here, NEW there,
           Repair(<<machine, [machine EXCEPT !.origin = NoOrigin]>>, TRUE, here, there)
    PROVE  /\ machine' \in MachineType /\ machine'.reg = machine.reg
           /\ machine'.disk = machine.disk /\ machine'.origin \in {machine.origin, NoOrigin}
           /\ \/ Moved(here, there) /\ machine'.origin = NoOrigin /\ UNCHANGED trouble
              \/ Moved(here, "idle") /\ trouble'
<1> DEFINE n == [machine EXCEPT !.origin = NoOrigin]
<1>1. /\ n \in MachineType /\ n.reg = machine.reg /\ n.disk = machine.disk
      /\ n.origin = NoOrigin
  BY ForgottenIs
<1>2. Repair(<<machine, n>>, TRUE, here, there)
  OBVIOUS
<1> HIDE DEF n
<1>3. \/ Moved(here, there) /\ machine' = n /\ UNCHANGED trouble
      \/ Moved(here, "idle") /\ machine' \in {machine, n} /\ trouble'
  BY <1>2, RepairTwo
<1> QED BY <1>1, <1>3

LEMMA ForgetKeeps ==
    ASSUME machine \in MachineType, job \in JobType, Sound, Forget
    PROVE  Kept
<1>1. /\ machine' \in MachineType /\ machine'.reg = machine.reg
      /\ machine'.disk = machine.disk /\ machine'.origin \in {machine.origin, NoOrigin}
      /\ \/ Moved("forget", "clear") /\ machine'.origin = NoOrigin /\ UNCHANGED trouble
         \/ Moved("forget", "idle") /\ trouble'
  BY Forgotten DEF Forget
<1>2. Alone' /\ Provenance'
  BY <1>1, MovedKeeps
<1>3. Places' /\ Removing' /\ Back'
  BY <1>1 DEF Moved, Sound, Places, Removing, Back
<1>4. ~trouble' => Going'
  <2>0. ~trouble' => ~trouble /\ pc = "forget" /\ pc' = "clear"
    BY <1>1 DEF Moved
  <2>1. ~trouble' => Holds(machine, machine.reg) /\ pc' = "clear"
    BY <2>0 DEF Sound, Going
  <2>2. ~trouble' => Holds(machine', machine'.reg)
    BY <1>1, <2>1 DEF Holds
  <2> QED BY <2>1, <2>2 DEF Going
<1>5. Ends
  BY <1>1 DEF Moved, Ends
<1> QED BY <1>1, <1>2, <1>3, <1>4, <1>5 DEF Kept, Sound

\* So are the files.
LEMMA Emptied ==
    ASSUME machine \in MachineType, job \in JobType, NEW here, NEW there,
           Repair(<<machine, NoBundles(machine)>>, TRUE, here, there)
    PROVE  /\ machine' \in MachineType /\ machine'.reg = machine.reg
           /\ machine'.origin = machine.origin
           /\ \/ /\ Moved(here, there) /\ machine'.disk["managed"] = Nothing
                 /\ UNCHANGED trouble
              \/ Moved(here, "idle") /\ trouble'
<1> DEFINE n == NoBundles(machine)
<1>1. /\ n \in MachineType /\ n.reg = machine.reg /\ n.disk["managed"] = Nothing
      /\ n.origin = machine.origin
  BY NoBundlesIs
<1>2. Repair(<<machine, n>>, TRUE, here, there)
  OBVIOUS
<1> HIDE DEF n
<1>3. \/ Moved(here, there) /\ machine' = n /\ UNCHANGED trouble
      \/ Moved(here, "idle") /\ machine' \in {machine, n} /\ trouble'
  BY <1>2, RepairTwo
<1> QED BY <1>1, <1>3

LEMMA ClearKeeps ==
    ASSUME machine \in MachineType, job \in JobType, Sound, Clear
    PROVE  Kept
<1>1. /\ machine' \in MachineType /\ machine'.reg = machine.reg
      /\ machine'.origin = machine.origin /\ Moved("clear", "idle")
      /\ trouble' \/ machine'.disk["managed"] = Nothing
  BY Emptied DEF Clear
<1>2. machine.reg = Absent /\ machine.origin = NoOrigin
  BY <1>1 DEF Moved, Sound, Removing
<1>3. Sound'
  BY <1>1, <1>2, EndKeeps DEF Holds
<1>4. Ends
  BY <1>1, <1>2 DEF Moved, Sound, Places, Ends
<1> QED BY <1>1, <1>3, <1>4 DEF Kept

\* The steps of the popup that removes the plugin.
LEMMA LeaveKeeps ==
    ASSUME machine \in MachineType, job \in JobType, Sound, Leave
    PROVE  Kept
<1> DEFINE gone == Dropped(machine)
           possible == machine.reg.root = "managed" \/ Uninstallable(machine)
<1>1. /\ gone \in MachineType /\ gone.reg = Absent /\ gone.origin = machine.origin
  BY DroppedIs
<1>2. possible \in BOOLEAN
  BY DEF Uninstallable
<1>3. Repair(Then(<<machine>>, possible, gone), possible, "leave", "purge")
  BY DEF Leave
<1> HIDE DEF gone, possible
<1>4. \/ /\ Moved("leave", IF possible THEN "purge" ELSE "idle")
         /\ machine' = (IF possible THEN gone ELSE machine) /\ UNCHANGED trouble
      \/ Moved("leave", "idle") /\ trouble' /\ (machine' = machine \/ (possible /\ machine' = gone))
  BY <1>2, <1>3, OneThen
<1>5. \/ Moved("leave", "purge") /\ machine' = gone /\ UNCHANGED trouble
      \/ Moved("leave", "idle") /\ machine' = machine /\ UNCHANGED trouble
      \/ Moved("leave", "idle") /\ machine' \in {machine, gone} /\ trouble'
  BY <1>4
<1>6. machine' \in MachineType /\ machine'.origin = machine.origin
  BY <1>1, <1>5
<1>7. Alone' /\ Provenance'
  BY <1>5, <1>6, MovedKeeps
<1>8. Places' /\ Removing' /\ Back'
  BY <1>1, <1>5 DEF Moved, Sound, Places, Removing, Back
<1>9. ~trouble' => Going'
  BY <1>1, <1>5 DEF Moved, Sound, Going, Holds
<1>10. Ends
  BY <1>5 DEF Moved, Sound, Places, Ends
<1> QED BY <1>5, <1>6, <1>7, <1>8, <1>9, <1>10 DEF Kept, Sound, Moved

LEMMA PurgeKeeps ==
    ASSUME machine \in MachineType, job \in JobType, Sound, Purge
    PROVE  Kept
<1>1. /\ machine' \in MachineType /\ machine'.reg = machine.reg
      /\ machine'.origin = machine.origin
      /\ \/ /\ Moved("purge", "withdraw") /\ machine'.disk["managed"] = Nothing
            /\ UNCHANGED trouble
         \/ Moved("purge", "idle") /\ trouble'
  BY Emptied DEF Purge
<1>2. machine.reg = Absent
  BY <1>1 DEF Moved, Sound, Removing
<1>3. Alone' /\ Provenance'
  BY <1>1, MovedKeeps
<1>4. Places' /\ Removing' /\ Back'
  BY <1>1, <1>2 DEF Moved, Sound, Places, Removing, Back
<1>5. ~trouble' => Going'
  BY <1>1, <1>2 DEF Moved, Sound, Going, Holds
<1>6. Ends
  BY <1>1 DEF Moved, Ends
<1> QED BY <1>1, <1>3, <1>4, <1>5, <1>6 DEF Kept, Sound

LEMMA WithdrawKeeps ==
    ASSUME machine \in MachineType, job \in JobType, Sound, Withdraw
    PROVE  Kept
<1>1. /\ machine' \in MachineType /\ machine'.reg = machine.reg
      /\ machine'.disk = machine.disk /\ machine'.origin \in {machine.origin, NoOrigin}
      /\ Moved("withdraw", "idle") /\ (trouble' \/ machine'.origin = NoOrigin)
  BY Forgotten DEF Withdraw
<1>2. machine.reg = Absent /\ machine.disk["managed"] = Nothing
  BY <1>1 DEF Moved, Sound, Removing
<1>3. Sound'
  BY <1>1, <1>2, EndKeeps DEF Holds
<1>4. Ends
  BY <1>1, <1>2 DEF Moved, Sound, Places, Ends
<1> QED BY <1>1, <1>3, <1>4 DEF Kept

-----------------------------------------------------------------------------
(* The steps that start an operation, and those that belong to none.        *)

\* Between two operations nothing is under way.
LEMMA IdleKeeps ==
    ASSUME pc' = "idle", job' = NoJob,
           machine'.origin.root \in {"none", "native", "managed"},
           ~byHfwd' /\ machine'.reg # Absent => machine'.origin.root # machine'.reg.root,
           ~trouble' => Holds(machine', machine'.reg)
    PROVE  Sound'
<1>1. Alone' /\ Places' /\ Removing' /\ Back' /\ Provenance'
  BY DEF Alone, Places, Removing, Back, Provenance
<1>2. ~trouble' => Going'
  BY DEF Going
<1> QED BY <1>1, <1>2 DEF Sound

\* An operation starts from a sound machine, ...
LEMMA DeployKeeps ==
    ASSUME machine \in MachineType, byHfwd \in BOOLEAN, Sound, Deploy
    PROVE  Kept
<1>1. /\ machine' \in MachineType /\ machine'.reg = machine.reg /\ machine'.disk = machine.disk
      /\ machine'.origin = machine.origin /\ machine'.previous = Nothing
      /\ pc = "idle" /\ pc' = "check"
      /\ job'.op = "deploy" /\ job'.was = machine.reg /\ job'.found = machine.disk["managed"]
      /\ ~job'.owned /\ job'.mine = (byHfwd \/ machine.reg = Absent)
      /\ UNCHANGED byHfwd /\ UNCHANGED trouble
  BY StartIs DEF Deploy
<1>2. Places' /\ Alone' /\ Removing' /\ Back'
  BY <1>1 DEF Places, Alone, Removing, Back
<1>3. Provenance'
  BY <1>1 DEF Sound, Provenance
<1>4. ~trouble' => Going'
  BY <1>1 DEF Sound, Going, Holds
<1> QED BY <1>1, <1>2, <1>3, <1>4 DEF Kept, Sound, Ends

LEMMA UninstallKeeps ==
    ASSUME machine \in MachineType, byHfwd \in BOOLEAN, Sound, Uninstall
    PROVE  Kept
<1>1. /\ machine' \in MachineType /\ machine'.reg = machine.reg /\ machine'.disk = machine.disk
      /\ machine'.origin = machine.origin
      /\ pc = "idle" /\ pc' = (IF machine.reg = Absent THEN "forget" ELSE "remove")
      /\ job'.op = "uninstall" /\ job'.was = machine.reg
      /\ ~job'.owned /\ job'.mine = byHfwd /\ ~session'
      /\ UNCHANGED byHfwd /\ UNCHANGED trouble
  BY StartIs DEF Uninstall
<1>2. Places' /\ Alone' /\ Removing' /\ Back'
  BY <1>1 DEF Places, Alone, Removing, Back
<1>3. Provenance'
  BY <1>1 DEF Sound, Provenance
<1>4. ~trouble' => Going'
  BY <1>1 DEF Sound, Going, Holds
<1> QED BY <1>1, <1>2, <1>3, <1>4 DEF Kept, Sound, Ends

LEMMA WelcomeKeeps ==
    ASSUME machine \in MachineType, byHfwd \in BOOLEAN, Sound, UninstallPlugin
    PROVE  Kept
<1>1. /\ machine' \in MachineType /\ machine'.reg = machine.reg /\ machine'.disk = machine.disk
      /\ machine'.origin = machine.origin
      /\ pc = "idle" /\ pc' = "leave"
      /\ job'.op = "welcome" /\ job'.was = machine.reg /\ ~job'.owned /\ job'.mine = byHfwd
      /\ UNCHANGED byHfwd /\ UNCHANGED trouble
  BY StartIs DEF UninstallPlugin
<1>2. Places' /\ Alone' /\ Removing' /\ Back'
  BY <1>1 DEF Places, Alone, Removing, Back
<1>3. Provenance'
  BY <1>1 DEF Sound, Provenance
<1>4. ~trouble' => Going'
  BY <1>1 DEF Sound, Going, Holds
<1> QED BY <1>1, <1>2, <1>3, <1>4 DEF Kept, Sound, Ends

\* ... and a killed one leaves trouble, but never a wrong origin.
LEMMA KilledKeeps == ASSUME machine \in MachineType, Sound, Killed PROVE Kept
<1>1. /\ UNCHANGED <<machine, byHfwd>> /\ pc' = "idle" /\ job' = NoJob /\ trouble'
  BY DEF Killed
<1>2. Sound'
  BY <1>1, IdleKeeps DEF Sound, Provenance
<1> QED BY <1>1, <1>2 DEF Kept, Ends

\* The user installs, links, removes or disables the plugin.
LEMMA UserKeeps ==
    ASSUME machine \in MachineType, pc = "idle" => job = NoJob, Sound,
           UserInstall \/ UserLink \/ UserRemove \/ UserDisable
    PROVE  Kept
<1>1. pc = "idle" /\ pc' = "idle" /\ job' = NoJob /\ UNCHANGED trouble
  BY DEF UserInstall, UserLink, UserRemove, UserDisable, ByHand
<1>2. /\ machine.origin.root \in {"none", "native", "managed"}
      /\ ~byHfwd /\ machine.reg # Absent => machine.origin.root # machine.reg.root
      /\ ~trouble => Holds(machine, machine.reg)
  BY <1>1 DEF Sound, Provenance, Going
<1>3. CASE UserInstall
  <2>1. PICK v \in {Old, New} :
            machine' = [machine EXCEPT !.reg = Registration("native", v, TRUE),
                                       !.disk["native"] = v, !.origin = NoOrigin]
    BY <1>3 DEF UserInstall
  <2>2. v \in Contents /\ v # Nothing /\ VersionOf(v) = v
    BY ContentsAre
  <2>3. /\ Registration("native", v, TRUE) \in Status
        /\ Registration("native", v, TRUE).root = "native"
        /\ Registration("native", v, TRUE).version = v
    BY RegistrationsAre DEF Roots
  <2>4. /\ machine' \in MachineType /\ machine'.reg = Registration("native", v, TRUE)
        /\ machine'.disk["native"] = v /\ machine'.origin = NoOrigin
    BY <2>1, <2>2, <2>3 DEF MachineType, Roots
  <2>5. Holds(machine', machine'.reg)
    BY <2>2, <2>3, <2>4 DEF Holds
  <2>6. machine'.reg.root = "native"
    BY <2>3, <2>4
  <2>7. machine'.origin.root = "none"
    <3>1. NoOrigin.root = "none"
      BY DEF NoOrigin
    <3> QED BY <2>4, <3>1
  <2> QED BY <1>1, <2>4, <2>5, <2>6, <2>7, IdleKeeps DEF Kept, Ends
<1>4. CASE UserLink
  <2> DEFINE own == Registration("own", Old, TRUE)
  <2>1. own \in Status /\ own.root = "own" /\ own.version = Old
    BY RegistrationsAre DEF Roots
  <2>2. machine' = Linked(machine, own)
    BY <1>4 DEF UserLink
  <2> HIDE DEF own
  <2>3. machine.disk["own"] = Old /\ VersionOf(Old) = Old /\ Old # Nothing /\ "own" \in Roots
    BY ContentsAre DEF MachineType, Roots
  <2>4. /\ machine' \in MachineType /\ machine'.disk = machine.disk
        /\ machine'.origin = machine.origin
        /\ machine'.reg = Registration("own", Old, own.enabled)
    BY <2>1, <2>2, <2>3, LinkedIs
  <2>5. machine'.reg.root = "own" /\ machine'.reg.version = Old
    BY <2>4 DEF Registration
  <2>6. Holds(machine', machine'.reg)
    BY <2>3, <2>4, <2>5 DEF Holds
  <2> QED BY <1>1, <1>2, <2>4, <2>5, <2>6, IdleKeeps DEF Kept, Ends
<1>5. CASE UserRemove
  <2>1. machine' \in MachineType /\ machine'.reg = Absent /\ machine'.origin = machine.origin
    BY <1>5, DroppedIs DEF UserRemove
  <2> QED BY <1>1, <1>2, <2>1, IdleKeeps DEF Kept, Ends, Holds
<1>6. CASE UserDisable
  <2>1. /\ machine' \in MachineType /\ machine'.disk = machine.disk
        /\ machine'.origin = machine.origin
        /\ machine'.reg.root = machine.reg.root /\ machine'.reg.version = machine.reg.version
        /\ machine'.reg = Absent <=> machine.reg = Absent
    BY <1>6, DisabledIs DEF UserDisable
  <2>2. Holds(machine, machine.reg) => Holds(machine', machine'.reg)
    BY <2>1 DEF Holds
  <2>3. UNCHANGED byHfwd
    BY <1>6 DEF UserDisable
  <2> QED BY <1>1, <1>2, <2>1, <2>2, <2>3, IdleKeeps DEF Kept, Ends
<1> QED BY <1>3, <1>4, <1>5, <1>6

\* A session that begins is an intrusion for the operation under way.
LEMMA SessionKeeps ==
    ASSUME machine \in MachineType, job \in JobType, session \in BOOLEAN, Sound, SessionChanges
    PROVE  Kept
<1>1. /\ UNCHANGED <<machine, pc, byHfwd, trouble>>
      /\ session' = ~session
  BY DEF SessionChanges
<1>2. /\ job'.op = job.op /\ job'.was = was /\ job'.owned = job.owned
      /\ job'.found = job.found /\ job'.mine = job.mine
      /\ pc # "idle" /\ session' => job'.intruded
  <2>1. CASE pc # "idle" /\ session'
    BY <2>1 DEF SessionChanges, JobType
  <2>2. CASE ~(pc # "idle" /\ session')
    BY <2>2 DEF SessionChanges
  <2> QED BY <2>1, <2>2
<1>3. Places' /\ Alone' /\ Removing'
  BY <1>1, <1>2 DEF Sound, Places, Alone, Removing
<1>4. Provenance'
  BY <1>1, <1>2 DEF Sound, Provenance
<1>5. ~trouble' => Going'
  BY <1>1, <1>2 DEF Sound, Going
<1>6. ~trouble' /\ ~Refusals => Back'
  BY <1>1, <1>2 DEF Sound, Back
<1> QED BY <1>1, <1>3, <1>4, <1>5, <1>6 DEF Kept, Sound, Ends

\* Nothing that is fetched touches the machine.
LEMMA ReleaseKeeps ==
    ASSUME machine \in MachineType, Sound, UNCHANGED <<machine, session, pc, job, byHfwd, trouble>>
    PROVE  Kept
<1>1. Places' /\ Alone' /\ Removing' /\ Provenance'
  BY DEF Sound, Places, Alone, Removing, Provenance
<1>2. (~trouble' => Going') /\ (~trouble' /\ ~Refusals => Back')
  BY DEF Sound, Going, Back
<1> QED BY <1>1, <1>2 DEF Kept, Sound, Ends

-----------------------------------------------------------------------------
(* The values of what an operation knows.                                   *)

Positions ==
    {"idle", "check", "install", "restore", "access", "unlink", "reinstall", "relink",
     "bundle", "activate", "confirm", "rollback", "sweep", "verify", "record",
     "remove", "absent", "forget", "clear", "leave", "purge", "withdraw"}

Types ==
    /\ job \in JobType /\ session \in BOOLEAN /\ byHfwd \in BOOLEAN /\ trouble \in BOOLEAN
    /\ pc \in Positions /\ (pc = "idle" => job = NoJob)

\* Between the commands of an operation only its fetching of the release uses the cache.
Uses ==
    \/ UNCHANGED cacheVars /\ pc # "bundle" /\ pc' # "bundle"
    \/ Begin(Me) /\ pc' = "bundle"
    \/ (End(Me, "done") \/ End(Me, "failed") \/ Die(Me)) /\ pc' # "bundle"

\* The values of the variables of an operation.
LEMMA MovedTypes ==
    ASSUME Types, NEW here, NEW there \in Positions, Moved(here, there), trouble' \in BOOLEAN
    PROVE  Types'
<1>1. byHfwd' \in BOOLEAN
  BY WasIs DEF Moved, Types
<1> QED BY <1>1 DEF Moved, Types

LEMMA RunTypes ==
    ASSUME Types, NEW states, NEW here, here # "bundle", NEW next \in Positions \ {"bundle"},
           NEW failed \in Positions \ {"bundle"}, Run(states, here, next, failed)
    PROVE  Types' /\ Uses
<1>1. /\ UNCHANGED trouble /\ UNCHANGED cacheVars
      /\ Moved(here, next) \/ Moved(here, failed)
  BY RunIs DEF Types
<1>2. trouble' \in BOOLEAN
  BY <1>1 DEF Types
<1>3. Types'
  BY <1>1, <1>2, MovedTypes
<1> QED BY <1>1, <1>3 DEF Uses, Moved

LEMMA RepairTypes ==
    ASSUME Types, NEW states, NEW possible \in BOOLEAN, NEW here, here # "bundle",
           NEW next \in Positions \ {"bundle"}, Repair(states, possible, here, next)
    PROVE  Types' /\ Uses
<1>1. "idle" \in Positions /\ job \in JobType /\ trouble \in BOOLEAN
  BY DEF Positions, Types
<1>2. /\ UNCHANGED cacheVars
      /\ Moved(here, next) \/ Moved(here, "idle")
  BY <1>1, RepairIs
<1>3. trouble' \in BOOLEAN
  BY <1>1 DEF Repair, Goto
<1>4. Types'
  BY <1>1, <1>2, <1>3, MovedTypes
<1> QED BY <1>2, <1>4 DEF Uses, Moved

\* The operations that start, ...
LEMMA StartTypes ==
    ASSUME Types, machine \in MachineType, Deploy \/ Uninstall \/ UninstallPlugin
    PROVE  Types' /\ Uses
<1>1. byHfwd \in BOOLEAN
  BY DEF Types
<1>2. /\ pc' \in Positions \ {"idle", "bundle"} /\ pc = "idle" /\ job' \in JobType
      /\ UNCHANGED session /\ UNCHANGED byHfwd /\ UNCHANGED trouble /\ UNCHANGED cacheVars
  <2>1. CASE Deploy
    BY <1>1, <2>1, StartIs DEF Deploy, Positions
  <2>2. CASE Uninstall
    BY <1>1, <2>2, StartIs DEF Uninstall, Positions
  <2>3. CASE UninstallPlugin
    BY <1>1, <2>3, StartIs DEF UninstallPlugin, Positions
  <2> QED BY <2>1, <2>2, <2>3
<1> QED BY <1>2 DEF Types, Uses

\* ... the commands of a deployment, ...
LEMMA DeploymentTypes ==
    ASSUME Types, machine \in MachineType,
           \/ Restore \/ Unlink \/ Reinstall \/ Relink \/ Activate
           \/ Confirm \/ Rollback \/ Sweep \/ Verify \/ Record
    PROVE  Types' /\ Uses
<1> USE DEF Positions
<1>1. CASE Restore
  <2>1. CASE machine.reg = was /\ Read("restore", "access", "idle")
    BY <2>1, RunTypes DEF Read
  <2>2. CASE machine.reg # was /\ was # Absent /\ pc = "restore"
    <3> DEFINE back == Linked(machine, was)
               possible == back.reg = was
    <3>1. Repair(<<machine, back>>, possible, "restore", "access") /\ possible \in BOOLEAN
      BY <1>1, <2>2 DEF Restore
    <3> HIDE DEF back, possible
    <3> QED BY <3>1, RepairTypes
  <2>3. CASE machine.reg # was /\ was = Absent
    <3>1. Repair(<<machine, Dropped(machine)>>, TRUE, "restore", "access")
      BY <1>1, <2>3 DEF Restore
    <3> QED BY <3>1, RepairTypes
  <2> QED BY <1>1, <2>1, <2>2, <2>3 DEF Restore
<1>2. CASE Unlink
  BY <1>2, RunTypes DEF Unlink
<1>3. CASE Reinstall
  BY <1>3, RunTypes DEF Reinstall
<1>4. CASE Relink
  <2> DEFINE gone == Dropped(machine)
             possible == Linkable(gone, was.root)
             states == Then(<<machine, gone>>, possible, Linked(gone, was))
  <2>1. Repair(states, possible, "relink", "idle") /\ possible \in BOOLEAN
    BY <1>4 DEF Relink, Linkable
  <2> HIDE DEF gone, possible, states
  <2> QED BY <2>1, RepairTypes
<1>5. CASE Activate
  <2>1. PICK states : Run(states, "activate", "confirm", "rollback")
    BY <1>5 DEF Activate
  <2> QED BY <2>1, RunTypes
<1>6. CASE Confirm
  BY <1>6, RunTypes DEF Confirm, Read
<1>7. CASE Rollback
  <2> DEFINE unlinked == Unlinked(machine)
             cleared == Cleared(unlinked)
             back == MovedBack(cleared)
             relink == was # Absent /\ Linkable(back, was.root)
             states == Then(<<machine, unlinked, cleared, back>>, relink, Linked(back, was))
             possible == was = Absent \/ relink
  <2>1. Repair(states, possible, "rollback", "idle") /\ possible \in BOOLEAN
    BY <1>7 DEF Rollback, Linkable
  <2> HIDE DEF unlinked, cleared, back, relink, states, possible
  <2> QED BY <2>1, RepairTypes
<1>8. CASE Sweep
  BY <1>8, RunTypes DEF Sweep
<1>9. CASE Verify
  <2> DEFINE next == IF job.owned THEN "record" ELSE "idle"
  <2>1. next \in Positions \ {"bundle"} /\ Run(<<machine>>, "verify", next, "idle")
    BY <1>9 DEF Verify, Read
  <2> HIDE DEF next
  <2> QED BY <2>1, RunTypes
<1>10. CASE Record
  <2> DEFINE failed == IF was = Absent THEN "remove" ELSE "idle"
  <2>1. /\ failed \in Positions \ {"bundle"}
        /\ Run(<<machine, Recorded(machine)>>, "record", "idle", failed)
    BY <1>10 DEF Record
  <2> HIDE DEF failed
  <2> QED BY <2>1, RunTypes
<1> QED BY <1>1, <1>2, <1>3, <1>4, <1>5, <1>6, <1>7, <1>8, <1>9, <1>10

\* ... those of the two removals, ...
LEMMA RemovalTypes ==
    ASSUME Types, machine \in MachineType,
           Remove \/ Gone \/ Forget \/ Clear \/ Leave \/ Purge \/ Withdraw
    PROVE  Types' /\ Uses
<1> USE DEF Positions
<1>1. CASE Remove
  <2>1. PICK states : \E possible \in BOOLEAN : Repair(states, possible, "remove", "absent")
    BY <1>1 DEF Remove, Uninstallable
  <2> QED BY <2>1, RepairTypes
<1>2. CASE Gone
  <2> DEFINE possible == machine.reg = Absent
  <2>1. Repair(<<machine>>, possible, "absent", "forget") /\ possible \in BOOLEAN
    BY <1>2 DEF Gone
  <2> HIDE DEF possible
  <2> QED BY <2>1, RepairTypes
<1>3. CASE Forget
  BY <1>3, RepairTypes DEF Forget
<1>4. CASE Clear
  BY <1>4, RepairTypes DEF Clear
<1>5. CASE Leave
  <2> DEFINE possible == machine.reg.root = "managed" \/ Uninstallable(machine)
             states == Then(<<machine>>, possible, Dropped(machine))
  <2>1. Repair(states, possible, "leave", "purge") /\ possible \in BOOLEAN
    BY <1>5 DEF Leave, Uninstallable
  <2> HIDE DEF possible, states
  <2> QED BY <2>1, RepairTypes
<1>6. CASE Purge
  BY <1>6, RepairTypes DEF Purge
<1>7. CASE Withdraw
  BY <1>7, RepairTypes DEF Withdraw
<1> QED BY <1>1, <1>2, <1>3, <1>4, <1>5, <1>6, <1>7

\* ... and the rest.
LEMMA OtherTypes ==
    ASSUME Types, machine \in MachineType, byHfwd \in BOOLEAN, Sound,
           Check \/ Install \/ Access \/ Stage \/ NoBundle \/ Killed
    PROVE  Types' /\ Uses
<1>1. "idle" \in Positions /\ job \in JobType /\ trouble \in BOOLEAN
  BY DEF Positions, Types
<1>2. CASE Check
  <2>1. job' \in JobType
    BY <1>1, <1>2, CheckKeeps
  <2>2. /\ UNCHANGED <<session, trouble, cacheVars>> /\ pc = "check"
        /\ pc' \in {"idle", "install"} /\ (pc' = "idle" => job' = NoJob)
        /\ byHfwd' = (job.mine \/ machine'.reg.root \notin {"none", was.root})
    BY <1>2 DEF Check, Checking, Advance
  <2>3. byHfwd' \in BOOLEAN
    BY <1>1, <2>2, WasIs
  <2> QED BY <2>1, <2>2, <2>3 DEF Types, Positions, Uses
<1>3. CASE Install
  <2>1. /\ UNCHANGED trouble /\ UNCHANGED cacheVars
        /\ Moved("install", "verify") \/ Moved("install", "restore")
    BY <1>1, <1>3, MovedIs DEF Install, Goto
  <2>2. Types'
    BY <1>1, <2>1, MovedTypes DEF Positions
  <2> QED BY <2>1, <2>2 DEF Uses, Moved
<1>4. CASE Access
  <2>1. CASE UNCHANGED machine /\ Goto("access", "bundle") /\ Begin(Me)
    <3>1. Moved("access", "bundle") /\ UNCHANGED trouble
      BY <1>1, <2>1, MovedIs DEF Goto
    <3>2. Types'
      BY <1>1, <3>1, MovedTypes DEF Positions
    <3> QED BY <2>1, <3>1, <3>2 DEF Uses, Moved
  <2>2. CASE Read("access", IF was.root = "managed" THEN "unlink" ELSE "idle", "idle")
    <3> DEFINE next == IF was.root = "managed" THEN "unlink" ELSE "idle"
    <3>1. next \in Positions \ {"bundle"} /\ Run(<<machine>>, "access", next, "idle")
      BY <2>2 DEF Read, Positions
    <3> HIDE DEF next
    <3>2. "idle" \in Positions \ {"bundle"}
      BY DEF Positions
    <3> QED BY <3>1, <3>2, RunTypes
  <2> QED BY <1>4, <2>1, <2>2 DEF Access
<1>5. CASE Stage
  <2>1. /\ Moved("bundle", "activate") \/ Moved("bundle", "idle")
        /\ UNCHANGED trouble /\ End(Me, "done")
    BY <1>1, <1>5, MovedIs DEF Stage, Goto
  <2>2. Types'
    BY <1>1, <2>1, MovedTypes DEF Positions
  <2> QED BY <2>1, <2>2 DEF Uses, Moved
<1>6. CASE NoBundle
  <2>1. Moved("bundle", "idle") /\ UNCHANGED trouble /\ End(Me, "failed")
    BY <1>1, <1>6, MovedIs DEF NoBundle, Goto
  <2>2. Types'
    BY <1>1, <2>1, MovedTypes
  <2> QED BY <2>1, <2>2 DEF Uses, Moved
<1>7. CASE Killed
  <2>1. /\ pc' = "idle" /\ job' = NoJob /\ trouble' = TRUE /\ UNCHANGED <<session, byHfwd>>
        /\ (pc = "bundle" /\ Die(Me)) \/ (pc # "bundle" /\ UNCHANGED cacheVars)
    BY <1>7 DEF Killed
  <2> QED BY <1>1, <2>1, NoJobIs DEF Types, Uses
<1> QED BY <1>2, <1>3, <1>4, <1>5, <1>6, <1>7

-----------------------------------------------------------------------------
(* The release cache.                                                       *)

Holding == {"aside", "swap", "tidy"}
Steps == {"idle", "fetch", "publish", "aside", "swap", "tidy", "binary", "checksum", "done",
          "failed"}

CacheStep ==
    \/ Rot
    \/ \E f \in Fetchers :
        Fetch(f) \/ Begin(f) \/ End(f, "done") \/ End(f, "failed") \/ Die(f)

CacheInv == CacheTypeOK /\ Releases

\* The empty directory is one of the caches.
LEMMA CachedAre ==
    /\ Empty \in Cached /\ Empty.checksum = Nothing
    /\ \A e \in Editions : Whole(e) \in Cached /\ Whole(e) # Empty
    /\ \A c \in Cached :
         /\ c \in Caches
         /\ c # Empty => c.binary \in Editions \cup {Rotten} /\ c.checksum \in Editions
         /\ c # Empty => [c EXCEPT !.binary = Rotten] \in Cached
    /\ Nothing \notin Editions /\ Rotten \notin Editions /\ Rotten # Nothing
<1>1. Nothing \notin Editions /\ Rotten \notin Editions /\ Rotten # Nothing
  BY EditionsAssumption DEF Nothing, Rotten
<1>2. Empty \in Cached /\ Empty.checksum = Nothing /\ Empty.binary = Nothing
  BY DEF Cached, Empty
<1>3. ASSUME NEW e \in Editions PROVE Whole(e) \in Cached /\ Whole(e) # Empty
  <2>1. Whole(e) \in Cached /\ Whole(e).checksum = e
    BY DEF Whole, Cached
  <2> QED BY <1>1, <1>2, <2>1
<1>4. ASSUME NEW c \in Cached, c # Empty
      PROVE  /\ c.binary \in Editions \cup {Rotten} /\ c.checksum \in Editions
             /\ [c EXCEPT !.binary = Rotten] \in Cached /\ c \in Caches
  BY <1>4 DEF Cached, Caches
<1>5. Empty \in Caches
  BY DEF Empty, Caches
<1> QED BY <1>1, <1>2, <1>3, <1>4, <1>5

\* The lock is held by those between its taking and its release.
LEMMA LockKeeps ==
    ASSUME lock = {g \in Fetchers : step[g] \in Holding}, step \in [Fetchers -> Steps],
           NEW f \in Fetchers, NEW there \in Steps, step' = [step EXCEPT ![f] = there],
           lock' = IF there \in Holding THEN lock \cup {f} ELSE lock \ {f}
    PROVE  /\ lock' = {g \in Fetchers : step'[g] \in Holding}
           /\ step' \in [Fetchers -> Steps]
<1>1. step' \in [Fetchers -> Steps] /\ step'[f] = there
  OBVIOUS
<1>2. \A g \in Fetchers \ {f} : step'[g] = step[g]
  OBVIOUS
<1> QED BY <1>1, <1>2

\* A process goes on, and another's place is where it was.
LEMMA StepTypes ==
    ASSUME CacheTypeOK, CacheStep
    PROVE  /\ step' \in [Fetchers -> Steps]
           /\ lock' = {g \in Fetchers : step'[g] \in Holding}
<1>1. lock = {g \in Fetchers : step[g] \in Holding} /\ step \in [Fetchers -> Steps]
  BY DEF CacheTypeOK, Holding, Steps
<1>2. CASE Rot
  BY <1>1, <1>2 DEF Rot
<1>3. ASSUME NEW f \in Fetchers,
             Fetch(f) \/ Begin(f) \/ End(f, "done") \/ End(f, "failed") \/ Die(f)
      PROVE  \E there \in Steps :
                /\ step' = [step EXCEPT ![f] = there]
                /\ lock' = IF there \in Holding THEN lock \cup {f} ELSE lock \ {f}
  <2>1. CASE Download(f) \/ DownloadFails(f) \/ ReadBinary(f) \/ ReadChecksum(f)
    <3>1. /\ lock' = lock /\ step[f] \notin Holding
          /\ \E there \in Steps \ Holding : step' = [step EXCEPT ![f] = there]
      BY <2>1 DEF Download, DownloadFails, AfterFailure, ReadBinary, ReadChecksum, Step, Steps,
                  Holding
    <3> QED BY <1>1, <3>1
  <2>2. CASE Begin(f) \/ End(f, "done") \/ End(f, "failed")
    <3>1. /\ lock' = lock /\ step[f] \notin Holding
          /\ \E there \in Steps \ Holding : step' = [step EXCEPT ![f] = there]
      BY <2>2 DEF Begin, End, Step, Steps, Holding
    <3> QED BY <1>1, <3>1
  <2>3. CASE Publish(f)
    <3>1. lock' = lock \cup {f} /\ step' = [step EXCEPT ![f] = "aside"]
      BY <2>3 DEF Publish, Step
    <3> QED BY <3>1 DEF Steps, Holding
  <2>4. CASE SetAside(f) \/ Swap(f)
    <3>1. /\ lock' = lock /\ step[f] \in Holding
          /\ \E there \in Holding : step' = [step EXCEPT ![f] = there]
      BY <2>4 DEF SetAside, Swap, Step, Holding
    <3>2. lock' = lock \cup {f} /\ Holding \subseteq Steps
      BY <1>1, <3>1 DEF Holding, Steps
    <3> QED BY <3>1, <3>2
  <2>5. CASE Tidy(f) \/ PublishFails(f) \/ Die(f)
    <3>1. /\ lock' = lock \ {f}
          /\ \E there \in Steps \ Holding : step' = [step EXCEPT ![f] = there]
      BY <2>5 DEF Tidy, PublishFails, Die, Unlock, Step, Steps, Holding
    <3> QED BY <3>1
  <2> QED BY <1>3, <2>1, <2>2, <2>3, <2>4, <2>5 DEF Fetch
<1>4. ASSUME NEW f \in Fetchers,
             Fetch(f) \/ Begin(f) \/ End(f, "done") \/ End(f, "failed") \/ Die(f)
      PROVE  /\ step' \in [Fetchers -> Steps]
             /\ lock' = {g \in Fetchers : step'[g] \in Holding}
  <2>1. PICK there \in Steps :
            /\ step' = [step EXCEPT ![f] = there]
            /\ lock' = IF there \in Holding THEN lock \cup {f} ELSE lock \ {f}
    BY <1>3, <1>4
  <2> QED BY <1>1, <2>1, LockKeeps
<1> QED BY <1>2, <1>4 DEF CacheStep

\* What a process has in hand is part of a release when it is used.
InHand(f) ==
    /\ step[f] \in {"publish", "aside", "swap", "tidy", "done"} => hand[f] \in Editions
    /\ step[f] = "checksum" => hand[f] \in Editions \cup {Rotten}

\* What a process holds after it checked it is a release.
LEMMA HandKeeps ==
    ASSUME CacheInv, NEW f \in Fetchers,
           Fetch(f) \/ Begin(f) \/ End(f, "done") \/ End(f, "failed") \/ Die(f)
    PROVE  /\ hand' \in [Fetchers -> Editions \cup {Rotten, Nothing}]
           /\ \A g \in Fetchers : InHand(g)'
<1>1. /\ hand \in [Fetchers -> Editions \cup {Rotten, Nothing}] /\ step \in [Fetchers -> Steps]
      /\ cache \in Cached /\ \A g \in Fetchers : InHand(g)
  BY DEF CacheInv, CacheTypeOK, Releases, InHand, Steps
<1>2. CASE Download(f)
  BY <1>1, <1>2 DEF Download, Step, InHand
<1>3. CASE Publish(f) \/ SetAside(f) \/ Swap(f) \/ Tidy(f)
  <2>1. /\ hand' = hand /\ step[f] \in {"publish", "aside", "swap", "tidy"}
        /\ \E there \in Steps \ {"checksum"} : step' = [step EXCEPT ![f] = there]
    BY <1>3 DEF Publish, SetAside, Swap, Tidy, Step, Steps
  <2>2. hand[f] \in Editions
    BY <1>1, <2>1 DEF InHand
  <2> QED BY <1>1, <2>1, <2>2 DEF InHand
<1>4. CASE DownloadFails(f) \/ PublishFails(f)
  <2>1. /\ hand' = hand
        /\ \E there \in {"binary", "failed"} : step' = [step EXCEPT ![f] = there]
    BY <1>4 DEF DownloadFails, AfterFailure, PublishFails, Step
  <2> QED BY <1>1, <2>1 DEF InHand
<1>5. CASE ReadBinary(f)
  <2>1. CASE cache = Empty
    <3>1. step' = [step EXCEPT ![f] = "failed"] /\ hand' = [hand EXCEPT ![f] = Nothing]
      BY <1>5, <2>1 DEF ReadBinary, Step, Empty
    <3> QED BY <1>1, <3>1 DEF InHand
  <2>2. CASE cache # Empty
    <3>1. /\ step' = [step EXCEPT ![f] = "checksum"]
          /\ hand' = [hand EXCEPT ![f] = cache.binary]
      BY <1>5, <2>2 DEF ReadBinary, Step
    <3>2. cache.binary \in Editions \cup {Rotten}
      BY <1>1, <2>2, CachedAre
    <3> QED BY <1>1, <3>1, <3>2 DEF InHand
  <2> QED BY <2>1, <2>2
<1>6. CASE ReadChecksum(f)
  <2>1. hand' = hand /\ step[f] = "checksum"
    BY <1>6 DEF ReadChecksum, Step
  <2>2. \/ step' = [step EXCEPT ![f] = "failed"]
        \/ step' = [step EXCEPT ![f] = "done"] /\ hand[f] = cache.checksum
    BY <1>6 DEF ReadChecksum, Step, Verified
  <2>3. hand[f] \in Editions \cup {Rotten}
    BY <1>1, <2>1 DEF InHand
  <2>4. cache.checksum \in Editions \cup {Nothing}
    BY <1>1, CachedAre
  <2>5. hand[f] = cache.checksum => hand[f] \in Editions
    BY <2>3, <2>4, CachedAre
  <2> QED BY <1>1, <2>1, <2>2, <2>5 DEF InHand
<1>7. CASE Begin(f) \/ End(f, "done") \/ End(f, "failed") \/ Die(f)
  <2>1. /\ hand' = hand \/ hand' = [hand EXCEPT ![f] = Nothing]
        /\ \E there \in {"idle", "fetch"} : step' = [step EXCEPT ![f] = there]
    BY <1>7 DEF Begin, End, Die, Drop, Step
  <2> QED BY <1>1, <2>1 DEF InHand
<1> QED BY <1>2, <1>3, <1>4, <1>5, <1>6, <1>7 DEF Fetch

\* What is in the cache, or has been moved aside, is nothing or was published as a whole.
LEMMA CacheKeeps ==
    ASSUME CacheInv, NEW f \in Fetchers,
           Fetch(f) \/ Begin(f) \/ End(f, "done") \/ End(f, "failed") \/ Die(f)
    PROVE  cache' \in Cached /\ aside' \in [Fetchers -> Cached]
<1>1. cache \in Cached /\ aside \in [Fetchers -> Cached] /\ Empty \in Cached
  BY CachedAre DEF CacheInv, Releases
<1>2. CASE SetAside(f)
  BY <1>1, <1>2 DEF SetAside
<1>3. CASE Swap(f)
  <2>1. hand[f] \in Editions
    BY <1>3 DEF Swap, Step, CacheInv, Releases
  <2>2. Whole(hand[f]) \in Cached
    BY <2>1, CachedAre
  <2> QED BY <1>1, <1>3, <2>2 DEF Swap
<1>4. CASE PublishFails(f)
  BY <1>1, <1>4 DEF PublishFails, Restored, Unlock
<1>5. CASE Tidy(f) \/ Die(f)
  BY <1>1, <1>5 DEF Tidy, Die, Unlock
<1>6. CASE \/ Download(f) \/ DownloadFails(f) \/ Publish(f) \/ ReadBinary(f) \/ ReadChecksum(f)
           \/ Begin(f) \/ End(f, "done") \/ End(f, "failed")
  <2>1. UNCHANGED <<cache, aside>>
    BY <1>6 DEF Download, DownloadFails, Publish, ReadBinary, ReadChecksum, Begin, End
  <2> QED BY <1>1, <2>1
<1> QED BY <1>2, <1>3, <1>4, <1>5, <1>6 DEF Fetch

\* Every step of a process keeps the cache's part of the invariant.
LEMMA CacheInvStep == ASSUME CacheInv, CacheStep \/ UNCHANGED cacheVars PROVE CacheInv'
<1>1. CASE UNCHANGED cacheVars
  BY <1>1 DEF cacheVars, CacheInv, CacheTypeOK, Releases
<1>2. CASE CacheStep
  <2>1. /\ cache' \in Cached /\ aside' \in [Fetchers -> Cached]
        /\ hand' \in [Fetchers -> Editions \cup {Rotten, Nothing}]
        /\ \A g \in Fetchers : InHand(g)'
    <3>1. CASE Rot
      <4>1. cache \in Cached /\ cache # Empty /\ cache' = [cache EXCEPT !.binary = Rotten]
            /\ UNCHANGED <<lock, step, hand, aside>>
        BY <3>1 DEF Rot, CacheInv, Releases
      <4>2. cache' \in Cached
        BY <4>1, CachedAre
      <4> QED BY <4>1, <4>2 DEF CacheInv, Releases, CacheTypeOK, InHand
    <3> QED BY <1>2, <3>1, HandKeeps, CacheKeeps DEF CacheStep
  <2>2. Releases'
    BY <2>1 DEF Releases, InHand
  <2>3. cache' \in Caches /\ aside' \in [Fetchers -> Caches]
    BY <2>1, CachedAre
  <2>4. /\ step' \in [Fetchers -> Steps]
        /\ lock' = {g \in Fetchers : step'[g] \in Holding}
    BY <1>2, StepTypes DEF CacheInv
  <2>5. CacheTypeOK'
    BY <2>1, <2>3, <2>4 DEF CacheTypeOK, Steps, Holding
  <2> QED BY <2>2, <2>5 DEF CacheInv
<1> QED BY <1>1, <1>2

\* A publisher leaves a release where one was.
LEMMA Survives ==
    ASSUME CacheInv, CacheStep, NEW f \in Fetchers,
           step[f] = "swap", step'[f] \in {"tidy", "failed"}, aside[f] # Empty
    PROVE  cache' # Empty
<1>1. step \in [Fetchers -> Steps] /\ hand[f] \in Editions
  BY DEF CacheInv, CacheTypeOK, Releases, Steps
<1>2. ~Rot
  BY DEF Rot
<1>3. ASSUME NEW g \in Fetchers, g # f
      PROVE  ~(Fetch(g) \/ Begin(g) \/ End(g, "done") \/ End(g, "failed") \/ Die(g))
  <2>1. \A there : [step EXCEPT ![g] = there][f] = step[f]
    BY <1>1, <1>3
  <2>2. \A here, there : ~Step(g, here, there)
    BY <2>1 DEF Step
  <2>3. ~Die(g)
    BY <2>1 DEF Die
  <2>4. ~Begin(g) /\ ~End(g, "done") /\ ~End(g, "failed")
    BY <2>2 DEF Begin, End
  <2>5. ~Download(g) /\ ~DownloadFails(g) /\ ~Publish(g) /\ ~SetAside(g) /\ ~Swap(g)
    BY <2>2 DEF Download, DownloadFails, Publish, SetAside, Swap
  <2>6. ~Tidy(g) /\ ~PublishFails(g) /\ ~ReadBinary(g) /\ ~ReadChecksum(g)
    BY <2>2 DEF Tidy, PublishFails, ReadBinary, ReadChecksum
  <2> QED BY <2>3, <2>4, <2>5, <2>6 DEF Fetch
<1>4. Fetch(f) \/ Begin(f) \/ End(f, "done") \/ End(f, "failed") \/ Die(f)
  BY <1>2, <1>3 DEF CacheStep
<1>5. Swap(f) \/ PublishFails(f)
  <2>1. ~Die(f)
    BY <1>1 DEF Die
  <2>2. ~Begin(f) /\ ~End(f, "done") /\ ~End(f, "failed")
    BY DEF Begin, End, Step
  <2>3. ~Download(f) /\ ~DownloadFails(f) /\ ~Publish(f) /\ ~SetAside(f)
    BY DEF Download, DownloadFails, Publish, SetAside, Step
  <2>4. ~Tidy(f) /\ ~ReadBinary(f) /\ ~ReadChecksum(f)
    BY DEF Tidy, ReadBinary, ReadChecksum, Step
  <2> QED BY <1>4, <2>1, <2>2, <2>3, <2>4 DEF Fetch
<1>6. CASE Swap(f)
  BY <1>1, <1>6, CachedAre DEF Swap
<1>7. CASE PublishFails(f)
  BY <1>7 DEF PublishFails, Restored
<1> QED BY <1>5, <1>6, <1>7

-----------------------------------------------------------------------------
(* The invariant.                                                           *)

\* The operation is the one that fetches the release while it waits for the bundle.
Link == step[Me] # "idle" <=> pc = "bundle"

\* TypeOK in the parts that the steps keep.
LEMMA TypeParts ==
    /\ TypeOK /\ machine \in MachineType => Types /\ CacheTypeOK /\ Link
    /\ Types /\ CacheTypeOK /\ Link /\ machine \in MachineType => TypeOK
<1>1. TypeOK => Types /\ CacheTypeOK /\ Link
  BY DEF TypeOK, Types, Link, JobType, Positions
<1>2. Types /\ CacheTypeOK /\ Link /\ machine \in MachineType => TypeOK
  BY DEF TypeOK, Types, Link, JobType, Positions, MachineType
<1> QED BY <1>1, <1>2

\* An operation begins to fetch as it comes to wait, and ends as it goes on, ...
LEMMA LinkKeeps ==
    ASSUME CacheTypeOK, Link, Uses
    PROVE  Link' /\ (CacheStep \/ UNCHANGED cacheVars)
<1>1. Me \in Fetchers /\ step \in [Fetchers -> Steps]
  BY FetchersAssumption DEF CacheTypeOK, Steps
<1>2. CASE UNCHANGED cacheVars /\ pc # "bundle" /\ pc' # "bundle"
  BY <1>2 DEF Link, cacheVars
<1>3. CASE Begin(Me) /\ pc' = "bundle"
  <2>1. step'[Me] = "fetch"
    BY <1>1, <1>3 DEF Begin, Step
  <2> QED BY <1>1, <1>3, <2>1 DEF Link, CacheStep
<1>4. CASE (End(Me, "done") \/ End(Me, "failed") \/ Die(Me)) /\ pc' # "bundle"
  <2>1. step'[Me] = "idle"
    BY <1>1, <1>4 DEF End, Die, Step
  <2> QED BY <1>1, <1>4, <2>1 DEF Link, CacheStep
<1> QED BY <1>2, <1>3, <1>4 DEF Uses

\* ... and between the two nobody else moves its process to idle.
LEMMA ReleaseLinks ==
    ASSUME CacheTypeOK, Link, Release
    PROVE  Link' /\ CacheStep
<1>1. Me \in Fetchers /\ step \in [Fetchers -> Steps] /\ pc' = pc
  BY FetchersAssumption DEF CacheTypeOK, Steps, Release
<1>2. CASE Rot
  BY <1>1, <1>2 DEF Rot, Link, CacheStep
<1>3. ASSUME NEW f \in Fetchers, Fetch(f) PROVE Link' /\ CacheStep
  <2>1. step[f] # "idle" /\ \E there \in Steps \ {"idle"} : step' = [step EXCEPT ![f] = there]
    <3>1. CASE Download(f) \/ DownloadFails(f) \/ Publish(f) \/ SetAside(f)
      BY <3>1 DEF Download, DownloadFails, AfterFailure, Publish, SetAside, Step, Steps
    <3>2. CASE Swap(f) \/ Tidy(f) \/ PublishFails(f) \/ ReadBinary(f) \/ ReadChecksum(f)
      BY <3>2 DEF Swap, Tidy, PublishFails, ReadBinary, ReadChecksum, Step, Steps
    <3> QED BY <1>3, <3>1, <3>2 DEF Fetch
  <2>2. step'[Me] # "idle" <=> step[Me] # "idle"
    BY <1>1, <2>1
  <2> QED BY <1>1, <1>3, <2>2 DEF Link, CacheStep
<1>4. ASSUME NEW f \in Fetchers \ {Me}, Elsewhere(f) PROVE Link' /\ CacheStep
  <2>1. \E there \in Steps : step' = [step EXCEPT ![f] = there]
    BY <1>4 DEF Elsewhere, Begin, End, Die, Step, Steps
  <2>2. step'[Me] = step[Me]
    BY <1>1, <2>1
  <2> QED BY <1>1, <1>4, <2>2 DEF Link, Elsewhere, CacheStep
<1> QED BY <1>2, <1>3, <1>4 DEF Release

\* A command of an operation keeps the machine sound.
LEMMA CommandKeeps ==
    ASSUME machine \in MachineType, Types, Releases, Sound, Operate
    PROVE  Kept
<1>1. job \in JobType /\ byHfwd \in BOOLEAN
  BY DEF Types
<1>2. CASE Deploy \/ Check \/ Install \/ Restore \/ Access
  BY <1>1, <1>2, DeployKeeps, CheckKeeps, InstallKeeps, RestoreKeeps, AccessKeeps
<1>3. CASE Unlink \/ Reinstall \/ Relink \/ Stage \/ NoBundle
  BY <1>1, <1>3, FetchersAssumption, UnlinkKeeps, ReinstallKeeps, RelinkKeeps, StageKeeps,
     NoBundleKeeps
<1>4. CASE Activate \/ Confirm \/ Rollback \/ Sweep \/ Verify \/ Record
  BY <1>1, <1>4, ActivateKeeps, ConfirmKeeps, RollbackKeeps, SweepKeeps, VerifyKeeps, RecordKeeps
<1>5. CASE Uninstall \/ Remove \/ Gone \/ Forget \/ Clear
  BY <1>1, <1>5, UninstallKeeps, RemoveKeeps, GoneKeeps, ForgetKeeps, ClearKeeps
<1>6. CASE UninstallPlugin \/ Leave \/ Purge \/ Withdraw \/ Killed
  BY <1>1, <1>6, WelcomeKeeps, LeaveKeeps, PurgeKeeps, WithdrawKeeps, KilledKeeps
<1> QED BY <1>2, <1>3, <1>4, <1>5, <1>6 DEF Operate

\* Every step keeps the invariant, and ends an operation as it should.
LEMMA StepKeeps ==
    ASSUME IInv, Next
    PROVE  IInv' /\ Ends /\ (CacheStep \/ UNCHANGED cacheVars)
<1>1. /\ machine \in MachineType /\ Types /\ Sound /\ CacheTypeOK /\ Link /\ CacheInv
      /\ job \in JobType /\ session \in BOOLEAN
  BY TypeParts DEF IInv, CacheInv, Types
<1>2. Kept /\ Types' /\ Link' /\ (CacheStep \/ UNCHANGED cacheVars)
  <2>1. CASE Operate
    <3>1. Kept
      BY <1>1, <2>1, CommandKeeps DEF CacheInv
    <3>2. Types' /\ Uses
      BY <1>1, <2>1, StartTypes, DeploymentTypes, RemovalTypes, OtherTypes DEF Operate, Types
    <3> QED BY <1>1, <3>1, <3>2, LinkKeeps
  <2>2. CASE Release
    <3>1. UNCHANGED <<machine, session, pc, job, byHfwd, trouble>>
      BY <2>2 DEF Release
    <3>2. Kept
      BY <1>1, <3>1, ReleaseKeeps
    <3>3. Types'
      BY <1>1, <3>1 DEF Types
    <3> QED BY <1>1, <2>2, <3>2, <3>3, ReleaseLinks
  <2>3. CASE SessionChanges
    <3>1. Kept
      BY <1>1, <2>3, SessionKeeps
    <3>2. job' \in JobType
      <4>1. CASE pc # "idle" /\ session'
        BY <1>1, <2>3, <4>1 DEF SessionChanges, JobType
      <4>2. CASE ~(pc # "idle" /\ session')
        BY <1>1, <2>3, <4>2 DEF SessionChanges
      <4> QED BY <4>1, <4>2
    <3>3. UNCHANGED <<pc, byHfwd, trouble, cacheVars>> /\ session' = ~session
      BY <2>3 DEF SessionChanges
    <3>4. pc = "idle" => job' = job
      BY <2>3 DEF SessionChanges
    <3>5. Types' /\ Link'
      BY <1>1, <3>2, <3>3, <3>4 DEF Types, Link, cacheVars
    <3> QED BY <3>1, <3>3, <3>5
  <2>4. CASE UserInstall \/ UserLink \/ UserRemove \/ UserDisable
    <3>1. Kept
      BY <1>1, <2>4, UserKeeps DEF Types
    <3>2. /\ UNCHANGED <<session, pc, job, trouble, cacheVars>>
          /\ byHfwd' = byHfwd \/ byHfwd' = FALSE
      BY <2>4 DEF UserInstall, UserLink, UserRemove, UserDisable, ByHand
    <3>3. Types' /\ Link'
      BY <1>1, <3>2 DEF Types, Link, cacheVars
    <3> QED BY <3>1, <3>2, <3>3
  <2> QED BY <2>1, <2>2, <2>3, <2>4 DEF Next
<1>3. CacheInv'
  BY <1>1, <1>2, CacheInvStep
<1>4. TypeOK'
  <2>1. CacheTypeOK' /\ Link' /\ machine' \in MachineType
    BY <1>2, <1>3 DEF Kept, CacheInv
  <2>2. Types'
    BY <1>2
  <2> QED BY <2>1, <2>2 DEF TypeOK, Types, Link, JobType, Positions, MachineType
<1> QED BY <1>2, <1>3, <1>4 DEF IInv, Kept, CacheInv

\* The invariant holds of each of the initial states.
LEMMA InitInv == Init => IInv
<1> SUFFICES ASSUME Init PROVE IInv
  OBVIOUS
<1>1. PICK root \in {"none", "native", "managed"} :
        machine =
            [reg |-> IF root = "none" THEN Absent ELSE Registration(root, Old, TRUE),
             disk |-> [r \in Roots |-> IF r \in {"own", root} THEN Old ELSE Nothing],
             stage |-> Nothing, previous |-> Nothing,
             origin |-> IF root = "none" THEN NoOrigin ELSE [root |-> root, version |-> Old]]
  BY DEF Init
<1>2. /\ session = FALSE /\ pc = "idle" /\ job = NoJob /\ byHfwd = (machine.reg # Absent)
      /\ trouble = FALSE /\ CacheInit
  BY DEF Init
<1> DEFINE reg == IF root = "none" THEN Absent ELSE Registration(root, Old, TRUE)
           disk == [r \in Roots |-> IF r \in {"own", root} THEN Old ELSE Nothing]
           origin == IF root = "none" THEN NoOrigin ELSE [root |-> root, version |-> Old]
<1>3. /\ reg \in Status \cup {Absent}
      /\ reg # Absent => root # "none" /\ reg.root = root /\ reg.version = Old
  <2>1. CASE root = "none"
    BY <2>1
  <2>2. CASE root # "none"
    <3>1. reg = Registration(root, Old, TRUE) /\ root \in Roots /\ TRUE \in BOOLEAN
      BY <2>2 DEF Roots
    <3> HIDE DEF reg
    <3>2. reg \in Status /\ reg.root = root /\ reg.version = Old
      BY <3>1, RegistrationsAre
    <3> QED BY <2>2, <3>2
  <2> QED BY <2>1, <2>2
<1>4. disk \in [Roots -> Contents] /\ disk["own"] = Old /\ (root # "none" => disk[root] = Old)
  BY ContentsAre DEF Roots
<1>5. origin \in Origins \cup {NoOrigin} /\ origin.root = root
  BY DEF Origins, NoOrigin, Roots
<1>6. machine = [reg |-> reg, disk |-> disk, stage |-> Nothing, previous |-> Nothing,
                 origin |-> origin]
  BY <1>1
<1> HIDE DEF reg, disk, origin
<1>7. /\ machine \in MachineType /\ machine.reg = reg /\ machine.disk = disk
      /\ machine.origin = origin
  BY <1>3, <1>4, <1>5, <1>6, ContentsAre DEF MachineType
<1>8. Sound
  <2>1. Alone /\ Places /\ Removing /\ Back
    BY <1>2 DEF Alone, Places, Removing, Back
  <2>2. Provenance
    BY <1>2, <1>5, <1>7 DEF Provenance
  <2>3. Holds(machine, machine.reg)
    BY <1>3, <1>4, <1>7, ContentsAre DEF Holds
  <2>4. Going
    BY <1>2, <2>3 DEF Going
  <2> QED BY <2>1, <2>2, <2>4 DEF Sound
<1>9. CacheInv
  <2>1. Releases
    BY <1>2, CachedAre DEF CacheInit, Releases
  <2>2. CacheTypeOK
    BY <1>2, CachedAre DEF CacheInit, CacheTypeOK
  <2> QED BY <2>1, <2>2 DEF CacheInv
<1>10. Types /\ Link
  BY <1>2, NoJobIs, FetchersAssumption DEF Types, Positions, Link, CacheInit
<1> QED BY <1>7, <1>8, <1>9, <1>10, TypeParts DEF IInv, CacheInv

-----------------------------------------------------------------------------
(* The theorems.                                                            *)

\* IInv holds of every behaviour, whatever fails, is killed or is done by hand meanwhile.
THEOREM Invariance == Spec => []IInv
<1>1. ASSUME IInv, [Next]_vars PROVE IInv'
  <2>1. CASE Next
    BY <1>1, <2>1, StepKeeps
  <2>2. CASE UNCHANGED vars
    <3>1. TypeOK' /\ Releases' /\ machine' \in MachineType
      BY <1>1, <2>2 DEF vars, cacheVars, IInv, TypeOK, CacheTypeOK, Releases
    <3>2. Places' /\ Alone' /\ Provenance' /\ Removing'
      BY <1>1, <2>2 DEF vars, IInv, Sound, Places, Alone, Provenance, Removing
    <3>3. (~trouble' => Going') /\ (~trouble' /\ ~Refusals => Back')
      BY <1>1, <2>2 DEF vars, IInv, Sound, Going, Back
    <3> QED BY <3>1, <3>2, <3>3 DEF IInv, Sound
  <2> QED BY <1>1, <2>1, <2>2
<1> QED BY <1>1, InitInv, PTL DEF Spec

\* Unless a repair fails or an operation is killed, what Herdr lists between two operations is
\* in its directory, and in the version it lists: of every edition and number of processes.
THEOREM Machine == Spec => []MachineIsSound
<1>1. IInv => MachineIsSound
  <2> SUFFICES ASSUME IInv, pc = "idle", ~trouble PROVE Holds(machine, machine.reg)
    BY DEF MachineIsSound, IInv, RegisteredIsThere, Holds, Linkable
  <2> QED BY DEF IInv, Sound, Going
<1> QED BY <1>1, Invariance, PTL

\* A recorded origin that fits what is registered is never that of an installation hfwd has
\* not made, whatever else fails, and whoever installs, links or removes the plugin by hand.
THEOREM Origin == Spec => []ProvenanceTruthful
<1>1. IInv => ProvenanceTruthful
  <2> SUFFICES ASSUME IInv, Matches(machine.origin, machine.reg), ~byHfwd PROVE FALSE
    BY DEF ProvenanceTruthful
  <2>1. machine.reg # Absent /\ machine.origin.root = machine.reg.root
    BY DEF Matches
  <2> QED BY <2>1 DEF IInv, Sound, Provenance
<1> QED BY <1>1, Invariance, PTL

\* With any number of processes that share the cache, and any editions of a release, only a
\* binary of the release is used, and a publisher leaves a release where one was.
THEOREM Cache == Spec => CacheIsSound
<1>1. IInv => OnlyVerified
  BY DEF IInv, Releases, OnlyVerified
<1>2. ASSUME IInv, [Next]_vars
      PROVE  [\A f \in Fetchers :
                step[f] = "swap" /\ step'[f] \in {"tidy", "failed"} /\ aside[f] # Empty
                    => cache' # Empty]_cacheVars
  <2>1. CASE UNCHANGED cacheVars
    BY <2>1
  <2>2. CASE ~UNCHANGED cacheVars
    <3>1. Next
      BY <1>2, <2>2 DEF vars
    <3>2. CacheStep /\ CacheInv
      BY <1>2, <2>2, <3>1, StepKeeps DEF IInv, CacheInv, TypeOK
    <3> QED BY <3>2, Survives
  <2> QED BY <2>1, <2>2
<1> QED BY <1>1, <1>2, Invariance, PTL DEF Spec, CacheIsSound, CacheSurvives

\* An update or a removal changes nothing under a session it could have seen.
THEOREM Sessions == Spec => SessionKeepsPlugin
<1>1. ASSUME IInv, [Next]_vars
      PROVE  [session /\ pc # "idle" /\ job.op # "welcome" /\ ~job.intruded =>
                machine'.reg = machine.reg /\ machine'.disk = machine.disk]_vars
  <2> SUFFICES ASSUME Next, session, pc # "idle", job.op # "welcome", ~job.intruded
               PROVE  UNCHANGED machine
    BY <1>1
  <2>1. pc = "check"
    BY <1>1 DEF IInv, Sound, Alone
  <2>2. CASE Operate
    <3>1. CASE Check \/ Killed
      BY <3>1 DEF Check, Checking, Killed
    <3>2. ~Deploy /\ ~Uninstall /\ ~UninstallPlugin
      BY <2>1 DEF Deploy, Uninstall, UninstallPlugin, StartsAs
    <3>3. ~Install /\ ~Access /\ ~Stage /\ ~NoBundle
      BY <2>1 DEF Install, Access, Stage, NoBundle, Goto, Fault, Advance, Read, Run
    <3>4. ~Restore /\ ~Unlink /\ ~Reinstall /\ ~Relink
      BY <2>1 DEF Restore, Unlink, Reinstall, Relink, Read, Run, Repair
    <3>5. ~Activate /\ ~Confirm /\ ~Rollback /\ ~Sweep /\ ~Verify /\ ~Record
      BY <2>1 DEF Activate, Confirm, Rollback, Sweep, Verify, Record, Read, Run, Repair
    <3>6. ~Remove /\ ~Gone /\ ~Forget /\ ~Clear /\ ~Leave /\ ~Purge /\ ~Withdraw
      BY <2>1 DEF Remove, Gone, Forget, Clear, Leave, Purge, Withdraw, Repair
    <3> QED BY <2>2, <3>1, <3>2, <3>3, <3>4, <3>5, <3>6 DEF Operate
  <2>3. ~UserInstall /\ ~UserLink /\ ~UserRemove /\ ~UserDisable
    BY <2>1 DEF UserInstall, UserLink, UserRemove, UserDisable, ByHand
  <2> QED BY <2>2, <2>3 DEF Next, Release, SessionChanges
<1> QED BY <1>1, Invariance, PTL DEF Spec, SessionKeepsPlugin

\* A removal that nothing interrupts leaves neither a registration, nor a bundle, nor an origin.
THEOREM Removals == Spec => RemovalIsWhole
<1>1. ASSUME IInv, Next PROVE Ends
  BY <1>1, StepKeeps
<1>2. IInv /\ [Next]_vars =>
        [(pc = "clear" \/ pc = "withdraw") /\ pc' = "idle" /\ ~trouble' =>
            /\ machine'.reg = Absent /\ machine'.disk["managed"] = Nothing
            /\ machine'.origin = NoOrigin]_vars
  BY <1>1 DEF Ends
<1> QED BY <1>2, Invariance, PTL DEF Spec, RemovalIsWhole

\* If an activation does not fail before its first rename (the run deployment_rollback shows
\* what is lost if it does), an operation ends whole: rolled back to the registration and the
\* bundle it found, with a plugin if there was one, or with nothing left by a removal.
THEOREM Endings == ASSUME ~Refusals PROVE Spec => EndsWhole
<1>1. ASSUME IInv, Next PROVE Ends
  BY <1>1, StepKeeps
<1>2. IInv /\ [Next]_vars =>
        [pc = "rollback" /\ pc' = "idle" /\ ~trouble' =>
            machine'.reg = was /\ machine'.disk["managed"] = job.found]_vars
  BY <1>1 DEF Ends
<1>3. IInv /\ [Next]_vars =>
        [pc # "idle" /\ pc' = "idle" /\ job.op = "deploy" /\ was # Absent /\ ~trouble' =>
            machine'.reg # Absent]_vars
  BY <1>1 DEF Ends
<1>4. Spec => RollbackRestores
  BY <1>2, Invariance, PTL DEF Spec, RollbackRestores
<1>5. Spec => UpdateKeepsPlugin
  BY <1>3, Invariance, PTL DEF Spec, UpdateKeepsPlugin
<1> QED BY <1>4, <1>5, Removals DEF EndsWhole
=============================================================================
