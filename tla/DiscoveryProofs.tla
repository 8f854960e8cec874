-------------------------- MODULE DiscoveryProofs ---------------------------
(***************************************************************************)
(* Proofs about Discovery, for any panes, ports and loopback addresses, and  *)
(* any number of failures.                                                 *)
(*                                                                         *)
(* The argument: an identifier names one forward, also after that forward    *)
(* was deleted (Same), because there is always one that neither a forward    *)
(* nor the scan knows (NewIdIsNew).  A scan during which nobody else did      *)
(* anything has seen the host as it is (Seen), so it plans no deletion of a  *)
(* live forward (Spared).  If there is one loopback address, what is left of *)
(* its plan makes the forwards exact (Planned); with two it does not.        *)
(***************************************************************************)
EXTENDS Discovery, TLAPS, FiniteSetTheorems

IdsOf(S) == {f.id : f \in S}

\* Distinct forwards have distinct endpoints and distinct identifiers.
Distinct(S) == \A f, g \in S : f.at = g.at \/ f.id = g.id => f = g

\* The forward of a server in the foreground.
Live(f) == listener[f.at] = f.process /\ f.process \in front /\ f.pane = PaneOf(f.process)

(* The values of the variables.                                             *)
Types ==
    /\ front \subseteq Processes /\ listener \in [Endpoints -> Processes \cup {NoProcess}]
    /\ forwards \subseteq Forward /\ Distinct(forwards)
    /\ pc \in {"idle", "panes", "requests", "show", "end"}
    /\ previous \subseteq Forward /\ Distinct(previous)
    /\ unread \subseteq Panes
    /\ active \subseteq Processes /\ detected \subseteq Listener
    /\ deletions \subseteq Ids /\ requests \subseteq Listener
    /\ created \in BOOLEAN /\ errors \in BOOLEAN
    /\ failures \in 0..MaxFailures /\ quiet \in BOOLEAN /\ fresh \in BOOLEAN

(* What a scan keeps in which phase; there is an identifier for a new forward. *)
Phases ==
    /\ pc # "panes" => previous = {} /\ active = {} /\ detected = {} /\ unread = {}
    /\ pc # "requests" => deletions = {} /\ requests = {}
    /\ IsFiniteSet(deletions) /\ Cardinality(deletions) <= Cardinality(Endpoints)

(* An identifier names one forward, also after it was deleted.               *)
Same ==
    /\ \A f \in forwards, g \in previous : f.id = g.id => f = g
    /\ \A f \in forwards : ~f.automatic => f.id \notin deletions

(* A quiet scan sees the host as it is.                                      *)
Seen ==
    quiet /\ pc = "panes" =>
        /\ forwards = previous
        /\ \A l \in detected :
             listener[l.at] = l.process /\ l.process \in front /\ l.pane = PaneOf(l.process)
        /\ \A p \in front : PaneOf(p) \notin unread =>
             /\ p \in active
             /\ \A e \in Endpoints : listener[e] = p =>
                  \E l \in detected : l.pane = PaneOf(p) /\ PortOf(l) = e[1]

Spared == quiet => \A f \in forwards : Live(f) => f.id \notin deletions

IInv == Types /\ Phases /\ Same /\ Seen /\ Spared

(* What is left to do makes the forwards exact, if there is one loopback address. *)
Planned ==
    quiet /\ ~errors /\ pc \in {"requests", "show", "end"} =>
        /\ \A l \in requests :
             listener[l.at] = l.process /\ l.process \in front /\ l.pane = PaneOf(l.process)
        /\ \A e \in Endpoints : listener[e] \in front =>
             \/ \E f \in forwards : f.at = e /\ f.id \notin deletions
             \/ \E l \in requests : l.at = e
        /\ \A f \in forwards : f.automatic =>
             \/ f.id \in deletions
             \/ Live(f)
             \/ \E l \in requests : l.at = f.at /\ l.pane = f.pane

-----------------------------------------------------------------------------
(* There is always an identifier for a new forward.                        *)

\* Distinct forwards are no more than their endpoints.
LEMMA FewIds ==
    ASSUME NEW S \in SUBSET Forward, Distinct(S), NEW T, IsFiniteSet(T), \A f \in S : f.at \in T
    PROVE  IsFiniteSet(IdsOf(S)) /\ Cardinality(IdsOf(S)) <= Cardinality(T)
<1> DEFINE forwardOf == [i \in IdsOf(S) |-> (CHOOSE f \in S : f.id = i).at]
<1>1. \A i \in IdsOf(S) : \E f \in S : f.id = i /\ forwardOf[i] = f.at
  BY DEF IdsOf
<1>2. forwardOf \in Injection(IdsOf(S), T)
  <2> HIDE DEF forwardOf
  <2>1. forwardOf \in [IdsOf(S) -> T]
    BY <1>1 DEF forwardOf
  <2>2. ASSUME NEW i \in IdsOf(S), NEW j \in IdsOf(S), forwardOf[i] = forwardOf[j] PROVE i = j
    BY <1>1, <2>2 DEF Distinct
  <2> QED BY <2>1, <2>2 DEF Injection, IsInjective, IdsOf
<1> QED BY <1>2, FS_Injection

\* Identifiers are for twice as many forwards.
LEMMA Room ==
    /\ IsFiniteSet(Endpoints) /\ Cardinality(Endpoints) \in Nat
    /\ IsFiniteSet(Ids) /\ Cardinality(Ids) = 2 * Cardinality(Endpoints)
<1>1. IsFiniteSet(Endpoints) /\ Cardinality(Endpoints) \in Nat
  BY DiscoveryAssumption, FS_Product, FS_CardinalityType DEF Endpoints
<1>2. 1 \in Int /\ 2 * Cardinality(Endpoints) \in Int
  BY <1>1
<1>3. /\ IsFiniteSet(Ids)
      /\ Cardinality(Ids) = IF 1 > 2 * Cardinality(Endpoints) THEN 0
                           ELSE 2 * Cardinality(Endpoints) - 1 + 1
  BY <1>2, FS_Interval DEF Ids
<1> QED BY <1>1, <1>3

\* The identifier that Post takes is none that a forward has, or had when the scan looked.
LEMMA NewIdIsNew ==
    ASSUME Types, Phases, NEW e \in Endpoints, At(e) = {}
    PROVE  NewId \in Ids /\ NewId \notin KnownIds
<1> DEFINE A == IdsOf(forwards)
           B == IdsOf(previous) \cup deletions
           N == Cardinality(Endpoints)
<1>1. IsFiniteSet(A) /\ Cardinality(A) <= Cardinality(Endpoints \ {e})
  <2>1. IsFiniteSet(Endpoints \ {e})
    BY Room, FS_RemoveElement
  <2>2. \A f \in forwards : f.at \in Endpoints \ {e}
    BY DEF Types, Forward, At
  <2> QED BY <2>1, <2>2, FewIds DEF Types
<1>2. Cardinality(Endpoints \ {e}) = N - 1
  BY Room, FS_RemoveElement
<1>3. IsFiniteSet(B) /\ Cardinality(B) <= N
  <2>1. CASE pc = "panes"
    <3>1. B = IdsOf(previous)
      BY <2>1 DEF Phases
    <3>2. \A f \in previous : f.at \in Endpoints
      BY DEF Types, Forward
    <3> QED BY <3>1, <3>2, Room, FewIds DEF Types
  <2>2. CASE pc # "panes"
    <3>1. B = deletions
      BY <2>2 DEF Phases, IdsOf
    <3> QED BY <3>1 DEF Phases
  <2> QED BY <2>1, <2>2
<1>4. KnownIds = A \cup B
  BY DEF KnownIds, IdsOf
<1>5. IsFiniteSet(KnownIds) /\ Cardinality(KnownIds) < 2 * N
  <2> HIDE DEF A, B, N
  <2>1. /\ Cardinality(A) \in Nat /\ Cardinality(B) \in Nat /\ N \in Nat
        /\ Cardinality(A \cap B) \in Nat
    BY <1>1, <1>3, Room, FS_CardinalityType, FS_Intersection DEF N
  <2>2. /\ IsFiniteSet(A \cup B)
        /\ Cardinality(A \cup B) = Cardinality(A) + Cardinality(B) - Cardinality(A \cap B)
    BY <1>1, <1>3, FS_Union
  <2> QED BY <1>1, <1>2, <1>3, <1>4, <2>1, <2>2
<1>6. \E i \in Ids : i \notin KnownIds
  <2> SUFFICES ASSUME Ids \subseteq KnownIds PROVE FALSE
    OBVIOUS
  <2>1. Cardinality(Ids) <= Cardinality(KnownIds) /\ Cardinality(KnownIds) \in Nat
    BY <1>5, FS_Subset, FS_CardinalityType
  <2> QED BY <1>5, <2>1, Room
<1> QED BY <1>6 DEF NewId

-----------------------------------------------------------------------------
(* What the companion does.                                                *)

\* A forward that learns a process.
Renewed(f, process) == [f EXCEPT !.process = IF process = NoProcess THEN @ ELSE process]
Made(e, i, pane, process, automatic) ==
    [at |-> e, id |-> i, pane |-> pane, process |-> process, automatic |-> automatic]

\* What changes in a forward that learns a process.
LEMMA RenewedIs ==
    ASSUME NEW f \in Forward, NEW process \in Processes \cup {NoProcess}
    PROVE  /\ Renewed(f, process) \in Forward
           /\ Renewed(f, process).at = f.at /\ Renewed(f, process).id = f.id
           /\ Renewed(f, process).pane = f.pane /\ Renewed(f, process).automatic = f.automatic
           /\ process # NoProcess => Renewed(f, process).process = process
           /\ process = NoProcess => Renewed(f, process) = f
BY DEF Forward, Renewed

\* What a new forward is.
LEMMA MadeIs ==
    ASSUME NEW e \in Endpoints, NEW i \in Ids, NEW pane \in Panes \cup {NoPane},
           NEW process \in Processes \cup {NoProcess}, NEW automatic \in BOOLEAN
    PROVE  /\ Made(e, i, pane, process, automatic) \in Forward
           /\ Made(e, i, pane, process, automatic).at = e
           /\ Made(e, i, pane, process, automatic).id = i
           /\ Made(e, i, pane, process, automatic).pane = pane
           /\ Made(e, i, pane, process, automatic).process = process
           /\ Made(e, i, pane, process, automatic).automatic = automatic
BY DEF Forward, Made

\* A request is answered with the forward that is there, or makes one.
LEMMA Posting ==
    ASSUME Types, Phases, NEW e \in Endpoints, NEW pane \in Panes \cup {NoPane},
           NEW process \in Processes \cup {NoProcess}, NEW automatic \in BOOLEAN,
           Post(e, pane, process, automatic)
    PROVE  \/ \E f \in forwards :
                /\ f.at = e
                /\ forwards' = (forwards \ {f}) \cup {Renewed(f, process)}
           \/ /\ At(e) = {}
              /\ \E i \in Ids \ KnownIds :
                   forwards' = forwards \cup {Made(e, i, pane, process, automatic)}
<1>1. CASE At(e) = {}
  BY <1>1, NewIdIsNew DEF Post, Made
<1>2. CASE At(e) # {}
  <2>1. PICK f \in forwards : f.at = e
    BY <1>2 DEF At
  <2>2. At(e) = {f}
    BY <2>1 DEF At, Types, Distinct
  <2>3. forwards' = (forwards \ {f}) \cup {Renewed(f, process)}
    BY <1>2, <2>2 DEF Post, Renewed
  <2> QED BY <2>1, <2>3
<1> QED BY <1>1, <1>2

-----------------------------------------------------------------------------
(* Which steps change what.                                                *)

USE DEF world, found, plan, outcome, notes
USE DEF Disturb, Appear, Suspend, Exit, Listen, Unlisten, Add, Remove
USE DEF Begin, ReadPane, ReadFails, Decide, Deleting, Delete, DeleteUnknown, DeleteFails, Creating,
    Create, CreateFails, Fails, Leaving, Requested, Show, ShowFails, End, Killed

\* The steps of a scan and of the user do not change the host, and the others end the quiet.
LEMMA WorldSteps == ASSUME [Next]_vars, quiet' PROVE UNCHANGED world
<1>1. CASE Host
  BY <1>1 DEF Host
<1>2. CASE User
  BY <1>2 DEF User
<1>3. CASE Scan \/ Killed \/ UNCHANGED vars
  BY <1>3 DEF Scan, vars
<1> QED BY <1>1, <1>2, <1>3 DEF Next

\* A quiet scan began quiet.
LEMMA QuietSteps == ASSUME [Next]_vars, quiet' PROVE quiet \/ Begin
<1> HIDE DEF Begin
<1>1. CASE Host
  BY <1>1 DEF Host
<1>2. CASE User
  BY <1>2 DEF User
<1>3. CASE Scan \/ Killed \/ UNCHANGED vars
  BY <1>3 DEF Scan, vars
<1> QED BY <1>1, <1>2, <1>3 DEF Next

\* The forwards change when the user adds or removes one, and when the scan does.
LEMMA ForwardSteps ==
    ASSUME [Next]_vars, forwards' # forwards
    PROVE  \/ \E e \in Endpoints : Add(e)
           \/ \E f \in forwards : Remove(f)
           \/ \E i \in Ids : Delete(i)
           \/ \E l \in requests : Create(l)
<1> HIDE DEF Add, Remove, Delete, Create
<1>1. CASE Host
  BY <1>1 DEF Host
<1>2. CASE User
  BY <1>2 DEF User
<1>3. CASE Scan \/ Killed \/ UNCHANGED vars
  BY <1>3 DEF Scan, vars
<1> QED BY <1>1, <1>2, <1>3 DEF Next

-----------------------------------------------------------------------------
(* The values of the variables.                                            *)

\* The watcher starts idle, without forwards.
LEMMA InitIInv == Init => IInv
<1> SUFFICES ASSUME Init PROVE IInv
  OBVIOUS
<1> USE DiscoveryAssumption DEF Init
<1>1. Types
  <2>1. 0 \in 0..MaxFailures /\ listener \in [Endpoints -> Processes \cup {NoProcess}]
    OBVIOUS
  <2> QED BY <2>1 DEF Types, Distinct
<1>2. Phases
  BY FS_EmptySet, Room DEF Phases
<1>3. Same /\ Seen /\ Spared
  BY DEF Same, Seen, Spared
<1> QED BY <1>1, <1>2, <1>3 DEF IInv

\* What is read of a pane is listeners, and one of each port.
LEMMA ListingIs ==
    ASSUME NEW processes, NEW some \in Listing(processes)
    PROVE  /\ \A l \in some : /\ l \in Listener /\ l.process \in processes
                              /\ l.process = listener[l.at] /\ l.pane = PaneOf(l.process)
           /\ \A l \in Listener :
                (/\ l.process \in processes /\ l.process = listener[l.at]
                 /\ l.pane = PaneOf(l.process)) =>
                  \E m \in some : PortOf(m) = PortOf(l)
<1> DEFINE all == {l \in Listener : l.process \in processes /\ l.process = listener[l.at]
                                      /\ l.pane = PaneOf(l.process)}
<1>1. some \subseteq all /\ {PortOf(l) : l \in some} = {PortOf(l) : l \in all}
  BY DEF Listing
<1>2. ASSUME NEW l \in all PROVE \E m \in some : PortOf(m) = PortOf(l)
  <2>1. PortOf(l) \in {PortOf(m) : m \in some}
    BY <1>1
  <2> QED BY <2>1
<1> QED BY <1>1, <1>2

\* Every step keeps the types of what runs on the host, ...
LEMMA HostTyped ==
    ASSUME Types, [Next]_vars
    PROVE  front' \subseteq Processes /\ listener' \in [Endpoints -> Processes \cup {NoProcess}]
<1>1. CASE Host
  BY <1>1 DEF Host, Types
<1>2. CASE User
  BY <1>2 DEF User, Types
<1>3. CASE Scan \/ Killed \/ UNCHANGED vars
  BY <1>3 DEF Scan, vars, Types
<1> QED BY <1>1, <1>2, <1>3 DEF Next

\* ... of what a scan remembers, ...
LEMMA ScanTyped ==
    ASSUME Types, [Next]_vars
    PROVE  /\ pc' \in {"idle", "panes", "requests", "show", "end"}
           /\ previous' \subseteq Forward /\ Distinct(previous') /\ unread' \subseteq Panes
           /\ created' \in BOOLEAN /\ errors' \in BOOLEAN
           /\ quiet' \in BOOLEAN /\ fresh' \in BOOLEAN
<1>1. pc' \in {"idle", "panes", "requests", "show", "end"} /\ unread' \subseteq Panes
  <2>1. pc \in {"idle", "panes", "requests", "show", "end"} /\ unread \subseteq Panes
    BY DEF Types
  <2>2. CASE Host \/ User
    BY <2>1, <2>2 DEF Host, User
  <2>3. CASE Scan \/ Killed \/ UNCHANGED vars
    BY <2>1, <2>3 DEF Scan, vars
  <2> QED BY <2>2, <2>3 DEF Next
<1>2. created' \in BOOLEAN /\ errors' \in BOOLEAN /\ quiet' \in BOOLEAN /\ fresh' \in BOOLEAN
  <2>1. created \in BOOLEAN /\ errors \in BOOLEAN /\ quiet \in BOOLEAN /\ fresh \in BOOLEAN
    BY DEF Types
  <2>2. CASE Host \/ User
    BY <2>1, <2>2 DEF Host, User
  <2>3. CASE Scan \/ Killed \/ UNCHANGED vars
    BY <2>1, <2>3 DEF Scan, vars
  <2> QED BY <2>2, <2>3 DEF Next
<1>3. previous' \in {previous, forwards, {}}
  <2>1. CASE Host \/ User
    BY <2>1 DEF Host, User
  <2>2. CASE Scan \/ Killed \/ UNCHANGED vars
    BY <2>2 DEF Scan, vars
  <2> QED BY <2>1, <2>2 DEF Next
<1>4. previous' \subseteq Forward /\ Distinct(previous')
  BY <1>3 DEF Types, Distinct
<1> QED BY <1>1, <1>2, <1>4

\* ... of the number of failures, ...
LEMMA CountTyped == ASSUME Types, [Next]_vars PROVE failures' \in 0..MaxFailures
<1>1. failures' = failures \/ (failures < MaxFailures /\ failures' = failures + 1)
  <2>1. CASE Host \/ User
    BY <2>1 DEF Host, User
  <2>2. CASE Scan \/ Killed \/ UNCHANGED vars
    BY <2>2 DEF Scan, vars
  <2> QED BY <2>1, <2>2 DEF Next
<1> QED BY <1>1, DiscoveryAssumption DEF Types

\* ... and of what a scan has found and planned.
LEMMA FoundTyped ==
    ASSUME Types, [Next]_vars
    PROVE  /\ active' \subseteq Processes /\ detected' \subseteq Listener
           /\ deletions' \subseteq Ids /\ requests' \subseteq Listener
<1> USE DEF Types
<1>1. ASSUME NEW pane \in Panes, ReadPane(pane)
      PROVE  active' \subseteq Processes /\ detected' \subseteq Listener
  <2>1. PICK some \in Listing({p \in front : PaneOf(p) = pane}) : detected' = detected \cup some
    BY <1>1
  <2>2. some \subseteq Listener
    BY ListingIs
  <2> QED BY <1>1, <2>1, <2>2
<1>2. ASSUME Decide PROVE deletions' \subseteq Ids
  <2>1. \A f \in previous : f.id \in Ids
    BY DEF Forward
  <2> QED BY <1>2, <2>1
<1>3. CASE Host \/ User
  BY <1>3 DEF Host, User
<1>4. CASE Scan \/ Killed \/ UNCHANGED vars
  BY <1>1, <1>2, <1>4 DEF Scan, vars
<1> QED BY <1>3, <1>4 DEF Next

\* The forwards stay distinct.
LEMMA ForwardsTyped ==
    ASSUME Types, Phases, [Next]_vars
    PROVE  forwards' \subseteq Forward /\ Distinct(forwards')
<1>1. ASSUME NEW e \in Endpoints, NEW pane \in Panes \cup {NoPane},
             NEW process \in Processes \cup {NoProcess}, NEW automatic \in BOOLEAN,
             Post(e, pane, process, automatic)
      PROVE  forwards' \subseteq Forward /\ Distinct(forwards')
  <2>1. ASSUME NEW f \in forwards, f.at = e, forwards' = (forwards \ {f}) \cup {Renewed(f, process)}
        PROVE  forwards' \subseteq Forward /\ Distinct(forwards')
    BY <2>1, RenewedIs DEF Types, Distinct
  <2>2. ASSUME At(e) = {}, NEW i \in Ids \ KnownIds,
               forwards' = forwards \cup {Made(e, i, pane, process, automatic)}
        PROVE  forwards' \subseteq Forward /\ Distinct(forwards')
    <3>1. \A f \in forwards : f.at # e /\ f.id # i
      BY <2>2 DEF At, KnownIds
    <3> QED BY <2>2, <3>1, MadeIs DEF Types, Distinct
  <2> QED BY <1>1, <2>1, <2>2, Posting
<1>2. ASSUME NEW e \in Endpoints, Add(e) PROVE forwards' \subseteq Forward /\ Distinct(forwards')
  BY <1>1, <1>2
<1>3. ASSUME NEW l \in requests, Create(l) PROVE forwards' \subseteq Forward /\ Distinct(forwards')
  <2>1. l.at \in Endpoints /\ l.pane \in Panes /\ l.process \in Processes
    BY DEF Types, Listener
  <2> QED BY <1>1, <1>3, <2>1
<1>4. CASE forwards' \subseteq forwards
  BY <1>4 DEF Types, Distinct
<1> QED BY <1>2, <1>3, <1>4, ForwardSteps

\* Types is inductive.
LEMMA TypesStep == ASSUME Types, Phases, [Next]_vars PROVE Types'
BY HostTyped, ScanTyped, CountTyped, FoundTyped, ForwardsTyped DEF Types, Distinct

-----------------------------------------------------------------------------
(* The other parts of the invariant.                                       *)

\* What is planned is done step by step.
LEMMA PlanSteps ==
    ASSUME [Next]_vars
    PROVE  /\ Decide \/ (deletions' \subseteq deletions /\ requests' \subseteq requests)
           /\ Begin \/ previous' = previous \/ previous' = {}
<1>1. CASE Host \/ User
  BY <1>1 DEF Host, User
<1>2. CASE Begin \/ Decide
  BY <1>2
<1>3. CASE (Scan /\ ~Begin /\ ~Decide) \/ Killed \/ UNCHANGED vars
  <2> HIDE DEF Begin, Decide
  <2> QED BY <1>3 DEF Scan, vars
<1> QED BY <1>1, <1>2, <1>3 DEF Next

\* Phases is inductive.
LEMMA PhasesStep == ASSUME Types, Phases, [Next]_vars PROVE Phases'
<1>1. /\ pc' # "panes" => previous' = {} /\ active' = {} /\ detected' = {} /\ unread' = {}
      /\ pc' # "requests" => deletions' = {} /\ requests' = {}
  <2>1. CASE Host \/ User
    BY <2>1 DEF Host, User, Phases
  <2>2. CASE Scan \/ Killed \/ UNCHANGED vars
    BY <2>2 DEF Scan, vars, Phases
  <2> QED BY <2>1, <2>2 DEF Next
<1>2. IsFiniteSet(deletions') /\ Cardinality(deletions') <= Cardinality(Endpoints)
  <2>1. CASE Decide
    <3> DEFINE gone == {g \in previous : Gone(g)}
    <3>1. deletions' = IdsOf(gone) /\ gone \subseteq Forward /\ Distinct(gone)
      BY <2>1 DEF IdsOf, Types, Distinct
    <3>2. \A f \in gone : f.at \in Endpoints
      BY <3>1 DEF Forward
    <3> HIDE DEF gone
    <3> QED BY <3>1, <3>2, Room, FewIds
  <2>2. CASE deletions' \subseteq deletions
    <3>1. /\ IsFiniteSet(deletions') /\ Cardinality(deletions') <= Cardinality(deletions)
      BY <2>2, FS_Subset DEF Phases
    <3>2. Cardinality(deletions) \in Nat /\ Cardinality(deletions') \in Nat
      BY <3>1, FS_CardinalityType DEF Phases
    <3> QED BY <3>1, <3>2, Room DEF Phases
  <2> QED BY <2>1, <2>2, PlanSteps
<1> QED BY <1>1, <1>2 DEF Phases

\* A quiet scan goes on reading, or ...
LEMMA SeenSteps ==
    ASSUME [Next]_vars, quiet', pc' = "panes"
    PROVE  \/ Begin
           \/ /\ quiet /\ pc = "panes"
              /\ (\E pane \in Panes : ReadPane(pane)) \/ UNCHANGED <<world, forwards, found>>
<1> HIDE DEF Begin, ReadPane
<1>1. CASE Host \/ User
  BY <1>1 DEF Host, User
<1>2. CASE \E pane \in Panes : ReadPane(pane)
  BY <1>2 DEF ReadPane
<1>3. CASE ~(\E pane \in Panes : ReadPane(pane)) /\ (Scan \/ Killed \/ UNCHANGED vars)
  BY <1>3 DEF Scan, vars
<1> QED BY <1>1, <1>2, <1>3 DEF Next

\* ... requests what it has decided.
LEMMA PlannedSteps ==
    ASSUME [Next]_vars, quiet', ~errors', pc' \in {"requests", "show", "end"}
    PROVE  \/ Decide /\ quiet
           \/ /\ quiet /\ ~errors /\ pc \in {"requests", "show", "end"} /\ UNCHANGED world
              /\ \/ \E i \in Ids : Delete(i)
                 \/ \E l \in requests : Create(l)
                 \/ UNCHANGED <<forwards, plan>>
<1> HIDE DEF Delete, Create
<1>1. CASE Host \/ User
  BY <1>1 DEF Host, User
<1>2. CASE (\E i \in Ids : Delete(i)) \/ (\E l \in requests : Create(l))
  BY <1>2 DEF Delete, Create
<1>3. CASE /\ ~(\E i \in Ids : Delete(i)) /\ ~(\E l \in requests : Create(l))
           /\ (Scan \/ Killed \/ UNCHANGED vars)
  BY <1>3 DEF Scan, vars
<1> QED BY <1>1, <1>2, <1>3 DEF Next

HIDE DEF Disturb, Appear, Suspend, Exit, Listen, Unlisten, Add, Remove
HIDE DEF Begin, ReadPane, ReadFails, Decide, Deleting, Delete, DeleteUnknown, DeleteFails, Creating,
    Create, CreateFails, Fails, Leaving, Requested, Show, ShowFails, End, Killed

\* The answer to a request of the scan.
Answer(f, l) ==
    /\ Create(l) /\ f.at = l.at /\ f.process = l.process

\* Where a forward comes from.
LEMMA Origins ==
    ASSUME IInv, [Next]_vars, NEW f \in forwards'
    PROVE  \/ f \in forwards
           \/ \E h \in forwards, l \in requests :
                /\ f.id = h.id /\ f.at = h.at /\ f.pane = h.pane /\ f.automatic = h.automatic
                /\ Answer(f, l)
           \/ /\ f.id \notin KnownIds
              /\ \/ ~quiet'
                 \/ \E l \in requests : Answer(f, l) /\ f.pane = l.pane
<1> USE DEF IInv
<1>1. ASSUME NEW e \in Endpoints, Add(e), f \notin forwards
      PROVE  f.id \notin KnownIds /\ ~quiet'
  <2>1. ASSUME NEW h \in forwards, forwards' = (forwards \ {h}) \cup {Renewed(h, NoProcess)}
        PROVE  FALSE
    BY <1>1, <2>1, RenewedIs DEF Types
  <2>3. Post(e, NoPane, NoProcess, FALSE) /\ ~quiet'
    BY <1>1 DEF Add, Disturb
  <2>2. PICK i \in Ids \ KnownIds : forwards' = forwards \cup {Made(e, i, NoPane, NoProcess, FALSE)}
    BY <2>1, <2>3, Posting
  <2>4. f = Made(e, i, NoPane, NoProcess, FALSE)
    BY <1>1, <2>2
  <2> QED BY <2>2, <2>3, <2>4 DEF Made
<1>2. ASSUME NEW l \in requests, Create(l), f \notin forwards
      PROVE  \/ \E h \in forwards :
                  /\ f.id = h.id /\ f.at = h.at /\ f.pane = h.pane /\ f.automatic = h.automatic
                  /\ Answer(f, l)
             \/ f.id \notin KnownIds /\ Answer(f, l) /\ f.pane = l.pane
  <2>1. l.at \in Endpoints /\ l.pane \in Panes /\ l.process \in Processes /\ l.process # NoProcess
    BY DiscoveryAssumption DEF Types, Listener, Processes
  <2>2. ASSUME NEW h \in forwards, h.at = l.at,
               forwards' = (forwards \ {h}) \cup {Renewed(h, l.process)}
        PROVE  /\ f.id = h.id /\ f.at = h.at /\ f.pane = h.pane /\ f.automatic = h.automatic
               /\ Answer(f, l)
    <3>1. f = Renewed(h, l.process) /\ h \in Forward
      BY <1>2, <2>2 DEF Types
    <3> QED BY <1>2, <2>1, <2>2, <3>1, RenewedIs DEF Answer
  <2>3. ASSUME NEW i \in Ids \ KnownIds,
               forwards' = forwards \cup {Made(l.at, i, l.pane, l.process, TRUE)}
        PROVE  f.id \notin KnownIds /\ Answer(f, l) /\ f.pane = l.pane
    <3>1. f = Made(l.at, i, l.pane, l.process, TRUE)
      BY <1>2, <2>3
    <3>2. f.id = i /\ f.at = l.at /\ f.process = l.process /\ f.pane = l.pane
      BY <3>1 DEF Made
    <3> QED BY <1>2, <3>2 DEF Answer
  <2>4. Post(l.at, l.pane, l.process, TRUE)
    BY <1>2 DEF Create
  <2> QED BY <2>1, <2>2, <2>3, <2>4, Posting
<1> QED BY <1>1, <1>2, ForwardSteps DEF Remove, Delete

\* What becomes of a forward.
LEMMA Fates ==
    ASSUME IInv, [Next]_vars, NEW f \in forwards, ~User
    PROVE  \/ \E g \in forwards' :
                g.id = f.id /\ g.at = f.at /\ g.pane = f.pane /\ g.automatic = f.automatic
           \/ f.id \in deletions /\ Delete(f.id)
<1> USE DEF IInv
<1>1. ASSUME NEW l \in requests, Create(l)
      PROVE  \E g \in forwards' :
                g.id = f.id /\ g.at = f.at /\ g.pane = f.pane /\ g.automatic = f.automatic
  <2>1. l.at \in Endpoints /\ l.pane \in Panes /\ l.process \in Processes
    BY DEF Types, Listener
  <2>2. Post(l.at, l.pane, l.process, TRUE)
    BY <1>1 DEF Create
  <2>3. f \in Forward /\ (At(l.at) = {} => f \in forwards)
    BY DEF Types
  <2>4. ASSUME NEW h \in forwards, forwards' = (forwards \ {h}) \cup {Renewed(h, l.process)}
        PROVE  \E g \in forwards' :
                  g.id = f.id /\ g.at = f.at /\ g.pane = f.pane /\ g.automatic = f.automatic
    BY <2>1, <2>3, <2>4, RenewedIs
  <2> QED BY <2>1, <2>2, <2>4, Posting
<1>2. ASSUME NEW i \in Ids, Delete(i), f \notin forwards' PROVE f.id \in deletions /\ Delete(f.id)
  BY <1>2 DEF Delete, Deleting
<1> QED BY <1>1, <1>2, ForwardSteps DEF User

\* Same is inductive.
LEMMA SameStep == ASSUME IInv, [Next]_vars PROVE Same'
<1> USE DEF IInv
<1>1. ASSUME NEW f \in forwards', NEW g \in previous', f.id = g.id PROVE f = g
  <2>1. CASE Begin
    BY <1>1, <2>1, TypesStep DEF Types, Distinct, Begin
  <2>2. CASE previous' = previous
    <3>1. pc = "panes"
      BY <1>1, <2>2 DEF Phases
    <3>2. \A l \in requests : ~Create(l)
      BY <3>1 DEF Create, Creating
    <3>3. g.id \in KnownIds
      BY <1>1, <2>2 DEF KnownIds
    <3> QED BY <1>1, <2>2, <3>2, <3>3, Origins DEF Same, Answer
  <2> QED BY <1>1, <2>1, <2>2, PlanSteps
<1>2. ASSUME NEW f \in forwards', ~f.automatic PROVE f.id \notin deletions'
  <2>1. CASE Decide
    BY <1>2, <2>1 DEF Same, Gone, Decide
  <2>2. CASE deletions' \subseteq deletions
    <3>1. deletions \subseteq KnownIds
      BY DEF KnownIds
    <3> QED BY <1>2, <2>2, <3>1, Origins DEF Same
  <2> QED BY <2>1, <2>2, PlanSteps
<1> QED BY <1>1, <1>2 DEF Same

\* A process is in a pane.
LEMMA PanesOfProcesses == \A p \in Processes : PaneOf(p) \in Panes
BY DEF Processes, PaneOf

\* Seen is inductive.
LEMMA SeenStep == ASSUME IInv, [Next]_vars PROVE Seen'
<1> SUFFICES ASSUME quiet', pc' = "panes"
             PROVE  Seen'
  BY DEF Seen
<1> USE DEF IInv
<1>1. CASE Begin
  <2>1. front' \subseteq Processes
    BY HostTyped
  <2> QED BY <1>1, <2>1, PanesOfProcesses DEF Begin, Seen
<1>2. ASSUME quiet, pc = "panes", NEW pane \in Panes, ReadPane(pane) PROVE Seen'
  <2> DEFINE here == {p \in front : PaneOf(p) = pane}
  <2>1. PICK some \in Listing(here) : detected' = detected \cup some
    BY <1>2 DEF ReadPane
  <2>2. UNCHANGED <<front, listener, forwards, previous>> /\ unread' = unread \ {pane}
        /\ active' = active \cup here
    BY <1>2 DEF ReadPane
  <2>3. \A l \in detected' :
          listener[l.at] = l.process /\ l.process \in front /\ l.pane = PaneOf(l.process)
    BY <1>2, <2>1, ListingIs DEF Seen
  <2>4. ASSUME NEW p \in front, PaneOf(p) \notin unread', NEW e \in Endpoints, listener[e] = p
        PROVE  \E l \in detected' : l.pane = PaneOf(p) /\ PortOf(l) = e[1]
    <3>1. CASE PaneOf(p) = pane
      <4> DEFINE m == [at |-> e, pane |-> pane, process |-> p]
      <4>1. /\ m \in Listener /\ m.process \in here /\ m.process = listener[m.at]
            /\ m.pane = PaneOf(m.process) /\ PortOf(m) = e[1]
        BY <2>4, <3>1 DEF Types, Listener, PortOf
      <4>2. PICK l \in some : PortOf(l) = e[1]
        BY <2>1, <4>1, ListingIs
      <4>3. l.pane = PaneOf(p)
        BY <2>1, <3>1, <4>2, ListingIs
      <4> QED BY <2>1, <4>2, <4>3
    <3>2. CASE PaneOf(p) # pane
      BY <1>2, <2>1, <2>2, <2>4, <3>2 DEF Seen
    <3> QED BY <3>1, <3>2
  <2>5. \A p \in front : PaneOf(p) \notin unread' => p \in active'
    BY <1>2, <2>2 DEF Seen
  <2> QED BY <1>2, <2>2, <2>3, <2>4, <2>5 DEF Seen
<1>3. CASE quiet /\ pc = "panes" /\ UNCHANGED <<world, forwards, found>>
  BY <1>3 DEF Seen
<1> QED BY <1>1, <1>2, <1>3, SeenSteps

\* A quiet scan that has read everything finds the forward of a live server again.
LEMMA LiveIsFound ==
    ASSUME IInv, quiet, pc = "panes", unread = {}, NEW f \in forwards, Live(f)
    PROVE  f \in previous /\ ~Gone(f)
<1>1. f.at \in Endpoints
  BY DEF IInv, Types, Forward
<1>2. f.process \in active /\ \E l \in detected : l.pane = PaneOf(f.process) /\ PortOf(l) = f.at[1]
  BY <1>1 DEF IInv, Seen, Live
<1> QED BY <1>2 DEF IInv, Seen, Live, Gone, PortOf

\* Spared is inductive.
LEMMA SparedStep == ASSUME IInv, [Next]_vars PROVE Spared'
<1> SUFFICES ASSUME quiet', NEW f \in forwards', Live(f)'
             PROVE  f.id \notin deletions'
  BY DEF Spared
<1> USE DEF IInv
<1>1. Live(f)
  BY WorldSteps DEF Live
<1>2. CASE Decide
  <2>1. pc = "panes" /\ unread = {} /\ quiet /\ f \in forwards
    BY <1>2 DEF Decide
  <2>2. f \in previous /\ ~Gone(f)
    BY <1>1, <2>1, LiveIsFound
  <2>3. ASSUME NEW g \in previous, Gone(g) PROVE g.id # f.id
    BY <2>2, <2>3 DEF Types, Distinct
  <2> QED BY <1>2, <2>3 DEF Decide
<1>3. CASE deletions' \subseteq deletions
  <2>1. CASE Begin
    BY <1>3, <2>1 DEF Begin, Phases
  <2>2. CASE quiet
    <3>1. deletions \subseteq KnownIds
      BY DEF KnownIds
    <3>2. \A l \in requests : Create(l) => deletions = {}
      BY DEF Create, Creating
    <3> QED BY <1>1, <1>3, <2>2, <3>1, <3>2, Origins DEF Spared, Answer
  <2> QED BY <2>1, <2>2, QuietSteps
<1> QED BY <1>2, <1>3, PlanSteps

\* The conjunction is an invariant of the specification.
LEMMA Invariant == Spec => []IInv
<1>1. IInv /\ [Next]_vars => IInv'
  BY TypesStep, PhasesStep, SameStep, SeenStep, SparedStep DEF IInv
<1> QED BY <1>1, InitIInv, PTL DEF Spec

-----------------------------------------------------------------------------
(* What discovery promises.                                                *)

\* Every variable has a value of its type, and the companion (forwards.rs) never has two forwards
\* with one endpoint or one identifier.
THEOREM TypeCorrect == Spec => []TypeOK
<1>1. IInv => TypeOK
  BY DEF IInv, Types, TypeOK, Distinct
<1> QED BY <1>1, Invariant, PTL

\* A scan, also one that is overtaken, takes nothing away: a forward of a server that runs stays
\* while nobody but the scan acts, and what the user added stays, at its endpoint, in any case
\* (discover_once of lifecycle.rs).
THEOREM Gentle == Spec => ScanIsGentle
<1>1. ASSUME IInv, [Next]_vars, quiet, quiet', NEW f \in forwards, Live(f)
      PROVE  f.id \in IdsOf(forwards')
  <2>1. f.id \notin deletions
    BY <1>1 DEF IInv, Spared
  <2>2. CASE User
    BY <1>1, <2>2 DEF User, Add, Remove, Disturb
  <2> QED BY <1>1, <2>1, <2>2, Fates DEF IdsOf
<1>2. ASSUME IInv, [Next]_vars, ~User, NEW f \in forwards, ~f.automatic
      PROVE  \E g \in forwards' : g.id = f.id /\ g.at = f.at /\ ~g.automatic
  BY <1>2, Fates DEF IInv, Same
<1>3. IInv /\ [Next]_vars =>
        [quiet /\ quiet' => \A f \in forwards :
            listener[f.at] = f.process /\ f.process \in front /\ f.pane = PaneOf(f.process) =>
                f.id \in {g.id : g \in forwards'}]_vars
  BY <1>1 DEF Live, IdsOf
<1>4. IInv /\ [Next]_vars =>
        [~User => \A f \in forwards :
            ~f.automatic => \E g \in forwards' : g.id = f.id /\ g.at = f.at /\ ~g.automatic]_vars
  BY <1>2
<1>5. Spec => LiveIsKept
  BY <1>3, Invariant, PTL DEF Spec, LiveIsKept
<1>6. Spec => ManualIsKept
  BY <1>4, Invariant, PTL DEF Spec, ManualIsKept
<1> QED BY <1>5, <1>6 DEF ScanIsGentle

\* With one loopback address a port is an endpoint.
LEMMA PortIsEndpoint ==
    ASSUME NEW h, Hosts = {h}, NEW d \in Endpoints, NEW e \in Endpoints, d[1] = e[1]
    PROVE  d = e
BY DEF Endpoints

\* A quiet scan decides what is needed.
LEMMA DecidesExactly ==
    ASSUME IInv, NEW h, Hosts = {h}, quiet, Decide
    PROVE  Planned'
<1> USE DEF IInv
<1>1. /\ pc = "panes" /\ unread = {} /\ UNCHANGED <<world, forwards, quiet, errors>>
      /\ deletions' = {f.id : f \in {g \in previous : Gone(g)}}
      /\ requests' = {l \in detected : ~Served(l)}
  BY DEF Decide
<1>2. forwards = previous /\ \A l \in detected :
          listener[l.at] = l.process /\ l.process \in front /\ l.pane = PaneOf(l.process)
  BY <1>1 DEF Seen
<1>3. \A f \in forwards : f.at \in Endpoints
  BY DEF Types, Forward
<1>4. \A l \in detected : l.at \in Endpoints
  BY DEF Types, Listener
<1>5. ASSUME NEW e \in Endpoints, listener[e] \in front
      PROVE  \E l \in detected : l.at = e /\ l.process = listener[e]
  <2>1. PICK l \in detected : PortOf(l) = e[1]
    BY <1>1, <1>5, PanesOfProcesses DEF Seen, Types
  <2>2. l.at = e
    BY <1>4, <2>1, PortIsEndpoint DEF PortOf
  <2> QED BY <1>2, <2>2
<1>6. ASSUME NEW e \in Endpoints, listener[e] \in front
      PROVE  \/ \E f \in forwards : f.at = e /\ f.id \notin deletions'
             \/ \E l \in requests' : l.at = e
  <2>1. PICK l \in detected : l.at = e /\ l.process = listener[e]
    BY <1>5, <1>6
  <2>2. CASE Served(l)
    <3>1. PICK f \in previous : f.pane = l.pane /\ f.process = l.process /\ PortOf(f) = PortOf(l)
      BY <2>2 DEF Served
    <3>2. f.at = e
      BY <1>2, <1>3, <2>1, <3>1, PortIsEndpoint DEF PortOf
    <3>3. Live(f)
      BY <1>2, <2>1, <3>1, <3>2 DEF Live
    <3>4. ~Gone(f)
      BY <1>1, <1>2, <3>3, LiveIsFound
    <3>5. f.id \notin deletions'
      BY <1>1, <3>4 DEF Types, Distinct
    <3> QED BY <1>2, <3>2, <3>5
  <2> QED BY <1>1, <2>1, <2>2
<1>7. ASSUME NEW f \in forwards, f.automatic, f.id \notin deletions', ~Live(f)
      PROVE  \E l \in requests' : l.at = f.at /\ l.pane = f.pane
  <2>1. ~Gone(f)
    BY <1>1, <1>2, <1>7
  <2>2. PICK l \in detected : l.pane = f.pane /\ PortOf(l) = PortOf(f)
    BY <1>7, <2>1 DEF Gone
  <2>3. l.at = f.at
    BY <1>3, <1>4, <2>2, PortIsEndpoint DEF PortOf
  <2>4. ~Served(l)
    <3> SUFFICES ASSUME NEW g \in previous,
                        g.pane = l.pane, g.process = l.process, PortOf(g) = PortOf(l)
                 PROVE  FALSE
      BY DEF Served
    <3>1. g.at = f.at
      BY <1>2, <1>3, <2>2, PortIsEndpoint DEF PortOf
    <3>2. g = f
      BY <1>2, <3>1 DEF Types, Distinct
    <3> QED BY <1>2, <1>7, <2>3, <3>2 DEF Live
  <2> QED BY <1>1, <2>2, <2>3, <2>4
<1>8. \A l \in requests' :
          listener[l.at] = l.process /\ l.process \in front /\ l.pane = PaneOf(l.process)
  BY <1>1, <1>2
<1> QED BY <1>1, <1>6, <1>7, <1>8 DEF Planned, Live

\* The companion has a forward where it was asked for one, for the process that was named.
LEMMA Answered ==
    ASSUME IInv, NEW l \in requests, Create(l)
    PROVE  /\ \E f \in forwards' : f.at = l.at
           /\ \A f \in forwards' : f.at = l.at => f.process = l.process
<1> USE DEF IInv
<1>1. l.at \in Endpoints /\ l.pane \in Panes /\ l.process \in Processes /\ l.process # NoProcess
  BY DiscoveryAssumption DEF Types, Listener, Processes
<1>2. ASSUME NEW f \in forwards, f.at = l.at,
             forwards' = (forwards \ {f}) \cup {Renewed(f, l.process)}
      PROVE  /\ \E g \in forwards' : g.at = l.at
             /\ \A g \in forwards' : g.at = l.at => g.process = l.process
  <2>1. Renewed(f, l.process).at = l.at /\ Renewed(f, l.process).process = l.process
    BY <1>1, <1>2, RenewedIs DEF Types
  <2>2. \A g \in forwards \ {f} : g.at # l.at
    BY <1>2 DEF Types, Distinct
  <2> QED BY <1>2, <2>1, <2>2
<1>3. ASSUME NEW i \in Ids, At(l.at) = {},
             forwards' = forwards \cup {Made(l.at, i, l.pane, l.process, TRUE)}
      PROVE  /\ \E g \in forwards' : g.at = l.at
             /\ \A g \in forwards' : g.at = l.at => g.process = l.process
  <2> DEFINE m == Made(l.at, i, l.pane, l.process, TRUE)
  <2>1. m.at = l.at /\ m.process = l.process
    BY DEF Made
  <2>2. \A g \in forwards : g.at # l.at
    BY <1>3 DEF At
  <2>3. forwards' = forwards \cup {m}
    BY <1>3
  <2> HIDE DEF m
  <2> QED BY <2>1, <2>2, <2>3
<1>4. Post(l.at, l.pane, l.process, TRUE)
  BY DEF Create
<1>5. l.pane \in Panes \cup {NoPane} /\ l.process \in Processes \cup {NoProcess} /\ TRUE \in BOOLEAN
  BY <1>1
<1>6. \/ \E f \in forwards :
           f.at = l.at /\ forwards' = (forwards \ {f}) \cup {Renewed(f, l.process)}
      \/ /\ At(l.at) = {}
         /\ \E i \in Ids \ KnownIds :
              forwards' = forwards \cup {Made(l.at, i, l.pane, l.process, TRUE)}
  <2>1. l.at \in Endpoints
    BY <1>1
  <2> QED BY <1>4, <1>5, <2>1, Posting
<1>7. CASE \E f \in forwards :
             f.at = l.at /\ forwards' = (forwards \ {f}) \cup {Renewed(f, l.process)}
  BY <1>2, <1>7
<1>8. CASE /\ At(l.at) = {}
           /\ \E i \in Ids \ KnownIds :
                forwards' = forwards \cup {Made(l.at, i, l.pane, l.process, TRUE)}
  BY <1>3, <1>8
<1> QED BY <1>6, <1>7, <1>8

\* With one loopback address Planned is inductive.
LEMMA PlannedStep ==
    ASSUME IInv, Planned, NEW h, Hosts = {h}, [Next]_vars
    PROVE  Planned'
<1> SUFFICES ASSUME quiet', ~errors', pc' \in {"requests", "show", "end"}
             PROVE  Planned'
  BY DEF Planned
<1> USE DEF IInv
<1>1. CASE Decide /\ quiet
  BY <1>1, DecidesExactly
<1>2. CASE quiet /\ ~errors /\ pc \in {"requests", "show", "end"} /\ UNCHANGED world
  <2>1. /\ \A l \in requests :
             listener[l.at] = l.process /\ l.process \in front /\ l.pane = PaneOf(l.process)
        /\ \A e \in Endpoints : listener[e] \in front =>
             \/ \E f \in forwards : f.at = e /\ f.id \notin deletions
             \/ \E l \in requests : l.at = e
        /\ \A f \in forwards : f.automatic =>
             \/ f.id \in deletions
             \/ Live(f)
             \/ \E l \in requests : l.at = f.at /\ l.pane = f.pane
    BY <1>2 DEF Planned
  <2>2. CASE UNCHANGED <<forwards, plan>>
    BY <1>2, <2>1, <2>2 DEF Planned, Live
  <2>3. ASSUME NEW i \in Ids, Delete(i) PROVE Planned'
    <3>1. /\ deletions' = deletions \ {i} /\ forwards' = {f \in forwards : f.id # i}
          /\ UNCHANGED requests
      BY <2>3 DEF Delete, Deleting
    <3>2. i \in deletions
      BY <2>3 DEF Delete, Deleting
    <3>3. \A e \in Endpoints : listener[e] \in front =>
             \/ \E f \in forwards' : f.at = e /\ f.id \notin deletions'
             \/ \E l \in requests' : l.at = e
      BY <2>1, <3>1, <3>2
    <3>4. \A f \in forwards' : f.automatic =>
             \/ f.id \in deletions'
             \/ Live(f)
             \/ \E l \in requests' : l.at = f.at /\ l.pane = f.pane
      BY <2>1, <3>1
    <3> QED BY <1>2, <2>1, <3>1, <3>3, <3>4 DEF Planned, Live
  <2>4. ASSUME NEW l \in requests, Create(l) PROVE Planned'
    <3>1. deletions = {} /\ deletions' = {} /\ requests' = requests \ {l}
      BY <2>4 DEF Create, Creating
    <3>2. ~User
      BY DEF User, Add, Remove, Disturb
    <3>3. ASSUME NEW e \in Endpoints, listener[e] \in front
          PROVE  \/ \E f \in forwards' : f.at = e
                 \/ \E m \in requests' : m.at = e
      <4>1. CASE l.at = e
        BY <2>4, <4>1, Answered
      <4>2. CASE l.at # e
        BY <2>1, <3>1, <3>2, <3>3, <4>2, Fates
      <4> QED BY <4>1, <4>2
    <3>4. ASSUME NEW f \in forwards', f.automatic
          PROVE  Live(f) \/ \E m \in requests' : m.at = f.at /\ m.pane = f.pane
      <4>1. CASE f \in forwards
        BY <2>1, <2>4, <3>1, <3>4, <4>1, Answered DEF Live
      <4>2. ASSUME NEW k \in forwards, NEW m \in requests, f.at = k.at, f.pane = k.pane,
                   f.automatic = k.automatic, Answer(f, m)
            PROVE  Live(f)
        <5>1. f.process = listener[f.at] /\ f.process \in front
          BY <2>1, <4>2 DEF Answer
        <5>2. k.pane = PaneOf(listener[k.at])
          BY <2>1, <3>1, <3>4, <4>2 DEF Live
        <5> QED BY <4>2, <5>1, <5>2 DEF Live
      <4>3. ASSUME NEW m \in requests, Answer(f, m), f.pane = m.pane
            PROVE  Live(f)
        BY <2>1, <4>3 DEF Live, Answer
      <4> QED BY <4>1, <4>2, <4>3, Origins
    <3>5. \A m \in requests' :
             (listener[m.at] = m.process /\ m.process \in front /\ m.pane = PaneOf(m.process))'
      BY <1>2, <2>1, <3>1
    <3>6. \A e \in Endpoints : (listener[e] \in front)' =>
             \/ \E f \in forwards' : f.at = e /\ f.id \notin deletions'
             \/ \E m \in requests' : m.at = e
      BY <1>2, <3>1, <3>3
    <3>7. \A f \in forwards' : f.automatic =>
             \/ f.id \in deletions'
             \/ Live(f)'
             \/ \E m \in requests' : m.at = f.at /\ m.pane = f.pane
      BY <1>2, <3>4 DEF Live
    <3> QED BY <3>5, <3>6, <3>7 DEF Planned
  <2> QED BY <1>1, <2>2, <2>3, <2>4, PlannedSteps
<1> QED BY <1>1, <1>2, PlannedSteps

\* On a host with one loopback address, a scan that nothing disturbed and in which no call failed
\* ends with a forward for each server in the foreground and no automatic forward besides; the
\* companion has one forward per endpoint at all times.
THEOREM QuietScans == ASSUME NEW h, Hosts = {h} PROVE Spec => []ScanIsSound
<1>1. Init => Planned
  BY DEF Init, Planned
<1>2. IInv /\ Planned /\ [Next]_vars => Planned'
  BY PlannedStep
<1>3. IInv /\ Planned => QuietScanIsExact
  <2> SUFFICES ASSUME IInv, Planned, pc = "end", quiet, ~errors PROVE Exact
    BY DEF QuietScanIsExact
  <2>1. deletions = {} /\ requests = {}
    BY DEF IInv, Phases
  <2> QED BY <2>1 DEF Planned, Exact, Live, At
<1> QED BY <1>1, <1>2, <1>3, Invariant, TypeCorrect, PTL DEF Spec, ScanIsSound
=============================================================================
