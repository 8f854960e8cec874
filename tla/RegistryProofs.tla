--------------------------- MODULE RegistryProofs ---------------------------
(***************************************************************************)
(* Proofs about Registry, for every value of its constants.                *)
(*                                                                         *)
(* IInv is inductive: identifiers name one endpoint for ever (Compatible,   *)
(* also between the registry and the snapshot a rollback mixes it with),   *)
(* and a replay in progress agrees with the registry it will replace       *)
(* (ReplayInv). TypeOK, Unique and StableIds follow from it alone.         *)
(*                                                                         *)
(* What concerns the tunnels is proved on top of it, one operation at a    *)
(* time, from what can come of the SSH calls: Truthful and NoNewOrphans if *)
(* a failed call has no effect, and the two properties of the replay if no *)
(* request runs meanwhile, for which Follows says what a replay meets.     *)
(***************************************************************************)
EXTENDS Registry, TLAPS

\* Two registries agree on what an identifier names, and their forwards could
\* stand side by side: distinct endpoints, distinct ports among the enabled.
Compatible(F, G) ==
    \A i \in DOMAIN F, j \in DOMAIN G :
        IF i = j
        THEN F[i].ep = G[j].ep
        ELSE /\ F[i].ep # G[j].ep
             /\ F[i].enabled /\ G[j].enabled => F[i].local # G[j].local

\* What restore_tunnels has done so far.
ReplayInv ==
    phase = "replay" =>
        /\ link \in {"fresh", "down"}
        /\ DOMAIN replay.restored = DOMAIN forwards
        /\ replay.todo \subseteq Enabled(forwards)
        /\ \A i \in DOMAIN forwards :
            /\ replay.restored[i].ep = forwards[i].ep
            /\ replay.restored[i].enabled = forwards[i].enabled
            /\ i \notin Enabled(forwards) => replay.restored[i] = forwards[i]
        /\ \A i \in Enabled(forwards) \ replay.todo :
            Alive => Tunnel(replay.restored[i]) \in tunnels
        /\ \A i, j \in Enabled(forwards) \ replay.todo :
            i # j => replay.restored[i].local # replay.restored[j].local

\* Inductive: what a step needs to know of the state before it. A rollback mixes the
\* registry with its snapshot, so the two must be compatible with each other too.
IInv ==
    /\ TypeOK
    /\ DOMAIN forwards \subseteq 1..next
    /\ DOMAIN saved \subseteq 1..next
    /\ phase # "persist" => saved = NoForwards
    /\ Compatible(forwards, forwards)
    /\ Compatible(saved, saved)
    /\ Compatible(forwards, saved)
    /\ ReplayInv

-----------------------------------------------------------------------------
(* Registries.                                                             *)

\* A registry is a function on some identifiers into the forwards.
LEMMA Shape ==
    ASSUME NEW F \in Registries
    PROVE  /\ DOMAIN F \subseteq Ids
           /\ F = [i \in DOMAIN F |-> F[i]]
           /\ \A i \in DOMAIN F : F[i] \in Forward
BY DEF Registries

LEMMA IsRegistry ==
    ASSUME NEW S \in SUBSET Ids, NEW F \in [S -> Forward]
    PROVE  F \in Registries
BY DEF Registries

\* No forwards at all is a registry, compatible with every other.
LEMMA Empty ==
    /\ NoForwards \in Registries /\ DOMAIN NoForwards = {}
    /\ \A F : Compatible(F, NoForwards) /\ Compatible(NoForwards, F)
<1>1. DOMAIN NoForwards = {} /\ NoForwards \in [{} -> Forward]
  BY DEF NoForwards
<1> QED BY <1>1, IsRegistry DEF Compatible

\* Extend sets one entry and keeps the others.
LEMMA ExtendShape ==
    ASSUME NEW F \in Registries, NEW k \in Ids, NEW f \in Forward
    PROVE  /\ Extend(F, k, f) \in Registries
           /\ DOMAIN Extend(F, k, f) = DOMAIN F \cup {k}
           /\ Extend(F, k, f)[k] = f
           /\ \A j \in DOMAIN F : j # k => Extend(F, k, f)[j] = F[j]
<1>1. DOMAIN F \cup {k} \in SUBSET Ids
  BY Shape
<1>2. Extend(F, k, f) \in [DOMAIN F \cup {k} -> Forward]
  BY Shape DEF Extend
<1> QED BY <1>1, <1>2, IsRegistry DEF Extend

\* Without removes entries and keeps the others.
LEMMA WithoutShape ==
    ASSUME NEW F \in Registries, NEW S
    PROVE  /\ Without(F, S) \in Registries
           /\ DOMAIN Without(F, S) = DOMAIN F \ S
           /\ \A j \in DOMAIN F \ S : Without(F, S)[j] = F[j]
<1>1. DOMAIN F \ S \in SUBSET Ids
  BY Shape
<1>2. Without(F, S) \in [DOMAIN F \ S -> Forward]
  BY Shape DEF Without
<1> QED BY <1>1, <1>2, IsRegistry DEF Without

LEMMA SymmetricCompatible ==
    ASSUME NEW F, NEW G, Compatible(F, G)
    PROVE  Compatible(G, F)
BY DEF Compatible

\* Setting one entry to a forward that fits beside the others.
LEMMA ExtendCompatible ==
    ASSUME NEW F \in Registries, Compatible(F, F), NEW k \in Ids, NEW f \in Forward,
           k \in DOMAIN F => F[k].ep = f.ep,
           \A j \in DOMAIN F \ {k} :
                /\ F[j].ep # f.ep
                /\ F[j].enabled /\ f.enabled => F[j].local # f.local
    PROVE  /\ Compatible(Extend(F, k, f), Extend(F, k, f))
           /\ Compatible(Extend(F, k, f), F)
<1> DEFINE E == Extend(F, k, f)
<1>1. DOMAIN E = DOMAIN F \cup {k} /\ E[k] = f /\ \A j \in DOMAIN F : j # k => E[j] = F[j]
  BY ExtendShape
<1> HIDE DEF E
<1>2. Compatible(E, E)
  BY <1>1 DEF Compatible
<1>3. Compatible(E, F)
  BY <1>1 DEF Compatible
<1> QED BY <1>2, <1>3 DEF E

LEMMA WithoutCompatible ==
    ASSUME NEW F \in Registries, Compatible(F, F), NEW S
    PROVE  Compatible(Without(F, S), Without(F, S)) /\ Compatible(Without(F, S), F)
<1> DEFINE E == Without(F, S)
<1>1. DOMAIN E = DOMAIN F \ S /\ \A j \in DOMAIN E : E[j] = F[j]
  BY WithoutShape
<1> HIDE DEF E
<1> QED BY <1>1 DEF Compatible, E

-----------------------------------------------------------------------------
(* Tunnels.                                                                *)

LEMMA TunnelType ==
    ASSUME NEW f \in Forward
    PROVE  Tunnel(f) \in Tunnels /\ Held(f) \in SUBSET Tunnels
BY DEF Tunnel, Held, Tunnels, Forward

LEMMA OpeningsType ==
    ASSUME NEW T \in SUBSET Tunnels, NEW S \in SUBSET Tunnels, NEW o \in Openings(T, S)
    PROVE  Plus(T, o) \in SUBSET Tunnels
BY DEF Openings, Plus

LEMMA ClosingsType ==
    ASSUME NEW T \in SUBSET Tunnels, NEW o
    PROVE  Minus(T, o) \in SUBSET Tunnels
BY DEF Minus

LEMMA NormalType ==
    ASSUME NEW port \in RemotePorts, NEW host
    PROVE  <<port, Normal(host)>> \in Endpoints
BY DEF Normal, Endpoints, Hosts

-----------------------------------------------------------------------------
(* The inductive invariant.                                                *)

LEMMA InitInv == Init => IInv
<1> SUFFICES ASSUME Init PROVE IInv
  OBVIOUS
<1>1. TypeOK
  BY Empty, LimitAssumption DEF Init, TypeOK, NoReplay
<1> QED BY <1>1, Empty DEF Init, IInv, ReplayInv

\* A request whose mutation fits beside what was there before.
LEMMA MutatedInv ==
    ASSUME IInv, phase = "idle", NEW G \in Registries, Mutated(G),
           next' \in Nat, next <= next', next' <= MaxNext, tunnels' \in SUBSET Tunnels,
           DOMAIN G \subseteq 1..next', Compatible(G, G), Compatible(G, forwards)
    PROVE  IInv'
<1>1. next \in Nat /\ DOMAIN forwards \subseteq 1..next'
  BY LimitAssumption DEF IInv, TypeOK
<1>2. TypeOK'
  BY LimitAssumption DEF IInv, TypeOK, Mutated, env
<1>3. ReplayInv'
  BY DEF Mutated, ReplayInv
<1> QED BY <1>1, <1>2, <1>3 DEF IInv, Mutated

\* A request that returned an error before persistence.
LEMMA FailedInv ==
    ASSUME IInv, phase = "idle", NEW T \in SUBSET Tunnels, Failed(T)
    PROVE  IInv'
<1>1. TypeOK'
  BY DEF IInv, TypeOK, Failed, env
<1>2. ReplayInv'
  BY DEF Failed, ReplayInv
<1> QED BY <1>1, <1>2 DEF IInv, Failed

LEMMA NoMutationInv ==
    ASSUME IInv, phase = "idle", Mutated(forwards), UNCHANGED <<next, tunnels>>
    PROVE  IInv'
<1>1. forwards \in Registries /\ next \in Nat /\ next <= MaxNext /\ tunnels \in SUBSET Tunnels
  BY LimitAssumption DEF IInv, TypeOK
<1>2. DOMAIN forwards \subseteq 1..next /\ Compatible(forwards, forwards)
  BY DEF IInv
<1> QED BY <1>1, <1>2, MutatedInv

\* The entry of an identifier may be replaced by one that keeps its endpoint, if the
\* new one is paused or has a port of its own.
LEMMA ReplaceInv ==
    ASSUME IInv, phase = "idle", NEW id \in DOMAIN forwards, NEW f \in Forward,
           f.ep = forwards[id].ep,
           \A i \in Enabled(forwards) \ {id} : f.enabled => forwards[i].local # f.local,
           Mutated(Extend(forwards, id, f)), UNCHANGED next, tunnels' \in SUBSET Tunnels
    PROVE  IInv'
<1>1. /\ forwards \in Registries /\ next \in Nat /\ next <= MaxNext
      /\ DOMAIN forwards \subseteq 1..next /\ Compatible(forwards, forwards)
  BY LimitAssumption DEF IInv, TypeOK
<1>2. id \in Ids
  BY <1>1, Shape
<1> DEFINE G == Extend(forwards, id, f)
<1>3. G \in Registries /\ DOMAIN G = DOMAIN forwards
  <2>1. G \in Registries /\ DOMAIN G = DOMAIN forwards \cup {id}
    BY <1>1, <1>2, ExtendShape
  <2>2. DOMAIN forwards \cup {id} = DOMAIN forwards
    OBVIOUS
  <2> QED BY <2>1, <2>2
<1>4. Compatible(G, G) /\ Compatible(G, forwards)
  <2>1. \A j \in DOMAIN forwards \ {id} :
            /\ forwards[j].ep # f.ep
            /\ forwards[j].enabled /\ f.enabled => forwards[j].local # f.local
    BY <1>1 DEF Compatible, Enabled
  <2> QED BY <1>1, <1>2, <2>1, ExtendCompatible
<1> QED BY <1>1, <1>3, <1>4, MutatedInv

\* A new entry for an endpoint that had none.
LEMMA AddInv ==
    ASSUME IInv, phase = "idle", NEW f \in Forward, ~Known(f.ep), next < MaxNext,
           \A i \in Enabled(forwards) : f.enabled => forwards[i].local # f.local,
           Mutated(Extend(forwards, NewId, f)), next' = NewId, tunnels' \in SUBSET Tunnels
    PROVE  IInv'
<1>1. /\ forwards \in Registries /\ next \in Nat
      /\ DOMAIN forwards \subseteq 1..next /\ Compatible(forwards, forwards)
  BY LimitAssumption DEF IInv, TypeOK
<1>2. NewId \in Ids /\ NewId = next + 1 /\ NewId <= MaxNext /\ NewId \notin DOMAIN forwards
  BY <1>1, LimitAssumption DEF NewId, Ids
<1> DEFINE G == Extend(forwards, NewId, f)
<1>3. G \in Registries /\ DOMAIN G = DOMAIN forwards \cup {NewId}
  BY <1>1, <1>2, ExtendShape, ZenonT(60)
<1>4. DOMAIN G \subseteq 1..NewId
  BY <1>1, <1>2, <1>3
<1>5. Compatible(G, G) /\ Compatible(G, forwards)
  <2>1. \A j \in DOMAIN forwards \ {NewId} :
            /\ forwards[j].ep # f.ep
            /\ forwards[j].enabled /\ f.enabled => forwards[j].local # f.local
    BY DEF Known, Enabled
  <2> QED BY <1>1, <1>2, <2>1, ExtendCompatible
<1> QED BY <1>1, <1>2, <1>3, <1>4, <1>5, MutatedInv

\* A usable port is no other enabled forward's.
LEMMA AvailablePort ==
    ASSUME NEW F, NEW T, NEW start, NEW except, NEW p, Available(F, T, start, except, p)
    PROVE  p \in Ports /\ Free(T, p) /\ \A i \in Enabled(F) \ {except} : F[i].local # p
BY DEF Available, Usable

LEMMA CreateInv ==
    ASSUME IInv, NEW port \in RemotePorts, NEW host \in RawHosts, NEW preferred \in 0..MaxPort,
           Create(port, host, preferred)
    PROVE  IInv'
<1> DEFINE ep == <<port, Normal(host)>>
           start == IF preferred = 0 THEN port ELSE preferred
<1>1. ep \in Endpoints /\ start \in Ports /\ phase = "idle"
  <2>1. ep \in Endpoints
    BY NormalType
  <2>2. start \in Ports
    BY PortAssumption DEF Ports
  <2>3. phase = "idle"
    BY DEF Create, CreateKnown, CreateRejected, CreatePaused, CreateEnabled, CreateNoPort, Request
  <2> QED BY <2>1, <2>2, <2>3
<1>2. tunnels \in SUBSET Tunnels
  BY DEF IInv, TypeOK
<1>3. CASE CreateKnown(ep)
  BY <1>1, <1>3, NoMutationInv DEF CreateKnown
<1>4. CASE CreateRejected(ep) \/ CreateNoPort(ep, start)
  BY <1>1, <1>2, <1>4, FailedInv DEF CreateRejected, CreateNoPort
<1>5. CASE CreatePaused(ep, start)
  <2> DEFINE f == [ep |-> ep, local |-> start, enabled |-> FALSE]
  <2>1. f \in Forward /\ f.ep = ep /\ ~f.enabled
    BY <1>1 DEF Forward
  <2> QED BY <1>1, <1>2, <1>5, <2>1, AddInv DEF CreatePaused
<1>6. CASE CreateEnabled(ep, start)
  <2>1. PICK p \in Ports :
            /\ Available(forwards, tunnels, start, 0, p)
            /\ LET f == [ep |-> ep, local |-> p, enabled |-> TRUE]
               IN  \E o \in Openings(tunnels, {Tunnel(f)}) :
                    IF o.ok = {}
                    THEN Failed(Plus(tunnels, o))
                    ELSE /\ tunnels' = Plus(tunnels, o)
                         /\ next' = NewId
                         /\ Mutated(Extend(forwards, NewId, f))
    BY <1>6 DEF CreateEnabled
  <2> DEFINE f == [ep |-> ep, local |-> p, enabled |-> TRUE]
  <2>2. PICK o \in Openings(tunnels, {Tunnel(f)}) :
            IF o.ok = {}
            THEN Failed(Plus(tunnels, o))
            ELSE /\ tunnels' = Plus(tunnels, o)
                 /\ next' = NewId
                 /\ Mutated(Extend(forwards, NewId, f))
    BY <2>1
  <2>3. f \in Forward /\ f.ep = ep /\ f.local = p
    BY <1>1 DEF Forward
  <2>4. Plus(tunnels, o) \in SUBSET Tunnels
    BY <1>2, <2>3, TunnelType, OpeningsType
  <2>5. \A i \in Enabled(forwards) : forwards[i].local # f.local
    <3>1. 0 \notin Enabled(forwards)
      BY Shape, LimitAssumption DEF IInv, TypeOK, Enabled, Ids
    <3> QED BY <2>1, <2>3, <3>1, AvailablePort
  <2>6. ~Known(ep) /\ next < MaxNext
    BY <1>6 DEF CreateEnabled
  <2> HIDE DEF f
  <2> QED BY <1>1, <2>2, <2>3, <2>4, <2>5, <2>6, AddInv, FailedInv
<1> QED BY <1>3, <1>4, <1>5, <1>6 DEF Create

LEMMA RemoveInv ==
    ASSUME IInv, NEW id, Remove(id)
    PROVE  IInv'
<1>1. /\ forwards \in Registries /\ next \in Nat /\ next <= MaxNext /\ tunnels \in SUBSET Tunnels
      /\ DOMAIN forwards \subseteq 1..next /\ Compatible(forwards, forwards)
  BY LimitAssumption DEF IInv, TypeOK
<1>2. PICK o \in Closings(tunnels, Held(forwards[id])) :
        IF o.ok = Held(forwards[id])
        THEN tunnels' = Minus(tunnels, o) /\ Mutated(Without(forwards, {id}))
        ELSE Failed(Minus(tunnels, o))
  BY DEF Remove
<1>3. phase = "idle" /\ next' = next /\ Minus(tunnels, o) \in SUBSET Tunnels
  BY <1>1, ClosingsType DEF Remove, Request
<1>4. CASE Failed(Minus(tunnels, o))
  BY <1>3, <1>4, FailedInv
<1>5. CASE tunnels' = Minus(tunnels, o) /\ Mutated(Without(forwards, {id}))
  <2> DEFINE G == Without(forwards, {id})
  <2>1. G \in Registries /\ DOMAIN G \subseteq 1..next
    BY <1>1, WithoutShape
  <2>2. Compatible(G, G) /\ Compatible(G, forwards)
    BY <1>1, WithoutCompatible
  <2>3. next' \in Nat /\ next <= next' /\ next' <= MaxNext /\ DOMAIN G \subseteq 1..next'
    BY <1>1, <1>3, <2>1
  <2>4. Mutated(G) /\ tunnels' \in SUBSET Tunnels
    BY <1>3, <1>5
  <2> HIDE DEF G
  <2> QED BY <1>3, <2>1, <2>2, <2>3, <2>4, MutatedInv
<1> QED BY <1>2, <1>4, <1>5

LEMMA DisableInv ==
    ASSUME IInv, NEW id, Disable(id)
    PROVE  IInv'
<1> DEFINE f == forwards[id]
           g == SetFlag(f, FALSE)
<1>1. forwards \in Registries /\ tunnels \in SUBSET Tunnels
  BY DEF IInv, TypeOK
<1>2. id \in DOMAIN forwards /\ phase = "idle" /\ next' = next
  BY DEF Disable, Request, Enabled
<1>3. PICK o \in Closings(tunnels, Held(f)) :
        IF o.ok = Held(f)
        THEN tunnels' = Minus(tunnels, o) /\ Mutated(Extend(forwards, id, g))
        ELSE Failed(Minus(tunnels, o))
  BY DEF Disable
<1>4. f \in Forward
  BY <1>1, <1>2, Shape
<1>5. g \in Forward /\ g.ep = f.ep /\ ~g.enabled
  BY <1>4 DEF SetFlag, Forward
<1>6. Minus(tunnels, o) \in SUBSET Tunnels
  BY <1>1, ClosingsType
<1> HIDE DEF g
<1>7. CASE Failed(Minus(tunnels, o))
  BY <1>2, <1>6, <1>7, FailedInv
<1>8. CASE tunnels' = Minus(tunnels, o) /\ Mutated(Extend(forwards, id, g))
  BY <1>2, <1>5, <1>6, <1>8, ReplaceInv
<1> QED BY <1>3, <1>7, <1>8

LEMMA EnableInv ==
    ASSUME IInv, NEW id, Enable(id)
    PROVE  IInv'
<1>1. forwards \in Registries /\ tunnels \in SUBSET Tunnels
  BY DEF IInv, TypeOK
<1>2. id \in DOMAIN forwards /\ phase = "idle" /\ next' = next
  BY DEF Enable, Request
<1>3. PICK p \in Ports :
        /\ Available(forwards, tunnels, forwards[id].local, id, p)
        /\ LET f == SetFlag(SetLocal(forwards[id], p), TRUE)
           IN  \E o \in Openings(tunnels, {Tunnel(f)}) :
                IF o.ok = {}
                THEN Failed(Plus(tunnels, o))
                ELSE tunnels' = Plus(tunnels, o) /\ Mutated(Extend(forwards, id, f))
  BY DEF Enable
<1> DEFINE f == SetFlag(SetLocal(forwards[id], p), TRUE)
<1>4. PICK o \in Openings(tunnels, {Tunnel(f)}) :
            IF o.ok = {}
            THEN Failed(Plus(tunnels, o))
            ELSE tunnels' = Plus(tunnels, o) /\ Mutated(Extend(forwards, id, f))
  BY <1>3
<1>5. f \in Forward /\ f.ep = forwards[id].ep /\ f.local = p
  <2>1. forwards[id] \in Forward
    BY <1>1, <1>2, Shape
  <2> QED BY <2>1 DEF SetFlag, SetLocal, Forward
<1>6. Plus(tunnels, o) \in SUBSET Tunnels
  BY <1>1, <1>5, TunnelType, OpeningsType
<1>7. \A i \in Enabled(forwards) \ {id} : forwards[i].local # p
  BY <1>3, AvailablePort
<1> HIDE DEF f
<1>8. CASE Failed(Plus(tunnels, o))
  BY <1>2, <1>6, <1>8, FailedInv
<1>9. CASE tunnels' = Plus(tunnels, o) /\ Mutated(Extend(forwards, id, f))
  BY <1>2, <1>5, <1>6, <1>7, <1>9, ReplaceInv
<1> QED BY <1>4, <1>8, <1>9

LEMMA RemapPausedInv ==
    ASSUME IInv, NEW id, NEW p \in 0..MaxPort, RemapPaused(id, p)
    PROVE  IInv'
<1> DEFINE g == SetLocal(forwards[id], p)
<1>1. /\ id \in DOMAIN forwards /\ phase = "idle" /\ next' = next /\ tunnels' = tunnels
      /\ p \in Ports
  BY PortAssumption DEF RemapPaused, Request, PortRefused, Ports
<1>2. forwards[id] \in Forward /\ ~forwards[id].enabled /\ tunnels \in SUBSET Tunnels
  BY <1>1, Shape DEF IInv, TypeOK, RemapPaused, Enabled
<1>3. g \in Forward /\ g.ep = forwards[id].ep /\ ~g.enabled
  BY <1>1, <1>2 DEF SetLocal, Forward
<1>4. Mutated(Extend(forwards, id, g))
  BY DEF RemapPaused
<1> HIDE DEF g
<1> QED BY <1>1, <1>2, <1>3, <1>4, ReplaceInv

LEMMA RemapEnabledInv ==
    ASSUME IInv, NEW id, NEW p \in 0..MaxPort, RemapEnabled(id, p)
    PROVE  IInv'
<1> DEFINE f == forwards[id]
           g == SetLocal(f, p)
<1>1. /\ id \in DOMAIN forwards /\ phase = "idle" /\ next' = next /\ f.enabled
      /\ p \in Ports /\ \A i \in Enabled(forwards) \ {id} : forwards[i].local # p
  BY PortAssumption DEF RemapEnabled, Request, PortRefused, Ports, Enabled
<1>2. f \in Forward /\ tunnels \in SUBSET Tunnels /\ Compatible(forwards, forwards)
  BY <1>1, Shape DEF IInv, TypeOK
<1>3. g \in Forward /\ g.ep = f.ep /\ g.local = p
  BY <1>1, <1>2 DEF SetLocal, Forward
<1>4. PICK c \in Closings(tunnels, {Tunnel(f)}) :
        IF c.ok = {}
        THEN tunnels' = Minus(tunnels, c) /\ Mutated(forwards)
        ELSE \E o \in Openings(Minus(tunnels, c), {Tunnel(g)}) :
             LET T == Plus(Minus(tunnels, c), o)
             IN  IF o.ok # {}
                 THEN tunnels' = T /\ Mutated(Extend(forwards, id, g))
                 ELSE \E r \in Openings(T, {Tunnel(f)}) :
                        /\ tunnels' = Plus(T, r)
                        /\ Mutated(Extend(forwards, id, AfterRemap(f, r.ok # {})))
  BY DEF RemapEnabled
<1> HIDE DEF g
<1>5. Minus(tunnels, c) \in SUBSET Tunnels
  BY <1>2, ClosingsType
<1>6. CASE c.ok = {}
  <2>1. forwards = Extend(forwards, id, f)
    BY <1>1, Shape, ZenonT(60) DEF IInv, TypeOK, Extend
  <2>2. \A i \in Enabled(forwards) \ {id} : forwards[i].local # f.local
    BY <1>1, <1>2 DEF Compatible, Enabled
  <2>3. tunnels' \in SUBSET Tunnels /\ Mutated(Extend(forwards, id, f))
    BY <1>4, <1>5, <1>6, <2>1
  <2> QED BY <1>1, <1>2, <2>2, <2>3, ReplaceInv
<1>7. CASE c.ok # {}
  <2>1. PICK o \in Openings(Minus(tunnels, c), {Tunnel(g)}) :
          LET T == Plus(Minus(tunnels, c), o)
          IN  IF o.ok # {}
              THEN tunnels' = T /\ Mutated(Extend(forwards, id, g))
              ELSE \E r \in Openings(T, {Tunnel(f)}) :
                     /\ tunnels' = Plus(T, r)
                     /\ Mutated(Extend(forwards, id, AfterRemap(f, r.ok # {})))
    BY <1>4, <1>7
  <2> DEFINE T == Plus(Minus(tunnels, c), o)
  <2>2. T \in SUBSET Tunnels
    BY <1>3, <1>5, <2>1, TunnelType, OpeningsType
  <2>3. CASE o.ok # {}
    <3>1. tunnels' \in SUBSET Tunnels /\ Mutated(Extend(forwards, id, g))
      BY <2>1, <2>2, <2>3
    <3>2. \A i \in Enabled(forwards) \ {id} : forwards[i].local # g.local
      BY <1>1, <1>3
    <3> QED BY <1>1, <1>3, <3>1, <3>2, ReplaceInv
  <2>4. CASE o.ok = {}
    <3>1. PICK r \in Openings(T, {Tunnel(f)}) :
            tunnels' = Plus(T, r) /\ Mutated(Extend(forwards, id, AfterRemap(f, r.ok # {})))
      BY <2>1, <2>4
    <3> DEFINE h == AfterRemap(f, r.ok # {})
    <3>2. h \in Forward /\ h.ep = f.ep /\ h.local = f.local
      BY <1>2 DEF AfterRemap, SetFlag, Forward
    <3>3. \A i \in Enabled(forwards) \ {id} : forwards[i].local # h.local
      BY <1>1, <1>2, <3>2 DEF Compatible, Enabled
    <3>4. tunnels' \in SUBSET Tunnels /\ Mutated(Extend(forwards, id, h))
      BY <1>2, <2>2, <3>1, TunnelType, OpeningsType
    <3> HIDE DEF h
    <3> QED BY <1>1, <3>2, <3>3, <3>4, ReplaceInv
  <2> QED BY <2>3, <2>4
<1> QED BY <1>6, <1>7

LEMMA CommitInv == IInv /\ Commit => IInv'
<1> SUFFICES ASSUME IInv, Commit PROVE IInv'
  OBVIOUS
<1>1. TypeOK'
  BY Empty DEF IInv, TypeOK, Commit, env
<1>2. DOMAIN saved' \subseteq 1..next' /\ saved' = NoForwards
  BY Empty DEF Commit
<1>3. ReplayInv'
  BY DEF ReplayInv, Commit
<1> QED BY <1>1, <1>2, <1>3, Empty DEF IInv, Commit

\* What a rollback leaves under an identifier is the current forward, at most disabled,
\* or the forward of the snapshot.
LEMMA RollbackInv == IInv /\ Rollback => IInv'
<1> SUFFICES ASSUME IInv, Rollback PROVE IInv'
  OBVIOUS
<1>1. /\ forwards \in Registries /\ saved \in Registries /\ tunnels \in SUBSET Tunnels
      /\ DOMAIN forwards \subseteq 1..next /\ DOMAIN saved \subseteq 1..next
      /\ Compatible(forwards, forwards) /\ Compatible(saved, saved)
      /\ Compatible(forwards, saved)
  BY DEF IInv, TypeOK
<1> DEFINE toCancel == NotCarried(forwards, saved)
           toOpen == NotCarried(saved, forwards)
<1>2. /\ toCancel \subseteq DOMAIN forwards /\ toOpen \subseteq DOMAIN saved
      /\ {Tunnel(saved[i]) : i \in toOpen} \in SUBSET Tunnels
  <2>1. toCancel \subseteq DOMAIN forwards /\ toOpen \subseteq DOMAIN saved
    BY DEF NotCarried, Enabled
  <2>2. \A i \in toOpen : Tunnel(saved[i]) \in Tunnels
    BY <1>1, <2>1, Shape, TunnelType
  <2> QED BY <2>1, <2>2
<1>3. PICK c \in Closings(tunnels, {Tunnel(forwards[i]) : i \in toCancel}) :
      \E o \in Openings(Minus(tunnels, c), {Tunnel(saved[i]) : i \in toOpen}) :
        LET cancelled == {i \in toCancel : Tunnel(forwards[i]) \in c.ok}
            reopened == {i \in toOpen : Tunnel(saved[i]) \in o.ok}
        IN  /\ tunnels' = Plus(Minus(tunnels, c), o)
            /\ forwards' =
                IF cancelled = toCancel /\ reopened = toOpen
                THEN saved
                ELSE [i \in DOMAIN forwards \cup reopened |->
                        IF i \in reopened THEN saved[i]
                        ELSE IF i \in cancelled THEN SetFlag(forwards[i], FALSE)
                        ELSE forwards[i]]
  BY DEF Rollback
<1>4. PICK o \in Openings(Minus(tunnels, c), {Tunnel(saved[i]) : i \in toOpen}) :
        LET cancelled == {i \in toCancel : Tunnel(forwards[i]) \in c.ok}
            reopened == {i \in toOpen : Tunnel(saved[i]) \in o.ok}
        IN  /\ tunnels' = Plus(Minus(tunnels, c), o)
            /\ forwards' =
                IF cancelled = toCancel /\ reopened = toOpen
                THEN saved
                ELSE [i \in DOMAIN forwards \cup reopened |->
                        IF i \in reopened THEN saved[i]
                        ELSE IF i \in cancelled THEN SetFlag(forwards[i], FALSE)
                        ELSE forwards[i]]
  BY <1>3
<1> DEFINE cancelled == {i \in toCancel : Tunnel(forwards[i]) \in c.ok}
           reopened == {i \in toOpen : Tunnel(saved[i]) \in o.ok}
<1>5. tunnels' \in SUBSET Tunnels
  BY <1>1, <1>2, <1>4, ClosingsType, OpeningsType
<1>6. reopened \subseteq DOMAIN saved /\ cancelled \subseteq DOMAIN forwards
  BY <1>2
<1>7. \/ forwards' = saved
      \/ forwards' = [i \in DOMAIN forwards \cup reopened |->
                        IF i \in reopened THEN saved[i]
                        ELSE IF i \in cancelled THEN SetFlag(forwards[i], FALSE)
                        ELSE forwards[i]]
  BY <1>4
<1> HIDE DEF cancelled, reopened
<1> DEFINE From(i) ==
            \/ i \in DOMAIN saved /\ forwards'[i] = saved[i]
            \/ /\ i \in DOMAIN forwards
               /\ forwards'[i] \in Forward
               /\ forwards'[i].ep = forwards[i].ep
               /\ forwards'[i].enabled =>
                    forwards[i].enabled /\ forwards'[i].local = forwards[i].local
<1>8. /\ DOMAIN forwards' \subseteq DOMAIN forwards \cup DOMAIN saved
      /\ forwards' = [i \in DOMAIN forwards' |-> forwards'[i]]
      /\ \A i \in DOMAIN forwards' : From(i)
  <2>1. CASE forwards' = saved
    BY <1>1, <2>1, Shape
  <2>2. CASE forwards' = [i \in DOMAIN forwards \cup reopened |->
                        IF i \in reopened THEN saved[i]
                        ELSE IF i \in cancelled THEN SetFlag(forwards[i], FALSE)
                        ELSE forwards[i]]
    <3>1. DOMAIN forwards' = DOMAIN forwards \cup reopened
      BY <2>2
    <3>2. ASSUME NEW i \in DOMAIN forwards' PROVE From(i)
      <4>1. CASE i \in reopened
        BY <1>6, <2>2, <3>1, <4>1
      <4>2. CASE i \notin reopened /\ i \in cancelled
        <5>1. i \in DOMAIN forwards /\ forwards[i] \in Forward
          BY <1>1, <1>6, <4>2, Shape
        <5>2. forwards'[i] = SetFlag(forwards[i], FALSE)
          BY <2>2, <3>1, <4>2
        <5> QED BY <5>1, <5>2 DEF SetFlag, Forward
      <4>3. CASE i \notin reopened /\ i \notin cancelled
        <5>1. i \in DOMAIN forwards /\ forwards[i] \in Forward
          BY <1>1, <3>1, <4>3, Shape
        <5>2. forwards'[i] = forwards[i]
          BY <2>2, <3>1, <4>3
        <5> QED BY <5>1, <5>2
      <4> QED BY <4>1, <4>2, <4>3
    <3> QED BY <1>6, <2>2, <3>1, <3>2
  <2> QED BY <1>7, <2>1, <2>2
<1>9. forwards' \in Registries
  <2>1. DOMAIN forwards' \in SUBSET Ids
    BY <1>1, <1>8, Shape
  <2>2. \A i \in DOMAIN forwards' : forwards'[i] \in Forward
    BY <1>1, <1>8, Shape
  <2>3. forwards' \in [DOMAIN forwards' -> Forward]
    BY <1>8, <2>2
  <2> QED BY <2>1, <2>3, IsRegistry
<1>10. Compatible(forwards', forwards')
  BY <1>1, <1>8 DEF Compatible
<1>11. TypeOK' /\ saved' = NoForwards /\ phase' # "replay"
  BY <1>5, <1>9, Empty DEF IInv, TypeOK, Rollback, env
<1>12. DOMAIN forwards' \subseteq 1..next' /\ DOMAIN saved' \subseteq 1..next'
  BY <1>1, <1>8, <1>11, Empty DEF Rollback
<1>13. ReplayInv'
  BY <1>11 DEF ReplayInv
<1> QED BY <1>10, <1>11, <1>12, <1>13, Empty DEF IInv

LEMMA ReplayBeginInv == IInv /\ ReplayBegin => IInv'
<1> SUFFICES ASSUME IInv, ReplayBegin PROVE IInv'
  OBVIOUS
<1>1. forwards \in Registries /\ Enabled(forwards) \in SUBSET Ids
  BY Shape DEF IInv, TypeOK, Enabled
<1>2. replay' = [todo |-> Enabled(forwards), restored |-> forwards, opened |-> {}]
  BY DEF ReplayBegin, ToReplay
<1>3. TypeOK'
  BY <1>1, <1>2 DEF IInv, TypeOK, ReplayBegin, env
<1>4. ReplayInv'
  BY <1>2 DEF ReplayInv, ReplayBegin, env, Enabled
<1> QED BY <1>3, <1>4 DEF IInv, ReplayBegin

\* The port of a reopened tunnel is not that of one reopened before: all of them are
\* still there, or the master is gone and nothing can be opened.
LEMMA ReplayOpenInv ==
    ASSUME IInv, NEW id, ReplayOpen(id)
    PROVE  IInv'
<1>1. PICK p \in Ports :
        /\ Available(forwards, tunnels, forwards[id].local, id, p)
        /\ LET f == SetLocal(forwards[id], p)
           IN  \E o \in Openings(tunnels, {Tunnel(f)}) :
                /\ o.ok # {}
                /\ tunnels' = Plus(tunnels, o)
                /\ replay' = [todo |-> replay.todo \ {id},
                              restored |-> Extend(replay.restored, id, f),
                              opened |-> replay.opened \cup {Tunnel(f)}]
  BY DEF ReplayOpen
<1> DEFINE f == SetLocal(forwards[id], p)
           E == Extend(replay.restored, id, f)
<1>2. PICK o \in Openings(tunnels, {Tunnel(f)}) :
        /\ o.ok # {}
        /\ tunnels' = Plus(tunnels, o)
        /\ replay' = [todo |-> replay.todo \ {id}, restored |-> E,
                      opened |-> replay.opened \cup {Tunnel(f)}]
  BY <1>1
<1>3. /\ forwards \in Registries /\ tunnels \in SUBSET Tunnels
      /\ replay.restored \in Registries /\ replay.todo \in SUBSET Ids
      /\ replay.opened \in SUBSET Tunnels
  BY DEF IInv, TypeOK
<1>4. /\ id \in replay.todo /\ id \in Enabled(forwards) /\ id \in DOMAIN forwards
      /\ forwards[id].enabled /\ id \in Ids /\ DOMAIN replay.restored = DOMAIN forwards
  BY <1>3 DEF ReplayOpen, IInv, ReplayInv, Enabled
<1>5. f \in Forward /\ f.ep = forwards[id].ep /\ f.local = p /\ f.enabled
  <2>1. forwards[id] \in Forward
    BY <1>3, <1>4, Shape
  <2> QED BY <1>4, <2>1 DEF SetLocal, Forward
<1> HIDE DEF f
<1>6. /\ E \in Registries /\ DOMAIN E = DOMAIN forwards /\ E[id] = f
      /\ \A j \in DOMAIN forwards \ {id} : E[j] = replay.restored[j]
  <2> DEFINE R == replay.restored
  <2>1. R \in Registries /\ id \in Ids /\ f \in Forward /\ DOMAIN R = DOMAIN forwards
    BY <1>3, <1>4, <1>5
  <2> HIDE DEF R
  <2>2. /\ Extend(R, id, f) \in Registries
        /\ DOMAIN Extend(R, id, f) = DOMAIN R \cup {id}
        /\ Extend(R, id, f)[id] = f
        /\ \A j \in DOMAIN R : j # id => Extend(R, id, f)[j] = R[j]
    BY <2>1, ExtendShape
  <2>3. DOMAIN R \cup {id} = DOMAIN forwards
    BY <1>4, <2>1
  <2>4. E = Extend(R, id, f)
    BY DEF R
  <2> HIDE DEF E
  <2>5. \A j \in DOMAIN forwards \ {id} : E[j] = R[j]
    BY <2>1, <2>2, <2>4
  <2> QED BY <2>2, <2>3, <2>4, <2>5 DEF R
<1> HIDE DEF E
<1>7. Alive /\ Tunnel(f) \in tunnels' /\ tunnels \subseteq tunnels'
  BY <1>2 DEF Openings, Plus
<1>8. tunnels' \in SUBSET Tunnels
  BY <1>2, <1>3, <1>5, TunnelType, OpeningsType
<1>9. TypeOK'
  <2>1. Tunnel(f) \in Tunnels
    BY <1>5, TunnelType
  <2>2. replay' \in [todo : SUBSET Ids, restored : Registries, opened : SUBSET Tunnels]
    BY <1>2, <1>3, <1>6, <2>1
  <2> QED BY <1>8, <2>2 DEF IInv, TypeOK, ReplayOpen, env
<1>10. \A i \in Enabled(forwards) \ replay.todo : replay.restored[i].local # p
  <2>1. ASSUME NEW i \in Enabled(forwards) \ replay.todo
        PROVE  replay.restored[i].local # p
    <3>1. Tunnel(replay.restored[i]) \in tunnels
      BY <1>7 DEF ReplayOpen, IInv, ReplayInv
    <3>2. Free(tunnels, p)
      BY <1>1, AvailablePort
    <3> QED BY <3>1, <3>2 DEF Free, Tunnel
  <2> QED BY <2>1
<1>11. ReplayInv'
  <2>1. /\ phase = "replay" /\ phase' = phase /\ forwards' = forwards /\ link' = link
        /\ link \in {"fresh", "down"}
    BY DEF ReplayOpen, env, IInv, ReplayInv
  <2>2. replay'.todo = replay.todo \ {id} /\ replay'.restored = E
    BY <1>2
  <2>3. replay'.todo \subseteq Enabled(forwards)
    BY <2>1, <2>2 DEF IInv, ReplayInv
  <2>4. \A i \in DOMAIN forwards :
            /\ E[i].ep = forwards[i].ep
            /\ E[i].enabled = forwards[i].enabled
            /\ i \notin Enabled(forwards) => E[i] = forwards[i]
    BY <1>4, <1>5, <1>6, <2>1 DEF IInv, ReplayInv
  <2>5. \A i \in Enabled(forwards) \ replay'.todo : Tunnel(E[i]) \in tunnels'
    BY <1>6, <1>7, <2>1, <2>2 DEF IInv, ReplayInv, Enabled
  <2>6. \A i, j \in Enabled(forwards) \ replay'.todo : i # j => E[i].local # E[j].local
    BY <1>5, <1>6, <1>10, <2>1, <2>2 DEF IInv, ReplayInv, Enabled
  <2> QED BY <1>6, <2>1, <2>2, <2>3, <2>4, <2>5, <2>6 DEF ReplayInv, Enabled
<1> QED BY <1>9, <1>11 DEF IInv, ReplayOpen

LEMMA ReplayFailInv == IInv /\ ReplayFail => IInv'
<1> SUFFICES ASSUME IInv, ReplayFail PROVE IInv'
  OBVIOUS
<1>1. tunnels' \in SUBSET Tunnels
  <2>1. PICK id \in replay.todo, p \in Ports :
        \E o \in Openings(tunnels, {<<p, forwards[id].ep>>}) :
        \E c \in Closings(Plus(tunnels, o), replay.opened) :
            tunnels' = Minus(Plus(tunnels, o), c)
    BY DEF ReplayFail
  <2>2. PICK o \in Openings(tunnels, {<<p, forwards[id].ep>>}) :
        \E c \in Closings(Plus(tunnels, o), replay.opened) :
            tunnels' = Minus(Plus(tunnels, o), c)
    BY <2>1
  <2>3. id \in DOMAIN forwards /\ forwards[id] \in Forward
    BY Shape DEF ReplayFail, IInv, TypeOK, ReplayInv, Enabled
  <2>4. {<<p, forwards[id].ep>>} \in SUBSET Tunnels /\ tunnels \in SUBSET Tunnels
    BY <2>3 DEF Tunnels, Forward, IInv, TypeOK
  <2>5. Plus(tunnels, o) \in SUBSET Tunnels
    BY <2>2, <2>4, OpeningsType
  <2> QED BY <2>2, <2>5, ClosingsType
<1>2. NoReplay \in [todo : SUBSET Ids, restored : Registries, opened : SUBSET Tunnels]
  BY Empty DEF NoReplay
<1>3. TypeOK'
  BY <1>1, <1>2 DEF IInv, TypeOK, ReplayFail
<1>4. ReplayInv'
  BY DEF ReplayInv, ReplayFail
<1> QED BY <1>3, <1>4 DEF IInv, ReplayFail

LEMMA ReplayDoneInv == IInv /\ ReplayDone => IInv'
<1> SUFFICES ASSUME IInv, ReplayDone PROVE IInv'
  OBVIOUS
<1>1. NoReplay \in [todo : SUBSET Ids, restored : Registries, opened : SUBSET Tunnels]
  BY Empty DEF NoReplay
<1>2. TypeOK'
  BY <1>1 DEF IInv, TypeOK, ReplayDone
<1>3. DOMAIN forwards' = DOMAIN forwards /\ saved' = NoForwards /\ next' = next
  BY DEF ReplayDone, IInv, ReplayInv
<1>4. Compatible(forwards', forwards')
  <2>1. \A i \in DOMAIN forwards :
            forwards'[i].ep = forwards[i].ep /\ forwards'[i].enabled = forwards[i].enabled
    BY DEF ReplayDone, IInv, ReplayInv
  <2>2. \A i, j \in Enabled(forwards) : i # j => forwards'[i].local # forwards'[j].local
    BY DEF ReplayDone, IInv, ReplayInv
  <2> QED BY <1>3, <2>1, <2>2 DEF Compatible, Enabled, IInv
<1>5. ReplayInv'
  BY DEF ReplayInv, ReplayDone
<1> QED BY <1>2, <1>3, <1>4, <1>5, Empty DEF IInv, ReplayDone

LEMMA CloseAllInv == IInv /\ CloseAll => IInv'
<1> SUFFICES ASSUME IInv, CloseAll PROVE IInv'
  OBVIOUS
<1>1. PICK o \in Closings(tunnels, Carried(forwards)) :
        /\ tunnels' = Minus(tunnels, o)
        /\ forwards' = Without(forwards, {i \in DOMAIN forwards :
                forwards[i].enabled => Tunnel(forwards[i]) \in o.ok})
  BY DEF CloseAll
<1>2. /\ forwards \in Registries /\ tunnels \in SUBSET Tunnels
      /\ Compatible(forwards, forwards) /\ saved = NoForwards /\ saved' = saved
  BY DEF IInv, TypeOK, CloseAll
<1>3. /\ forwards' \in Registries /\ DOMAIN forwards' \subseteq DOMAIN forwards
      /\ Compatible(forwards', forwards')
  BY <1>1, <1>2, WithoutShape, WithoutCompatible
<1>4. TypeOK'
  BY <1>1, <1>2, <1>3, ClosingsType DEF IInv, TypeOK, CloseAll, env
<1>5. ReplayInv'
  BY DEF ReplayInv, CloseAll
<1> QED BY <1>2, <1>3, <1>4, <1>5, Empty DEF IInv, CloseAll

\* Neither the environment nor a stuttering step touches the registry.
LEMMA EnvironmentInv ==
    ASSUME IInv,
           \/ LinkLost \/ Reconnected
           \/ \E p \in Ports : PortTaken(p) \/ PortReleased(p)
           \/ UNCHANGED vars
    PROVE  IInv'
<1>1. UNCHANGED <<forwards, next, saved, phase, replay>>
  BY DEF LinkLost, Reconnected, PortTaken, PortReleased, vars
<1>2. TypeOK'
  BY <1>1 DEF IInv, TypeOK, LinkLost, Reconnected, PortTaken, PortReleased, vars
<1>3. ReplayInv'
  BY <1>1 DEF IInv, ReplayInv, Alive, LinkLost, Reconnected, PortTaken, PortReleased, vars
<1> QED BY <1>1, <1>2, <1>3 DEF IInv

LEMMA StepInv == IInv /\ [Next]_vars => IInv'
<1> SUFFICES ASSUME IInv, [Next]_vars PROVE IInv'
  OBVIOUS
<1>1. CASE \E port \in RemotePorts, host \in RawHosts, preferred \in 0..MaxPort :
            Create(port, host, preferred)
  BY <1>1, CreateInv
<1>2. CASE NoChange \/ \E id \in Ids, p \in 0..MaxPort : RemapRefused(id, p)
  BY <1>2, NoMutationInv DEF NoChange, RemapRefused, Request
<1>3. CASE \E id \in Ids : EnableNoPort(id)
  BY <1>3, FailedInv DEF EnableNoPort, Request, IInv, TypeOK
<1>4. CASE \E id \in Ids : Remove(id) \/ Disable(id) \/ Enable(id)
  BY <1>4, RemoveInv, DisableInv, EnableInv
<1>5. CASE \E id \in Ids, p \in 0..MaxPort : RemapPaused(id, p) \/ RemapEnabled(id, p)
  BY <1>5, RemapPausedInv, RemapEnabledInv
<1>6. CASE Commit \/ Rollback
  BY <1>6, CommitInv, RollbackInv
<1>7. CASE ReplayBegin \/ ReplayFail \/ ReplayDone \/ \E id \in Ids : ReplayOpen(id)
  BY <1>7, ReplayBeginInv, ReplayOpenInv, ReplayFailInv, ReplayDoneInv
<1>8. CASE CloseAll
  BY <1>8, CloseAllInv
<1>9. CASE \/ LinkLost \/ Reconnected
           \/ \E p \in Ports : PortTaken(p) \/ PortReleased(p)
           \/ UNCHANGED vars
  BY <1>9, EnvironmentInv
<1> QED BY <1>1, <1>2, <1>3, <1>4, <1>5, <1>6, <1>7, <1>8, <1>9 DEF Next

\* Every operation, rollback and replay of the registry keeps the invariant that the
\* theorems below rest on.
THEOREM Invariance == Spec => []IInv
BY InitInv, StepInv, PTL DEF Spec

\* The variables keep to their types.
THEOREM TypeCorrect == Spec => []TypeOK
<1>1. IInv => TypeOK
  BY DEF IInv
<1> QED BY <1>1, Invariance, PTL

\* However requests, failures, rollbacks and recoveries interleave, an endpoint has
\* one forward and an enabled forward has a local port of its own.
THEOREM Uniqueness == Spec => []Unique
<1>1. IInv => Unique
  BY DEF IInv, Compatible, Unique, OnePerEndpoint, EnabledPortsDistinct, Enabled
<1> QED BY <1>1, Invariance, PTL

-----------------------------------------------------------------------------
(* Identifiers.                                                            *)

StableStep ==
    /\ \A i \in DOMAIN forwards \cap DOMAIN forwards' : forwards'[i].ep = forwards[i].ep
    /\ \A i \in DOMAIN forwards' \ DOMAIN forwards : i > next \/ i \in DOMAIN saved

LEMMA UntouchedIsStable == forwards' = forwards => StableStep
BY DEF StableStep

LEMMA AddedIsStable ==
    ASSUME IInv, NEW f \in Forward, next < MaxNext, Mutated(Extend(forwards, NewId, f))
    PROVE  StableStep
<1>1. forwards \in Registries /\ next \in Nat /\ DOMAIN forwards \subseteq 1..next
  BY LimitAssumption DEF IInv, TypeOK
<1>2. NewId \in Ids /\ NewId > next /\ NewId \notin DOMAIN forwards
  BY <1>1, LimitAssumption DEF NewId, Ids
<1> DEFINE G == Extend(forwards, NewId, f)
<1>3. DOMAIN G = DOMAIN forwards \cup {NewId} /\ \A i \in DOMAIN forwards : G[i] = forwards[i]
  BY <1>1, <1>2, ExtendShape
<1>4. forwards' = G
  BY DEF Mutated
<1> HIDE DEF G
<1> QED BY <1>2, <1>3, <1>4 DEF StableStep

LEMMA ReplacedIsStable ==
    ASSUME IInv, NEW id \in DOMAIN forwards, NEW f \in Forward, f.ep = forwards[id].ep,
           Mutated(Extend(forwards, id, f))
    PROVE  StableStep
<1>1. forwards \in Registries /\ id \in Ids
  BY Shape DEF IInv, TypeOK
<1>2. /\ DOMAIN forwards' = DOMAIN forwards \cup {id} /\ forwards'[id] = f
      /\ \A i \in DOMAIN forwards \ {id} : forwards'[i] = forwards[i]
  BY <1>1, ExtendShape DEF Mutated
<1> QED BY <1>2 DEF StableStep

LEMMA ShrunkIsStable ==
    ASSUME IInv, NEW S, forwards' = Without(forwards, S)
    PROVE  StableStep
<1> DEFINE G == Without(forwards, S)
<1>1. DOMAIN G = DOMAIN forwards \ S /\ \A i \in DOMAIN G : G[i] = forwards[i]
  <2>1. forwards \in Registries
    BY DEF IInv, TypeOK
  <2> QED BY <2>1, WithoutShape
<1>2. forwards' = G
  OBVIOUS
<1> HIDE DEF G
<1> QED BY <1>1, <1>2 DEF StableStep

LEMMA CreateIsStable ==
    ASSUME IInv, NEW port \in RemotePorts, NEW host, NEW preferred \in 0..MaxPort,
           Create(port, host, preferred)
    PROVE  StableStep
<1> DEFINE ep == <<port, Normal(host)>>
           start == IF preferred = 0 THEN port ELSE preferred
<1>1. CASE CreateKnown(ep) \/ CreateRejected(ep) \/ CreateNoPort(ep, start)
  BY <1>1, UntouchedIsStable DEF CreateKnown, CreateRejected, CreateNoPort, Mutated, Failed
<1>2. ep \in Endpoints /\ start \in Ports
  BY NormalType, PortAssumption DEF Ports
<1>3. CASE CreatePaused(ep, start)
  <2>1. [ep |-> ep, local |-> start, enabled |-> FALSE] \in Forward
    BY <1>2 DEF Forward
  <2> QED BY <1>3, <2>1, AddedIsStable DEF CreatePaused
<1>4. CASE CreateEnabled(ep, start)
  <2>1. \A p \in Ports : [ep |-> ep, local |-> p, enabled |-> TRUE] \in Forward
    BY <1>2 DEF Forward
  <2>2. next < MaxNext
    BY <1>4 DEF CreateEnabled
  <2>3. \/ \E p \in Ports : Mutated(Extend(forwards, NewId, [ep |-> ep, local |-> p, enabled |-> TRUE]))
        \/ forwards' = forwards
    BY <1>4 DEF CreateEnabled, Failed
  <2> QED BY <2>1, <2>2, <2>3, AddedIsStable, UntouchedIsStable
<1> QED BY <1>1, <1>3, <1>4 DEF Create

LEMMA ChangeIsStable ==
    ASSUME IInv, NEW id, Remove(id) \/ Disable(id) \/ Enable(id)
    PROVE  StableStep
<1>1. id \in DOMAIN forwards /\ forwards[id] \in Forward /\ forwards \in Registries
  BY Shape DEF IInv, TypeOK, Remove, Disable, Enable, Enabled
<1>2. CASE Remove(id)
  <2>1. forwards' = forwards \/ forwards' = Without(forwards, {id})
    BY <1>2 DEF Remove, Failed, Mutated
  <2> QED BY <2>1, UntouchedIsStable, ShrunkIsStable
<1>3. CASE Disable(id)
  <2>1. forwards' = forwards \/ Mutated(Extend(forwards, id, SetFlag(forwards[id], FALSE)))
    BY <1>3 DEF Disable, Failed
  <2>2. /\ SetFlag(forwards[id], FALSE) \in Forward
        /\ SetFlag(forwards[id], FALSE).ep = forwards[id].ep
    BY <1>1 DEF SetFlag, Forward
  <2> QED BY <1>1, <2>1, <2>2, UntouchedIsStable, ReplacedIsStable
<1>4. CASE Enable(id)
  <2>1. \/ forwards' = forwards
        \/ \E p \in Ports : Mutated(Extend(forwards, id, SetFlag(SetLocal(forwards[id], p), TRUE)))
    BY <1>4 DEF Enable, Failed
  <2>2. ASSUME NEW p \in Ports
        PROVE  LET f == SetFlag(SetLocal(forwards[id], p), TRUE)
               IN  f \in Forward /\ f.ep = forwards[id].ep
    BY <1>1 DEF SetFlag, SetLocal, Forward
  <2> QED BY <1>1, <2>1, <2>2, UntouchedIsStable, ReplacedIsStable
<1> QED BY <1>2, <1>3, <1>4

LEMMA RemapIsStable ==
    ASSUME IInv, NEW id, NEW p \in 0..MaxPort, RemapPaused(id, p) \/ RemapEnabled(id, p)
    PROVE  StableStep
<1>1. id \in DOMAIN forwards /\ forwards[id] \in Forward /\ p \in Ports
  BY PortAssumption, Shape
     DEF IInv, TypeOK, RemapPaused, RemapEnabled, Enabled, PortRefused, Ports
<1>2. \A b \in BOOLEAN : /\ AfterRemap(forwards[id], b) \in Forward
                        /\ AfterRemap(forwards[id], b).ep = forwards[id].ep
  BY <1>1 DEF AfterRemap, SetFlag, Forward
<1>3. SetLocal(forwards[id], p) \in Forward /\ SetLocal(forwards[id], p).ep = forwards[id].ep
  BY <1>1 DEF SetLocal, Forward
<1>4. \/ Mutated(forwards)
      \/ Mutated(Extend(forwards, id, SetLocal(forwards[id], p)))
      \/ \E b \in BOOLEAN : Mutated(Extend(forwards, id, AfterRemap(forwards[id], b)))
  BY DEF RemapPaused, RemapEnabled
<1>5. Mutated(forwards) => StableStep
  BY UntouchedIsStable DEF Mutated
<1> QED BY <1>1, <1>2, <1>3, <1>4, <1>5, ReplacedIsStable

LEMMA RollbackIsStable == IInv /\ Rollback => StableStep
<1> SUFFICES ASSUME IInv, Rollback PROVE StableStep
  OBVIOUS
<1>1. forwards \in Registries /\ saved \in Registries /\ Compatible(forwards, saved)
  BY DEF IInv, TypeOK
<1>2. \/ forwards' = saved
      \/ \E cancelled, reopened \in SUBSET Ids :
            /\ reopened \subseteq DOMAIN saved /\ cancelled \subseteq DOMAIN forwards
            /\ forwards' = [i \in DOMAIN forwards \cup reopened |->
                                IF i \in reopened THEN saved[i]
                                ELSE IF i \in cancelled THEN SetFlag(forwards[i], FALSE)
                                ELSE forwards[i]]
  <2>1. /\ NotCarried(forwards, saved) \subseteq DOMAIN forwards
        /\ NotCarried(saved, forwards) \subseteq DOMAIN saved
    BY DEF NotCarried, Enabled
  <2>2. DOMAIN forwards \subseteq Ids /\ DOMAIN saved \subseteq Ids
    BY <1>1, Shape
  <2> QED BY <2>1, <2>2, ZenonT(60) DEF Rollback
<1>3. \A i \in DOMAIN forwards : SetFlag(forwards[i], FALSE).ep = forwards[i].ep
  BY <1>1, Shape DEF SetFlag, Forward
<1>4. CASE forwards' = saved
  BY <1>1, <1>4 DEF StableStep, Compatible
<1>5. ASSUME NEW cancelled \in SUBSET Ids, NEW reopened \in SUBSET Ids,
             reopened \subseteq DOMAIN saved, cancelled \subseteq DOMAIN forwards,
             forwards' = [i \in DOMAIN forwards \cup reopened |->
                                IF i \in reopened THEN saved[i]
                                ELSE IF i \in cancelled THEN SetFlag(forwards[i], FALSE)
                                ELSE forwards[i]]
      PROVE  StableStep
  BY <1>1, <1>3, <1>5 DEF StableStep, Compatible
<1> QED BY <1>2, <1>4, <1>5

LEMMA StepIsStable == IInv /\ [Next]_vars => StableStep
<1> SUFFICES ASSUME IInv, [Next]_vars PROVE StableStep
  OBVIOUS
<1>1. CASE \E port \in RemotePorts, host \in RawHosts, preferred \in 0..MaxPort :
            Create(port, host, preferred)
  BY <1>1, CreateIsStable
<1>2. CASE \E id \in Ids : Remove(id) \/ Disable(id) \/ Enable(id)
  BY <1>2, ChangeIsStable
<1>3. CASE \E id \in Ids, p \in 0..MaxPort : RemapPaused(id, p) \/ RemapEnabled(id, p)
  BY <1>3, RemapIsStable
<1>4. CASE Rollback
  BY <1>4, RollbackIsStable
<1>5. CASE ReplayDone
  BY <1>5 DEF ReplayDone, IInv, ReplayInv, StableStep
<1>6. CASE CloseAll
  <2>1. \E S : forwards' = Without(forwards, S)
    BY <1>6 DEF CloseAll
  <2> QED BY <2>1, ShrunkIsStable
<1>7. CASE \/ NoChange \/ Commit \/ ReplayBegin \/ ReplayFail \/ LinkLost \/ Reconnected
           \/ (\E id \in Ids : EnableNoPort(id) \/ ReplayOpen(id))
           \/ (\E id \in Ids, p \in 0..MaxPort : RemapRefused(id, p))
           \/ (\E p \in Ports : PortTaken(p) \/ PortReleased(p))
           \/ UNCHANGED vars
  BY <1>7, UntouchedIsStable
     DEF NoChange, Commit, ReplayBegin, ReplayFail, LinkLost, Reconnected, EnableNoPort,
         ReplayOpen, RemapRefused, PortTaken, PortReleased, Mutated, Failed, vars
<1> QED BY <1>1, <1>2, <1>3, <1>4, <1>5, <1>6, <1>7 DEF Next

\* An identifier is never handed to another endpoint.
THEOREM Identity == Spec => StableIds
<1>1. IInv /\ [Next]_vars => [StableStep]_vars
  BY StepIsStable
<1> QED BY <1>1, Invariance, PTL DEF Spec, StableIds, StableStep

-----------------------------------------------------------------------------
(* Truthfulness, when a failed SSH call has no effect.                     *)

LEMMA CleanOpening ==
    ASSUME ~Ambiguous, NEW T, NEW t, NEW o \in Openings(T, {t})
    PROVE  /\ o.ok = {} => Plus(T, o) = T
           /\ o.ok # {} => Plus(T, o) = T \cup {t}
BY DEF Openings, Plus

LEMMA CleanClosing ==
    ASSUME ~Ambiguous, NEW T, NEW S, NEW o \in Closings(T, S)
    PROVE  Minus(T, o) = T \ o.ok /\ o.ok \subseteq S
BY DEF Closings, Minus

\* Setting an entry carries at most the tunnel of the new forward in addition.
LEMMA CarriedExtend ==
    ASSUME NEW F \in Registries, NEW k \in Ids, NEW f \in Forward
    PROVE  Carried(Extend(F, k, f)) \subseteq Carried(Without(F, {k})) \cup Held(f)
<1> DEFINE E == Extend(F, k, f)
           W == Without(F, {k})
<1>1. DOMAIN E = DOMAIN F \cup {k} /\ E[k] = f /\ \A j \in DOMAIN F : j # k => E[j] = F[j]
  BY ExtendShape
<1>2. DOMAIN W = DOMAIN F \ {k} /\ \A j \in DOMAIN W : W[j] = F[j]
  BY WithoutShape
<1> HIDE DEF E, W
<1>3. ASSUME NEW i \in Enabled(E) PROVE Tunnel(E[i]) \in Carried(W) \cup Held(f)
  <2>1. CASE i = k
    BY <1>1, <1>3, <2>1 DEF Held, Enabled
  <2>2. CASE i # k
    <3>1. i \in Enabled(W) /\ Tunnel(W[i]) = Tunnel(E[i])
      BY <1>1, <1>2, <1>3, <2>2 DEF Enabled
    <3> QED BY <3>1 DEF Carried
  <2> QED BY <2>1, <2>2
<1>4. Carried(E) \subseteq Carried(W) \cup Held(f)
  BY <1>3 DEF Carried
<1> QED BY <1>4 DEF E, W

\* Removing an entry gives up its tunnel and no other's.
LEMMA CarriedWithout ==
    ASSUME NEW F \in Registries, Compatible(F, F), NEW k \in DOMAIN F
    PROVE  Carried(Without(F, {k})) \subseteq Carried(F) \ Held(F[k])
<1> DEFINE W == Without(F, {k})
<1>1. DOMAIN W = DOMAIN F \ {k} /\ \A j \in DOMAIN W : W[j] = F[j]
  BY WithoutShape
<1> HIDE DEF W
<1>2. ASSUME NEW i \in Enabled(W) PROVE Tunnel(W[i]) \in Carried(F) \ Held(F[k])
  <2>1. i \in Enabled(F) /\ i # k /\ W[i] = F[i]
    BY <1>1, <1>2 DEF Enabled
  <2>2. Tunnel(F[i]) # Tunnel(F[k])
    <3>1. F[i].ep # F[k].ep
      BY <2>1 DEF Enabled, Compatible
    <3> QED BY <3>1 DEF Tunnel
  <2> QED BY <2>1, <2>2 DEF Carried, Held
<1>3. Carried(W) \subseteq Carried(F) \ Held(F[k])
  BY <1>2 DEF Carried
<1> QED BY <1>3 DEF W

LEMMA CarriedLess ==
    ASSUME NEW F \in Registries, NEW S
    PROVE  Carried(Without(F, S)) \subseteq Carried(F)
BY WithoutShape, ZenonT(60) DEF Carried, Enabled

LEMMA CreateIsTruthful ==
    ASSUME ~Ambiguous, IInv, Carried(forwards) \subseteq tunnels,
           NEW port \in RemotePorts, NEW host, NEW preferred \in 0..MaxPort,
           Create(port, host, preferred)
    PROVE  Carried(forwards') \subseteq tunnels'
<1> DEFINE ep == <<port, Normal(host)>>
           start == IF preferred = 0 THEN port ELSE preferred
<1>1. forwards \in Registries /\ Carried(Without(forwards, {NewId})) \subseteq tunnels
  BY CarriedLess DEF IInv, TypeOK
<1>2. ep \in Endpoints /\ start \in Ports
  BY NormalType, PortAssumption DEF Ports
<1>3. next < MaxNext => NewId \in Ids
  BY LimitAssumption DEF IInv, TypeOK, NewId, Ids
<1>4. CASE CreateKnown(ep) \/ CreateRejected(ep) \/ CreateNoPort(ep, start)
  BY <1>4 DEF CreateKnown, CreateRejected, CreateNoPort, Mutated, Failed
<1>5. CASE CreatePaused(ep, start)
  <2> DEFINE f == [ep |-> ep, local |-> start, enabled |-> FALSE]
  <2>1. f \in Forward /\ Held(f) = {}
    BY <1>2 DEF Forward, Held
  <2>2. forwards' = Extend(forwards, NewId, f) /\ tunnels' = tunnels /\ NewId \in Ids
    BY <1>3, <1>5 DEF CreatePaused, Mutated
  <2> QED BY <1>1, <2>1, <2>2, CarriedExtend
<1>6. CASE CreateEnabled(ep, start)
  <2>1. PICK p \in Ports :
            LET f == [ep |-> ep, local |-> p, enabled |-> TRUE]
            IN  \E o \in Openings(tunnels, {Tunnel(f)}) :
                    IF o.ok = {}
                    THEN Failed(Plus(tunnels, o))
                    ELSE /\ tunnels' = Plus(tunnels, o)
                         /\ Mutated(Extend(forwards, NewId, f))
    BY <1>6 DEF CreateEnabled
  <2> DEFINE f == [ep |-> ep, local |-> p, enabled |-> TRUE]
  <2>2. PICK o \in Openings(tunnels, {Tunnel(f)}) :
            IF o.ok = {}
            THEN Failed(Plus(tunnels, o))
            ELSE tunnels' = Plus(tunnels, o) /\ Mutated(Extend(forwards, NewId, f))
    BY <2>1
  <2>3. f \in Forward /\ Held(f) = {Tunnel(f)} /\ NewId \in Ids
    BY <1>2, <1>3, <1>6 DEF Forward, Held, CreateEnabled
  <2>4. CASE o.ok = {}
    <3>1. Plus(tunnels, o) = tunnels
      BY <2>4, CleanOpening
    <3> QED BY <2>2, <2>4, <3>1 DEF Failed
  <2>5. CASE o.ok # {}
    <3>1. forwards' = Extend(forwards, NewId, f)
      BY <2>2, <2>5 DEF Mutated
    <3>2. tunnels' = tunnels \cup {Tunnel(f)}
      BY <2>2, <2>5, CleanOpening
    <3>3. Carried(Extend(forwards, NewId, f))
            \subseteq Carried(Without(forwards, {NewId})) \cup Held(f)
      BY <1>1, <2>3, CarriedExtend
    <3> HIDE DEF f
    <3> QED BY <1>1, <2>3, <3>1, <3>2, <3>3
  <2> QED BY <2>4, <2>5
<1> QED BY <1>4, <1>5, <1>6 DEF Create

LEMMA RemoveIsTruthful ==
    ASSUME ~Ambiguous, IInv, Carried(forwards) \subseteq tunnels, NEW id,
           Remove(id) \/ Disable(id)
    PROVE  Carried(forwards') \subseteq tunnels'
<1> DEFINE f == forwards[id]
<1>1. /\ forwards \in Registries /\ Compatible(forwards, forwards)
      /\ id \in DOMAIN forwards /\ f \in Forward /\ id \in Ids
  BY Shape DEF IInv, TypeOK, Remove, Disable, Enabled
<1>2. Carried(Without(forwards, {id})) \subseteq Carried(forwards) \ Held(f)
  BY <1>1, CarriedWithout
<1>3. SetFlag(f, FALSE) \in Forward /\ Held(SetFlag(f, FALSE)) = {}
  BY <1>1 DEF SetFlag, Forward, Held
<1>4. Carried(Extend(forwards, id, SetFlag(f, FALSE))) \subseteq Carried(Without(forwards, {id}))
  BY <1>1, <1>3, CarriedExtend
<1>5. PICK o \in Closings(tunnels, Held(f)) :
        \/ o.ok = Held(f) /\ tunnels' = Minus(tunnels, o) /\ forwards' = Without(forwards, {id})
        \/ /\ o.ok = Held(f) /\ tunnels' = Minus(tunnels, o)
           /\ forwards' = Extend(forwards, id, SetFlag(f, FALSE))
        \/ o.ok # Held(f) /\ tunnels' = Minus(tunnels, o) /\ forwards' = forwards
  BY DEF Remove, Disable, Mutated, Failed
<1>6. Minus(tunnels, o) = tunnels \ o.ok /\ o.ok \subseteq Held(f)
  BY CleanClosing
<1>7. o.ok # Held(f) => o.ok = {}
  BY <1>6 DEF Held
<1> HIDE DEF f
<1> QED BY <1>2, <1>4, <1>5, <1>6, <1>7

LEMMA EnableIsTruthful ==
    ASSUME ~Ambiguous, IInv, Carried(forwards) \subseteq tunnels, NEW id, Enable(id)
    PROVE  Carried(forwards') \subseteq tunnels'
<1>1. /\ forwards \in Registries /\ Carried(Without(forwards, {id})) \subseteq tunnels
      /\ forwards[id] \in Forward /\ id \in Ids
  BY CarriedLess, Shape DEF IInv, TypeOK, Enable, Enabled
<1>2. PICK p \in Ports :
        LET f == SetFlag(SetLocal(forwards[id], p), TRUE)
        IN  \E o \in Openings(tunnels, {Tunnel(f)}) :
                IF o.ok = {}
                THEN Failed(Plus(tunnels, o))
                ELSE tunnels' = Plus(tunnels, o) /\ Mutated(Extend(forwards, id, f))
  BY DEF Enable
<1> DEFINE f == SetFlag(SetLocal(forwards[id], p), TRUE)
<1>3. PICK o \in Openings(tunnels, {Tunnel(f)}) :
            IF o.ok = {}
            THEN Failed(Plus(tunnels, o))
            ELSE tunnels' = Plus(tunnels, o) /\ Mutated(Extend(forwards, id, f))
  BY <1>2
<1>4. f \in Forward /\ f.enabled
  BY <1>1 DEF SetFlag, SetLocal, Forward
<1> HIDE DEF f
<1>5. Held(f) = {Tunnel(f)}
  BY <1>4 DEF Held
<1>6. CASE o.ok = {}
  <2>1. Plus(tunnels, o) = tunnels
    BY <1>6, CleanOpening
  <2> QED BY <1>3, <1>6, <2>1 DEF Failed
<1>7. CASE o.ok # {}
  <2>1. forwards' = Extend(forwards, id, f) /\ tunnels' = tunnels \cup {Tunnel(f)}
    BY <1>3, <1>7, CleanOpening DEF Mutated
  <2>2. Carried(Extend(forwards, id, f)) \subseteq Carried(Without(forwards, {id})) \cup Held(f)
    BY <1>1, <1>4, CarriedExtend
  <2> QED BY <1>1, <1>5, <2>1, <2>2
<1> QED BY <1>6, <1>7

LEMMA RemapIsTruthful ==
    ASSUME ~Ambiguous, IInv, Carried(forwards) \subseteq tunnels,
           NEW id, NEW p \in 0..MaxPort, RemapPaused(id, p) \/ RemapEnabled(id, p)
    PROVE  Carried(forwards') \subseteq tunnels'
<1> DEFINE f == forwards[id]
           g == SetLocal(f, p)
<1>1. /\ id \in DOMAIN forwards /\ id \in Ids /\ f \in Forward /\ p \in Ports
      /\ forwards \in Registries /\ Compatible(forwards, forwards)
  BY PortAssumption, Shape
     DEF IInv, TypeOK, RemapPaused, RemapEnabled, Enabled, PortRefused, Ports
<1>2. Carried(Without(forwards, {id})) \subseteq tunnels \ Held(f)
  BY <1>1, CarriedWithout
<1>3. g \in Forward /\ g.enabled = f.enabled
  BY <1>1 DEF SetLocal, Forward
<1>4. \A b \in BOOLEAN : /\ AfterRemap(f, b) \in Forward
                        /\ Held(AfterRemap(f, b)) = IF b THEN {Tunnel(f)} ELSE {}
  BY <1>1 DEF AfterRemap, SetFlag, Held, Tunnel, Forward
<1>5. CASE RemapPaused(id, p)
  <2>1. forwards' = Extend(forwards, id, g) /\ tunnels' = tunnels
    BY <1>5 DEF RemapPaused, Mutated
  <2>2. Held(g) = {}
    BY <1>1, <1>3, <1>5 DEF RemapPaused, Held, Enabled
  <2>3. Carried(Extend(forwards, id, g)) \subseteq Carried(Without(forwards, {id})) \cup Held(g)
    BY <1>1, <1>3, CarriedExtend
  <2> HIDE DEF g, f
  <2> QED BY <1>2, <2>1, <2>2, <2>3
<1>6. CASE RemapEnabled(id, p)
  <2>1. PICK c \in Closings(tunnels, {Tunnel(f)}) :
        IF c.ok = {}
        THEN tunnels' = Minus(tunnels, c) /\ Mutated(forwards)
        ELSE \E o \in Openings(Minus(tunnels, c), {Tunnel(g)}) :
             LET T == Plus(Minus(tunnels, c), o)
             IN  IF o.ok # {}
                 THEN tunnels' = T /\ Mutated(Extend(forwards, id, g))
                 ELSE \E r \in Openings(T, {Tunnel(f)}) :
                        /\ tunnels' = Plus(T, r)
                        /\ Mutated(Extend(forwards, id, AfterRemap(f, r.ok # {})))
    BY <1>6 DEF RemapEnabled
  <2>2. Held(f) = {Tunnel(f)} /\ Held(g) = {Tunnel(g)}
    BY <1>3, <1>6 DEF RemapEnabled, Held, Enabled
  <2>3. Carried(Extend(forwards, id, g)) \subseteq Carried(Without(forwards, {id})) \cup Held(g)
    BY <1>1, <1>3, CarriedExtend
  <2>4. \A b \in BOOLEAN : Carried(Extend(forwards, id, AfterRemap(f, b)))
                            \subseteq Carried(Without(forwards, {id})) \cup Held(AfterRemap(f, b))
    BY <1>1, <1>4, CarriedExtend
  <2> HIDE DEF f, g
  <2>5. CASE c.ok = {}
    <3>1. Minus(tunnels, c) = tunnels \ c.ok
      BY CleanClosing
    <3>2. Minus(tunnels, c) = tunnels
      BY <2>5, <3>1
    <3> QED BY <2>1, <2>5, <3>2 DEF Mutated
  <2>6. CASE c.ok # {}
    <3> DEFINE U == Minus(tunnels, c)
    <3>1. U = tunnels \ Held(f)
      BY <2>2, <2>6, CleanClosing
    <3>2. PICK o \in Openings(U, {Tunnel(g)}) :
             LET T == Plus(U, o)
             IN  IF o.ok # {}
                 THEN tunnels' = T /\ Mutated(Extend(forwards, id, g))
                 ELSE \E r \in Openings(T, {Tunnel(f)}) :
                        /\ tunnels' = Plus(T, r)
                        /\ Mutated(Extend(forwards, id, AfterRemap(f, r.ok # {})))
      BY <2>1, <2>6
    <3> HIDE DEF U
    <3>3. CASE o.ok # {}
      <4>1. tunnels' = U \cup {Tunnel(g)} /\ forwards' = Extend(forwards, id, g)
        BY <3>2, <3>3, CleanOpening DEF Mutated
      <4> QED BY <1>2, <2>2, <2>3, <3>1, <4>1
    <3>4. CASE o.ok = {}
      <4>1. Plus(U, o) = U
        BY <3>4, CleanOpening
      <4>2. PICK r \in Openings(U, {Tunnel(f)}) :
                /\ tunnels' = Plus(U, r)
                /\ forwards' = Extend(forwards, id, AfterRemap(f, r.ok # {}))
        BY <3>2, <3>4, <4>1 DEF Mutated
      <4>3. Carried(forwards')
                \subseteq Carried(Without(forwards, {id})) \cup Held(AfterRemap(f, r.ok # {}))
        BY <2>4, <4>2
      <4>4. U \subseteq tunnels' /\ (r.ok # {} => Tunnel(f) \in tunnels')
        <5>1. r.ok = {} => Plus(U, r) = U
          BY CleanOpening
        <5>2. r.ok # {} => Plus(U, r) = U \cup {Tunnel(f)}
          BY CleanOpening
        <5> QED BY <4>2, <5>1, <5>2
      <4>5. Held(AfterRemap(f, r.ok # {})) = IF r.ok # {} THEN {Tunnel(f)} ELSE {}
        BY <1>4
      <4>6. Held(AfterRemap(f, r.ok # {})) \subseteq tunnels'
        BY <4>4, <4>5
      <4> QED BY <1>2, <3>1, <4>3, <4>4, <4>6
    <3> QED BY <3>3, <3>4
  <2> QED BY <2>5, <2>6
<1> QED BY <1>5, <1>6

\* A tunnel cancelled by a rollback is neither the snapshot's nor kept by an entry.
LEMMA RollbackIsTruthful ==
    ASSUME ~Ambiguous, IInv, Carried(forwards) \subseteq tunnels, Rollback
    PROVE  Carried(forwards') \subseteq tunnels'
<1> DEFINE toCancel == NotCarried(forwards, saved)
           toOpen == NotCarried(saved, forwards)
<1>1. PICK c \in Closings(tunnels, {Tunnel(forwards[i]) : i \in toCancel}) :
      \E o \in Openings(Minus(tunnels, c), {Tunnel(saved[i]) : i \in toOpen}) :
        LET cancelled == {i \in toCancel : Tunnel(forwards[i]) \in c.ok}
            reopened == {i \in toOpen : Tunnel(saved[i]) \in o.ok}
        IN  /\ tunnels' = Plus(Minus(tunnels, c), o)
            /\ forwards' =
                IF cancelled = toCancel /\ reopened = toOpen
                THEN saved
                ELSE [i \in DOMAIN forwards \cup reopened |->
                        IF i \in reopened THEN saved[i]
                        ELSE IF i \in cancelled THEN SetFlag(forwards[i], FALSE)
                        ELSE forwards[i]]
  BY DEF Rollback
<1>2. PICK o \in Openings(Minus(tunnels, c), {Tunnel(saved[i]) : i \in toOpen}) :
        LET cancelled == {i \in toCancel : Tunnel(forwards[i]) \in c.ok}
            reopened == {i \in toOpen : Tunnel(saved[i]) \in o.ok}
        IN  /\ tunnels' = Plus(Minus(tunnels, c), o)
            /\ forwards' =
                IF cancelled = toCancel /\ reopened = toOpen
                THEN saved
                ELSE [i \in DOMAIN forwards \cup reopened |->
                        IF i \in reopened THEN saved[i]
                        ELSE IF i \in cancelled THEN SetFlag(forwards[i], FALSE)
                        ELSE forwards[i]]
  BY <1>1
<1> DEFINE cancelled == {i \in toCancel : Tunnel(forwards[i]) \in c.ok}
           reopened == {i \in toOpen : Tunnel(saved[i]) \in o.ok}
<1>3. c.ok \subseteq {Tunnel(forwards[i]) : i \in toCancel} /\ Minus(tunnels, c) = tunnels \ c.ok
  BY CleanClosing
<1>4. (tunnels \ c.ok) \cup o.ok \subseteq tunnels'
  BY <1>2, <1>3 DEF Plus
<1>5. \A i \in toCancel : Tunnel(forwards[i]) \notin Carried(saved)
  BY DEF NotCarried
<1>6. CASE cancelled = toCancel /\ reopened = toOpen
  <2>1. forwards' = saved
    BY <1>2, <1>6
  <2>2. ASSUME NEW i \in Enabled(saved) PROVE Tunnel(saved[i]) \in tunnels'
    <3>1. Tunnel(saved[i]) \in Carried(saved)
      BY DEF Carried
    <3>2. Tunnel(saved[i]) \notin c.ok
      BY <1>3, <1>5, <3>1
    <3>3. CASE i \in toOpen
      BY <1>4, <1>6, <3>3
    <3>4. CASE i \notin toOpen
      BY <1>4, <3>2, <3>4 DEF NotCarried
    <3> QED BY <3>3, <3>4
  <2> QED BY <2>1, <2>2 DEF Carried
<1>7. CASE ~(cancelled = toCancel /\ reopened = toOpen)
  <2>1. forwards' = [i \in DOMAIN forwards \cup reopened |->
                        IF i \in reopened THEN saved[i]
                        ELSE IF i \in cancelled THEN SetFlag(forwards[i], FALSE)
                        ELSE forwards[i]]
    BY <1>2, <1>7
  <2>2. ASSUME NEW i \in Enabled(forwards') PROVE Tunnel(forwards'[i]) \in tunnels'
    <3>1. i \in DOMAIN forwards \cup reopened
      BY <2>1 DEF Enabled
    <3>2. CASE i \in reopened
      BY <1>4, <2>1, <3>1, <3>2
    <3>3. CASE i \notin reopened /\ i \in cancelled
      <4>1. i \in DOMAIN forwards /\ forwards[i] \in Forward
        BY <3>3, Shape DEF NotCarried, Enabled, IInv, TypeOK
      <4>2. forwards'[i] = SetFlag(forwards[i], FALSE)
        BY <2>1, <3>1, <3>3
      <4>3. ~forwards'[i].enabled
        BY <4>1, <4>2 DEF SetFlag, Forward
      <4> QED BY <2>2, <4>3 DEF Enabled
    <3>4. CASE i \notin reopened /\ i \notin cancelled
      <4>1. i \in DOMAIN forwards /\ forwards'[i] = forwards[i]
        BY <2>1, <3>1, <3>4
      <4>2. i \in Enabled(forwards) /\ Tunnel(forwards[i]) \in tunnels
        BY <2>2, <4>1 DEF Enabled, Carried
      <4>3. ASSUME Tunnel(forwards[i]) \in c.ok PROVE FALSE
        <5>1. PICK j \in toCancel : Tunnel(forwards[i]) = Tunnel(forwards[j])
          BY <1>3, <4>3
        <5>2. i \in toCancel
          BY <4>2, <5>1 DEF NotCarried
        <5> QED BY <3>4, <4>3, <5>2
      <4> QED BY <1>4, <4>1, <4>2, <4>3
    <3> QED BY <3>1, <3>2, <3>3, <3>4
  <2> QED BY <2>2 DEF Carried
<1> QED BY <1>6, <1>7

LEMMA StepIsTruthful == ~Ambiguous /\ IInv /\ Truthful /\ [Next]_vars => Truthful'
<1> SUFFICES ASSUME ~Ambiguous, IInv, Truthful, [Next]_vars, link' = "up"
             PROVE  Carried(forwards') \subseteq tunnels'
  BY DEF Truthful
<1>1. CASE ReplayDone
  <2>1. Alive /\ replay.todo = {} /\ forwards' = replay.restored /\ tunnels' = tunnels
    BY <1>1 DEF ReplayDone, Alive
  <2>2. Enabled(forwards') = Enabled(forwards)
    BY <1>1, <2>1 DEF ReplayDone, IInv, ReplayInv, Enabled
  <2>3. \A i \in Enabled(forwards) : Tunnel(forwards'[i]) \in tunnels'
    BY <1>1, <2>1 DEF ReplayDone, IInv, ReplayInv
  <2> QED BY <2>2, <2>3 DEF Carried
<1>2. CASE link # "up" /\ ~ReplayDone
  <2>1. CASE \E port \in RemotePorts, host \in RawHosts, preferred \in 0..MaxPort :
                Create(port, host, preferred)
    BY <1>2, <2>1, ZenonT(60) DEF Create, CreateKnown, CreateRejected, CreatePaused, CreateEnabled,
        CreateNoPort, Mutated, Failed, env
  <2>2. CASE \E id \in Ids : Remove(id) \/ Disable(id) \/ Enable(id) \/ EnableNoPort(id)
    BY <1>2, <2>2 DEF Remove, Disable, Enable, EnableNoPort, Mutated, Failed, env
  <2>3. CASE \E id \in Ids, p \in 0..MaxPort :
                RemapRefused(id, p) \/ RemapPaused(id, p) \/ RemapEnabled(id, p)
    BY <1>2, <2>3 DEF RemapRefused, RemapPaused, RemapEnabled, Mutated, env
  <2>4. CASE \/ NoChange \/ Commit \/ Rollback \/ ReplayBegin \/ CloseAll
             \/ \E id \in Ids : ReplayOpen(id)
    BY <1>2, <2>4 DEF NoChange, Commit, Rollback, ReplayBegin, CloseAll, ReplayOpen, Mutated, env
  <2>5. CASE \/ ReplayFail \/ LinkLost \/ Reconnected \/ UNCHANGED vars
             \/ \E p \in Ports : PortTaken(p) \/ PortReleased(p)
    BY <1>2, <2>5 DEF ReplayFail, LinkLost, Reconnected, PortTaken, PortReleased, vars
  <2> QED BY <1>2, <2>1, <2>2, <2>3, <2>4, <2>5 DEF Next
<1>3. CASE link = "up"
  <2>1. Carried(forwards) \subseteq tunnels
    BY <1>3 DEF Truthful
  <2>2. CASE \E port \in RemotePorts, host \in RawHosts, preferred \in 0..MaxPort :
                Create(port, host, preferred)
    BY <2>1, <2>2, CreateIsTruthful
  <2>3. CASE \E id \in Ids : Remove(id) \/ Disable(id) \/ Enable(id)
    BY <2>1, <2>3, RemoveIsTruthful, EnableIsTruthful
  <2>4. CASE \E id \in Ids, p \in 0..MaxPort : RemapPaused(id, p) \/ RemapEnabled(id, p)
    BY <2>1, <2>4, RemapIsTruthful
  <2>5. CASE Rollback
    BY <2>1, <2>5, RollbackIsTruthful
  <2>6. CASE ReplayBegin \/ ReplayFail \/ LinkLost \/ Reconnected \/ \E id \in Ids : ReplayOpen(id)
    BY <1>3, <2>6 DEF ReplayBegin, ReplayFail, LinkLost, Reconnected, ReplayOpen, IInv, ReplayInv
  <2>7. CASE CloseAll
    <3>1. PICK o \in Closings(tunnels, Carried(forwards)) :
            /\ tunnels' = Minus(tunnels, o)
            /\ forwards' = Without(forwards, {i \in DOMAIN forwards :
                    forwards[i].enabled => Tunnel(forwards[i]) \in o.ok})
      BY <2>7 DEF CloseAll
    <3>2. tunnels' = tunnels \ o.ok
      BY <3>1, CleanClosing
    <3>3. ASSUME NEW i \in Enabled(forwards') PROVE Tunnel(forwards'[i]) \in tunnels'
      <4>1. /\ i \in DOMAIN forwards /\ forwards'[i] = forwards[i]
            /\ Tunnel(forwards[i]) \notin o.ok /\ forwards[i].enabled
        <5> DEFINE S == {j \in DOMAIN forwards :
                            forwards[j].enabled => Tunnel(forwards[j]) \in o.ok}
        <5>1. forwards \in Registries /\ forwards' = Without(forwards, S)
          BY <3>1 DEF IInv, TypeOK
        <5>2. i \in DOMAIN forwards \ S /\ forwards'[i] = forwards[i]
          <6>1. /\ DOMAIN Without(forwards, S) = DOMAIN forwards \ S
                /\ \A j \in DOMAIN forwards \ S : Without(forwards, S)[j] = forwards[j]
            <7> HIDE DEF S
            <7> QED BY <5>1, WithoutShape
          <6> HIDE DEF S
          <6>2. i \in DOMAIN forwards'
            BY <3>3 DEF Enabled
          <6> QED BY <5>1, <6>1, <6>2
        <5>3. forwards[i].enabled
          BY <3>3, <5>2 DEF Enabled
        <5> QED BY <5>2, <5>3
      <4> QED BY <2>1, <3>2, <4>1 DEF Carried, Enabled
    <3> QED BY <3>3 DEF Carried
  <2>8. CASE \/ NoChange \/ Commit
             \/ (\E id \in Ids : EnableNoPort(id))
             \/ (\E id \in Ids, p \in 0..MaxPort : RemapRefused(id, p))
             \/ (\E p \in Ports : PortTaken(p) \/ PortReleased(p))
             \/ UNCHANGED vars
    BY <2>1, <2>8 DEF NoChange, Commit, EnableNoPort, RemapRefused, PortTaken, PortReleased,
        Mutated, Failed, vars
  <2> QED BY <1>1, <2>2, <2>3, <2>4, <2>5, <2>6, <2>7, <2>8 DEF Next
<1> QED BY <1>1, <1>2, <1>3

\* If a failed SSH call has no effect, the registry never shows a mapping as active
\* whose tunnel does not exist on a settled link.
THEOREM Truth == ASSUME ~Ambiguous PROVE Spec => []Truthful
<1>1. Init => Truthful
  BY Empty DEF Init, Truthful, Carried, Enabled
<1>2. IInv /\ Truthful /\ [Next]_vars => Truthful'
  BY StepIsTruthful
<1> QED BY <1>1, <1>2, Invariance, PTL DEF Spec
-----------------------------------------------------------------------------
(* What the tunnels do while the link is recovered, if no request runs     *)
(* meanwhile.                                                              *)

\* Inductive together with IInv. A lost master leaves no tunnel, so a replay starts from
\* none and every tunnel it meets is one it has opened itself. The ports it has chosen
\* are not those of the other enabled forwards, those it has yet to open included, so
\* that only another process can be in the way of these.
Follows ==
    /\ link = "down" => tunnels = {}
    /\ link = "fresh" => phase # "persist" /\ (phase # "replay" => tunnels = {})
    /\ phase = "replay" =>
        /\ \A i \in replay.todo : replay.restored[i] = forwards[i]
        /\ \A i \in Enabled(forwards) \ replay.todo : \A k \in Enabled(forwards) \ {i} :
            replay.restored[i].local # forwards[k].local
        /\ \A t \in tunnels : \E i \in Enabled(forwards) \ replay.todo :
            t = Tunnel(replay.restored[i])

\* Without a master no tunnel is opened.
LEMMA DeadOpening ==
    ASSUME link = "down", NEW S, NEW T, NEW o \in Openings(T, S)
    PROVE  Plus(T, o) = T
BY DEF Openings, Plus, Alive

\* What a successful call of the replay does.
LEMMA ReplayOpening ==
    ASSUME IInv, NEW id, ReplayOpen(id)
    PROVE  /\ id \in replay.todo /\ id \in Enabled(forwards) /\ link # "down"
           /\ \E p \in Ports :
                /\ Available(forwards, tunnels, forwards[id].local, id, p)
                /\ \A t \in tunnels' \ tunnels : t = <<p, forwards[id].ep>>
                /\ replay'.todo = replay.todo \ {id}
                /\ replay'.restored[id].local = p
                /\ replay'.restored[id].ep = forwards[id].ep
                /\ \A j \in DOMAIN forwards \ {id} : replay'.restored[j] = replay.restored[j]
<1>1. PICK p \in Ports :
        /\ Available(forwards, tunnels, forwards[id].local, id, p)
        /\ LET f == SetLocal(forwards[id], p)
           IN  \E o \in Openings(tunnels, {Tunnel(f)}) :
                /\ o.ok # {}
                /\ tunnels' = Plus(tunnels, o)
                /\ replay' = [todo |-> replay.todo \ {id},
                              restored |-> Extend(replay.restored, id, f),
                              opened |-> replay.opened \cup {Tunnel(f)}]
  BY DEF ReplayOpen
<1> DEFINE f == SetLocal(forwards[id], p)
           R == replay.restored
<1>2. PICK o \in Openings(tunnels, {Tunnel(f)}) :
        /\ o.ok # {}
        /\ tunnels' = Plus(tunnels, o)
        /\ replay' = [todo |-> replay.todo \ {id}, restored |-> Extend(R, id, f),
                      opened |-> replay.opened \cup {Tunnel(f)}]
  BY <1>1
<1>3. /\ id \in replay.todo /\ id \in Enabled(forwards) /\ id \in DOMAIN forwards
      /\ id \in Ids /\ R \in Registries /\ DOMAIN R = DOMAIN forwards
      /\ forwards \in Registries
  BY DEF ReplayOpen, IInv, ReplayInv, Enabled, TypeOK
<1>4. forwards[id] \in Forward
  BY <1>3, Shape
<1>5. f \in Forward /\ f.local = p /\ f.ep = forwards[id].ep
  BY <1>4 DEF SetLocal, Forward
<1>6. Tunnel(f) = <<p, forwards[id].ep>>
  BY <1>5 DEF Tunnel
<1> HIDE DEF f, R
<1>7. /\ Extend(R, id, f)[id] = f
      /\ \A j \in DOMAIN R : j # id => Extend(R, id, f)[j] = R[j]
  BY <1>3, <1>5, ExtendShape
<1>8. \A t \in tunnels' \ tunnels : t = Tunnel(f)
  BY <1>2 DEF Openings, Plus
<1>9. link # "down"
  BY <1>2 DEF Openings, Alive
<1>10. replay'.todo = replay.todo \ {id} /\ replay'.restored = Extend(R, id, f)
  BY <1>2
<1>11. \A j \in DOMAIN forwards \ {id} : replay'.restored[j] = replay.restored[j]
  BY <1>3, <1>7, <1>10 DEF R
<1>12. replay'.restored[id].local = p /\ replay'.restored[id].ep = forwards[id].ep
  BY <1>5, <1>7, <1>10
<1> QED BY <1>1, <1>3, <1>6, <1>8, <1>9, <1>10, <1>11, <1>12

\* The link that replaced a lost one has no tunnels when its replay begins.
LEMMA ReplayBeginFollows == IInv /\ Follows /\ ReplayBegin => Follows'
<1> SUFFICES ASSUME IInv, Follows, ReplayBegin PROVE Follows'
  OBVIOUS
<1>1. /\ replay'.todo = Enabled(forwards) /\ replay'.restored = forwards
      /\ forwards' = forwards /\ tunnels' = tunnels /\ link' = link /\ phase' = "replay"
      /\ link = "fresh" /\ tunnels = {}
  BY DEF ReplayBegin, ToReplay, Follows, env
<1> QED BY <1>1 DEF Follows, Enabled

\* The port found for a forward is no other forward's, restored or not.
LEMMA ReplayOpenFollows ==
    ASSUME IInv, Follows, NEW id, ReplayOpen(id)
    PROVE  Follows'
<1>1. id \in replay.todo /\ id \in Enabled(forwards) /\ link # "down"
  BY ReplayOpening
<1>2. PICK p \in Ports :
        /\ Available(forwards, tunnels, forwards[id].local, id, p)
        /\ \A t \in tunnels' \ tunnels : t = <<p, forwards[id].ep>>
        /\ replay'.todo = replay.todo \ {id}
        /\ replay'.restored[id].local = p
        /\ replay'.restored[id].ep = forwards[id].ep
        /\ \A j \in DOMAIN forwards \ {id} : replay'.restored[j] = replay.restored[j]
  BY ReplayOpening
<1>3. /\ forwards' = forwards /\ link' = link /\ phase = "replay" /\ phase' = "replay"
      /\ replay.todo \subseteq Enabled(forwards) /\ Enabled(forwards) \subseteq DOMAIN forwards
      /\ Enabled(forwards') = Enabled(forwards)
  BY DEF ReplayOpen, env, IInv, ReplayInv, Enabled
<1>4. \A i \in replay'.todo : replay'.restored[i] = forwards'[i]
  BY <1>2, <1>3 DEF Follows
<1>5. ASSUME NEW i \in Enabled(forwards) \ replay'.todo, NEW k \in Enabled(forwards) \ {i}
      PROVE  replay'.restored[i].local # forwards[k].local
  <2>1. CASE i = id
    <3>1. forwards[k].local # p
      BY <1>2, <2>1, AvailablePort
    <3> QED BY <1>2, <2>1, <3>1
  <2>2. CASE i # id
    BY <1>2, <1>3, <2>2 DEF Follows
  <2> QED BY <2>1, <2>2
<1>6. ASSUME NEW t \in tunnels'
      PROVE  \E i \in Enabled(forwards) \ replay'.todo : t = Tunnel(replay'.restored[i])
  <2>1. CASE t \in tunnels
    <3>1. PICK i \in Enabled(forwards) \ replay.todo : t = Tunnel(replay.restored[i])
      BY <1>3, <2>1 DEF Follows
    <3>2. replay'.restored[i] = replay.restored[i] /\ i \notin replay'.todo
      BY <1>1, <1>2, <1>3, <3>1
    <3> QED BY <3>1, <3>2
  <2>2. CASE t \notin tunnels
    <3>1. t = Tunnel(replay'.restored[id])
      BY <1>2, <1>6, <2>2 DEF Tunnel
    <3> QED BY <1>1, <1>2, <3>1
  <2> QED BY <2>1, <2>2
<1> QED BY <1>1, <1>3, <1>4, <1>5, <1>6 DEF Follows

\* A rollback runs on a link that is up or lost, never on one that awaits its replay.
LEMMA RollbackFollows == IInv /\ Follows /\ Rollback => Follows'
<1> SUFFICES ASSUME IInv, Follows, Rollback PROVE Follows'
  OBVIOUS
<1>1. link' = link /\ phase' = "idle" /\ link # "fresh"
  BY DEF Rollback, env, Follows
<1>2. ASSUME link = "down" PROVE tunnels' = {}
  <2>1. PICK S, U : \E c \in Closings(tunnels, S) : \E o \in Openings(Minus(tunnels, c), U) :
            tunnels' = Plus(Minus(tunnels, c), o)
    BY DEF Rollback
  <2>2. PICK c \in Closings(tunnels, S) : \E o \in Openings(Minus(tunnels, c), U) :
            tunnels' = Plus(Minus(tunnels, c), o)
    BY <2>1
  <2>3. tunnels' = Minus(tunnels, c)
    BY <1>2, <2>2, DeadOpening
  <2> QED BY <1>2, <2>3 DEF Follows, Minus
<1> QED BY <1>1, <1>2 DEF Follows

\* A replay that failed leaves a master that is gone or doomed.
LEMMA ReplayFailFollows == IInv /\ Follows /\ ReplayFail => Follows'
<1> SUFFICES ASSUME IInv, Follows, ReplayFail PROVE Follows'
  OBVIOUS
<1>1. link \in {"fresh", "down"} /\ phase' = "idle"
  BY DEF ReplayFail, IInv, ReplayInv
<1>2. ASSUME link = "down" PROVE tunnels' = {}
  <2>1. PICK S, U : \E o \in Openings(tunnels, S) : \E c \in Closings(Plus(tunnels, o), U) :
            tunnels' = Minus(Plus(tunnels, o), c)
    BY DEF ReplayFail
  <2>2. PICK o \in Openings(tunnels, S) : \E c \in Closings(Plus(tunnels, o), U) :
            tunnels' = Minus(Plus(tunnels, o), c)
    BY <2>1
  <2>3. Plus(tunnels, o) = {}
    BY <1>2, DeadOpening DEF Follows
  <2> QED BY <2>2, <2>3 DEF Minus
<1>3. link' = IF link = "down" THEN "down" ELSE "doomed"
  BY DEF ReplayFail, Alive
<1> QED BY <1>1, <1>2, <1>3 DEF Follows

\* Requests need a link that is up, of which Follows says nothing.
LEMMA StepFollows == ~LateRequests /\ IInv /\ Follows /\ [Next]_vars => Follows'
<1> SUFFICES ASSUME ~LateRequests, IInv, Follows, [Next]_vars PROVE Follows'
  OBVIOUS
<1>1. ASSUME Request, link' = link, phase' \in {"idle", "persist"} PROVE Follows'
  BY <1>1 DEF Request, Follows
<1>2. CASE \E port \in RemotePorts, host \in RawHosts, preferred \in 0..MaxPort :
            Create(port, host, preferred)
  <2>1. Request /\ link' = link /\ phase' \in {"idle", "persist"}
    BY <1>2, ZenonT(60) DEF Create, CreateKnown, CreateRejected, CreatePaused, CreateEnabled,
        CreateNoPort, Mutated, Failed, env, Request
  <2> QED BY <1>1, <2>1
<1>3. CASE NoChange \/ \E id \in Ids : Remove(id) \/ Disable(id) \/ Enable(id) \/ EnableNoPort(id)
  <2>1. Request /\ link' = link /\ phase' \in {"idle", "persist"}
    BY <1>3 DEF NoChange, Remove, Disable, Enable, EnableNoPort, Mutated, Failed, env, Request
  <2> QED BY <1>1, <2>1
<1>4. CASE \E id \in Ids, p \in 0..MaxPort :
            RemapRefused(id, p) \/ RemapPaused(id, p) \/ RemapEnabled(id, p)
  <2>1. Request /\ link' = link /\ phase' \in {"idle", "persist"}
    BY <1>4 DEF RemapRefused, RemapPaused, RemapEnabled, Mutated, env, Request
  <2> QED BY <1>1, <2>1
<1>5. CASE Commit
  BY <1>5 DEF Commit, Follows, env
<1>6. CASE ReplayDone
  BY <1>6 DEF ReplayDone, Follows, Alive, IInv, ReplayInv
<1>7. CASE CloseAll
  BY <1>7 DEF CloseAll, Follows, Minus, env
<1>8. CASE LinkLost \/ Reconnected
  BY <1>8 DEF LinkLost, Reconnected, Follows, Enabled
<1>9. CASE UNCHANGED vars \/ \E p \in Ports : PortTaken(p) \/ PortReleased(p)
  <2>1. UNCHANGED <<forwards, phase, replay, tunnels, link>>
    BY <1>9 DEF vars, PortTaken, PortReleased
  <2> QED BY <2>1 DEF Follows, Enabled
<1> QED BY <1>2, <1>3, <1>4, <1>5, <1>6, <1>7, <1>8, <1>9, RollbackFollows,
           ReplayBeginFollows, ReplayOpenFollows, ReplayFailFollows DEF Next

\* If no request runs during a recovery, replays find the tunnels and ports as Follows says.
THEOREM Recovery == ASSUME ~LateRequests PROVE Spec => []Follows
<1>1. Init => Follows
  BY DEF Init, Follows
<1>2. ~LateRequests /\ IInv /\ Follows /\ [Next]_vars => Follows'
  BY StepFollows
<1> QED BY <1>1, <1>2, Invariance, PTL DEF Spec

\* Only the replay itself ends a replay.
LEMMA ReplayEnds ==
    ASSUME [Next]_vars, phase = "replay"
    PROVE  \/ ReplayFail \/ ReplayDone
           \/ phase' = "replay" /\ \E id \in Ids : ReplayOpen(id)
           \/ phase' = "replay" /\ replay' = replay
<1>1. CASE \E port \in RemotePorts, host \in RawHosts, preferred \in 0..MaxPort :
            Create(port, host, preferred)
  BY <1>1, ZenonT(60) DEF Create, CreateKnown, CreateRejected, CreatePaused, CreateEnabled,
      CreateNoPort, Request
<1>2. CASE NoChange \/ \E id \in Ids : Remove(id) \/ Disable(id) \/ Enable(id) \/ EnableNoPort(id)
  BY <1>2 DEF NoChange, Remove, Disable, Enable, EnableNoPort, Request
<1>3. CASE \E id \in Ids, p \in 0..MaxPort :
            RemapRefused(id, p) \/ RemapPaused(id, p) \/ RemapEnabled(id, p)
  BY <1>3 DEF RemapRefused, RemapPaused, RemapEnabled, Request
<1>4. CASE Commit \/ Rollback \/ ReplayBegin \/ CloseAll \/ \E id \in Ids : ReplayOpen(id)
  BY <1>4 DEF Commit, Rollback, ReplayBegin, CloseAll, ReplayOpen
<1>5. CASE \/ LinkLost \/ Reconnected \/ UNCHANGED vars
           \/ \E p \in Ports : PortTaken(p) \/ PortReleased(p)
  BY <1>5 DEF LinkLost, Reconnected, PortTaken, PortReleased, vars
<1> QED BY <1>1, <1>2, <1>3, <1>4, <1>5 DEF Next

\* Both steps that end a replay; a failed one dooms the master.
LEMMA StepIsExact ==
    ASSUME IInv, Follows, [Next]_vars, phase = "replay", phase' = "idle"
    PROVE  /\ DOMAIN forwards' = DOMAIN forwards /\ Enabled(forwards') = Enabled(forwards)
           /\ \A i \in DOMAIN forwards \ Enabled(forwards) : forwards'[i] = forwards[i]
           /\ link' = "up" => Orphans' = {}
<1>1. CASE ReplayFail
  BY <1>1 DEF ReplayFail, IInv, ReplayInv, Alive, Enabled
<1>2. CASE ReplayDone
  <2>1. /\ forwards' = replay.restored /\ replay.todo = {} /\ tunnels' = tunnels
        /\ DOMAIN forwards' = DOMAIN forwards
        /\ \A i \in DOMAIN forwards :
            /\ forwards'[i].enabled = forwards[i].enabled
            /\ i \notin Enabled(forwards) => forwards'[i] = forwards[i]
    BY <1>2 DEF ReplayDone, IInv, ReplayInv
  <2>2. Enabled(forwards') = Enabled(forwards)
    BY <2>1 DEF Enabled
  <2>3. \A t \in tunnels' : \E i \in Enabled(forwards') : t = Tunnel(forwards'[i])
    BY <2>1, <2>2 DEF Follows
  <2>4. tunnels' \subseteq Carried(forwards')
    BY <2>3 DEF Carried
  <2> QED BY <2>1, <2>2, <2>4 DEF Orphans
<1> QED BY <1>1, <1>2, ReplayEnds

\* The replay's search for a port passes a forward's own only if another process has it:
\* the tunnels that are there have ports of other forwards, and so have the forwards to come.
LEMMA StepMovesOccupied ==
    ASSUME IInv, Follows, [Next]_vars, phase = "replay", phase' = "replay",
           NEW i \in DOMAIN forwards,
           replay'.restored[i].local # replay.restored[i].local
    PROVE  forwards[i].local \in busy
<1>1. PICK id \in Ids : ReplayOpen(id)
  BY ReplayEnds DEF ReplayFail, ReplayDone
<1>2. PICK p \in Ports :
        /\ Available(forwards, tunnels, forwards[id].local, id, p)
        /\ replay'.restored[id].local = p
        /\ \A j \in DOMAIN forwards \ {id} : replay'.restored[j] = replay.restored[j]
  BY <1>1, ReplayOpening
<1>3. /\ id \in replay.todo /\ id \in Enabled(forwards) /\ i = id
      /\ replay.restored[id] = forwards[id]
  BY <1>1, <1>2, ReplayOpening DEF Follows
<1> DEFINE q == forwards[id].local
<1>4. q \in Ports /\ p # q
  BY <1>2, <1>3, Shape DEF IInv, TypeOK, Forward
<1>5. p >= q /\ ~Usable(forwards, tunnels, id, q)
  <2>1. p >= q /\ \A r \in Ports : r >= q /\ r < p => ~Usable(forwards, tunnels, id, r)
    BY <1>2 DEF Available
  <2>2. q >= q /\ q < p
    BY <1>4, <2>1, PortAssumption DEF Ports
  <2> QED BY <1>4, <2>1, <2>2
<1>6. \A k \in Enabled(forwards) \ {id} : forwards[k].local # q
  BY <1>3 DEF IInv, Compatible, Enabled
<1>7. ASSUME NEW t \in tunnels PROVE t[1] # q
  <2>1. PICK j \in Enabled(forwards) \ replay.todo : t = Tunnel(replay.restored[j])
    BY DEF Follows
  <2>2. replay.restored[j].local # q
    BY <1>3, <2>1 DEF Follows
  <2> QED BY <2>1, <2>2 DEF Tunnel
<1>8. q \in busy
  BY <1>5, <1>6, <1>7 DEF Usable, Free
<1> QED BY <1>3, <1>8

ExactStep ==
    phase = "replay" /\ phase' = "idle" =>
        /\ DOMAIN forwards' = DOMAIN forwards /\ Enabled(forwards') = Enabled(forwards)
        /\ \A i \in DOMAIN forwards \ Enabled(forwards) : forwards'[i] = forwards[i]
        /\ link' = "up" => Orphans' = {}

\* If no request runs during a recovery, a replay that succeeds leaves exactly the tunnels
\* of the enabled forwards, and changes neither which forwards there are nor which are
\* paused, whether or not failed SSH calls had an effect.
THEOREM Exact == ASSUME ~LateRequests PROVE Spec => ReplayIsExact
<1>1. IInv /\ Follows /\ [Next]_vars => ExactStep
  BY StepIsExact DEF ExactStep
<1> QED BY <1>1, Invariance, Recovery, PTL DEF Spec, ReplayIsExact, ExactStep

MoveStep ==
    phase = "replay" /\ phase' = "replay" =>
        \A i \in DOMAIN forwards :
            replay'.restored[i].local # replay.restored[i].local =>
                forwards[i].local \in busy

\* If no request runs during a recovery, a replay moves a forward only from a port that
\* another process has bound.
THEOREM Moves == ASSUME ~LateRequests PROVE Spec => OnlyOccupiedPortsMove
<1>1. IInv /\ Follows /\ [Next]_vars => MoveStep
  BY StepMovesOccupied DEF MoveStep
<1> QED BY <1>1, Invariance, Recovery, PTL DEF Spec, OnlyOccupiedPortsMove, MoveStep

-----------------------------------------------------------------------------
(* No tunnel is left behind, when a failed SSH call has no effect.         *)

\* Setting an entry carries what the others carried, and the tunnel of the new forward.
LEMMA ExtendCarries ==
    ASSUME NEW F \in Registries, NEW k \in Ids, NEW f \in Forward
    PROVE  Carried(Without(F, {k})) \cup Held(f) \subseteq Carried(Extend(F, k, f))
<1> DEFINE E == Extend(F, k, f)
           W == Without(F, {k})
<1>1. DOMAIN E = DOMAIN F \cup {k} /\ E[k] = f /\ \A j \in DOMAIN F : j # k => E[j] = F[j]
  BY ExtendShape
<1>2. DOMAIN W = DOMAIN F \ {k} /\ \A j \in DOMAIN W : W[j] = F[j]
  BY WithoutShape
<1> HIDE DEF E, W
<1>3. ASSUME NEW i \in Enabled(W) PROVE Tunnel(W[i]) \in Carried(E)
  <2>1. i \in Enabled(E) /\ E[i] = W[i]
    BY <1>1, <1>2, <1>3 DEF Enabled
  <2> QED BY <2>1 DEF Carried
<1>4. Carried(W) \subseteq Carried(E)
  BY <1>3 DEF Carried
<1>5. f.enabled => Tunnel(f) \in Carried(E)
  BY <1>1 DEF Carried, Enabled
<1>6. Held(f) \subseteq Carried(E)
  BY <1>5 DEF Held
<1> QED BY <1>4, <1>6 DEF E, W

\* Removing an entry gives up no other tunnel than its own.
LEMMA WithoutCarries ==
    ASSUME NEW F \in Registries, NEW k
    PROVE  Carried(F) \subseteq Carried(Without(F, {k})) \cup
                                (IF k \in DOMAIN F THEN Held(F[k]) ELSE {})
<1> DEFINE W == Without(F, {k})
<1>1. DOMAIN W = DOMAIN F \ {k} /\ \A j \in DOMAIN W : W[j] = F[j]
  BY WithoutShape
<1> HIDE DEF W
<1>2. ASSUME NEW i \in Enabled(F)
      PROVE  Tunnel(F[i]) \in Carried(W) \cup (IF k \in DOMAIN F THEN Held(F[k]) ELSE {})
  <2>1. CASE i = k
    BY <1>2, <2>1 DEF Held, Enabled
  <2>2. CASE i # k
    <3>1. i \in Enabled(W) /\ Tunnel(W[i]) = Tunnel(F[i])
      BY <1>1, <1>2, <2>2 DEF Enabled
    <3> QED BY <3>1 DEF Carried
  <2> QED BY <2>1, <2>2
<1>3. Carried(F) \subseteq Carried(W) \cup (IF k \in DOMAIN F THEN Held(F[k]) ELSE {})
  BY <1>2 DEF Carried
<1> QED BY <1>3 DEF W

\* A step after which every tunnel that no forward owns was so before.
NoStray == Orphans' \subseteq Orphans

\* A step that touches neither the registry nor the tunnels.
LEMMA UntouchedStrands ==
    forwards' = forwards /\ tunnels' = tunnels => NoStray
BY DEF NoStray, Orphans, Carried, Enabled

\* The tunnel of a new forward is opened before the forward is listed, in one step.
LEMMA CreateStrands ==
    ASSUME ~Ambiguous, IInv, NEW port \in RemotePorts, NEW host, NEW preferred \in 0..MaxPort,
           Create(port, host, preferred)
    PROVE  NoStray
<1> DEFINE ep == <<port, Normal(host)>>
           start == IF preferred = 0 THEN port ELSE preferred
<1>1. forwards \in Registries /\ NewId \notin DOMAIN forwards
  BY DEF IInv, TypeOK, NewId
<1>2. ep \in Endpoints /\ start \in Ports
  BY NormalType, PortAssumption DEF Ports
<1>3. next < MaxNext => NewId \in Ids
  BY LimitAssumption DEF IInv, TypeOK, NewId, Ids
<1>4. Carried(forwards) \subseteq Carried(Without(forwards, {NewId}))
  BY <1>1, WithoutCarries
<1>5. CASE CreateKnown(ep) \/ CreateRejected(ep) \/ CreateNoPort(ep, start)
  BY <1>5, UntouchedStrands DEF CreateKnown, CreateRejected, CreateNoPort, Mutated, Failed
<1>6. CASE CreatePaused(ep, start)
  <2> DEFINE f == [ep |-> ep, local |-> start, enabled |-> FALSE]
  <2>1. f \in Forward
    BY <1>2 DEF Forward
  <2>2. forwards' = Extend(forwards, NewId, f) /\ tunnels' = tunnels /\ NewId \in Ids
    BY <1>3, <1>6 DEF CreatePaused, Mutated
  <2> HIDE DEF f
  <2>3. Carried(Without(forwards, {NewId})) \subseteq Carried(forwards')
    BY <1>1, <2>1, <2>2, ExtendCarries
  <2> QED BY <1>4, <2>2, <2>3 DEF NoStray, Orphans
<1>7. CASE CreateEnabled(ep, start)
  <2>1. PICK p \in Ports :
            LET f == [ep |-> ep, local |-> p, enabled |-> TRUE]
            IN  \E o \in Openings(tunnels, {Tunnel(f)}) :
                    IF o.ok = {}
                    THEN Failed(Plus(tunnels, o))
                    ELSE /\ tunnels' = Plus(tunnels, o)
                         /\ Mutated(Extend(forwards, NewId, f))
    BY <1>7 DEF CreateEnabled
  <2> DEFINE f == [ep |-> ep, local |-> p, enabled |-> TRUE]
  <2>2. PICK o \in Openings(tunnels, {Tunnel(f)}) :
            IF o.ok = {}
            THEN Failed(Plus(tunnels, o))
            ELSE tunnels' = Plus(tunnels, o) /\ Mutated(Extend(forwards, NewId, f))
    BY <2>1
  <2>3. f \in Forward /\ Held(f) = {Tunnel(f)} /\ NewId \in Ids
    BY <1>2, <1>3, <1>7 DEF Forward, Held, CreateEnabled
  <2> HIDE DEF f
  <2>4. CASE o.ok = {}
    <3>1. Plus(tunnels, o) = tunnels
      BY <2>4, CleanOpening
    <3> QED BY <2>2, <2>4, <3>1, UntouchedStrands DEF Failed
  <2>5. CASE o.ok # {}
    <3>1. forwards' = Extend(forwards, NewId, f)
      BY <2>2, <2>5 DEF Mutated
    <3>2. tunnels' = tunnels \cup {Tunnel(f)}
      BY <2>2, <2>5, CleanOpening
    <3>3. Carried(Without(forwards, {NewId})) \cup Held(f) \subseteq Carried(forwards')
      BY <1>1, <2>3, <3>1, ExtendCarries
    <3> QED BY <1>4, <2>3, <3>2, <3>3 DEF NoStray, Orphans
  <2> QED BY <2>4, <2>5
<1> QED BY <1>5, <1>6, <1>7 DEF Create

\* A forward is given up only after its tunnel.
LEMMA RemoveStrands ==
    ASSUME ~Ambiguous, IInv, NEW id, Remove(id) \/ Disable(id)
    PROVE  NoStray
<1> DEFINE f == forwards[id]
<1>1. forwards \in Registries /\ id \in DOMAIN forwards /\ f \in Forward /\ id \in Ids
  BY Shape DEF IInv, TypeOK, Remove, Disable, Enabled
<1>2. Carried(forwards) \subseteq Carried(Without(forwards, {id})) \cup Held(f)
  BY <1>1, WithoutCarries
<1>3. SetFlag(f, FALSE) \in Forward
  BY <1>1 DEF SetFlag, Forward
<1>4. Carried(Without(forwards, {id})) \subseteq Carried(Extend(forwards, id, SetFlag(f, FALSE)))
  BY <1>1, <1>3, ExtendCarries
<1>5. PICK o \in Closings(tunnels, Held(f)) :
        \/ o.ok = Held(f) /\ tunnels' = Minus(tunnels, o) /\ forwards' = Without(forwards, {id})
        \/ /\ o.ok = Held(f) /\ tunnels' = Minus(tunnels, o)
           /\ forwards' = Extend(forwards, id, SetFlag(f, FALSE))
        \/ o.ok # Held(f) /\ tunnels' = Minus(tunnels, o) /\ forwards' = forwards
  BY DEF Remove, Disable, Mutated, Failed
<1>6. Minus(tunnels, o) = tunnels \ o.ok /\ o.ok \subseteq Held(f)
  BY CleanClosing
<1>7. o.ok # Held(f) => o.ok = {}
  BY <1>6 DEF Held
<1> HIDE DEF f
<1>8. CASE o.ok = Held(f)
  <2>1. /\ tunnels' = tunnels \ Held(f)
        /\ Carried(Without(forwards, {id})) \subseteq Carried(forwards')
    BY <1>4, <1>5, <1>6, <1>8
  <2> QED BY <1>2, <2>1 DEF NoStray, Orphans
<1>9. CASE o.ok # Held(f)
  <2>1. tunnels' = tunnels /\ forwards' = forwards
    BY <1>5, <1>6, <1>7, <1>9
  <2> QED BY <2>1, UntouchedStrands
<1> QED BY <1>8, <1>9

\* A paused forward has no tunnel of its own to lose.
LEMMA EnableStrands ==
    ASSUME ~Ambiguous, IInv, NEW id, Enable(id)
    PROVE  NoStray
<1>1. /\ forwards \in Registries /\ forwards[id] \in Forward /\ id \in Ids
      /\ id \in DOMAIN forwards /\ Held(forwards[id]) = {}
  BY Shape DEF IInv, TypeOK, Enable, Enabled, Held
<1>2. Carried(forwards) \subseteq Carried(Without(forwards, {id}))
  BY <1>1, WithoutCarries
<1>3. PICK p \in Ports :
        LET f == SetFlag(SetLocal(forwards[id], p), TRUE)
        IN  \E o \in Openings(tunnels, {Tunnel(f)}) :
                IF o.ok = {}
                THEN Failed(Plus(tunnels, o))
                ELSE tunnels' = Plus(tunnels, o) /\ Mutated(Extend(forwards, id, f))
  BY DEF Enable
<1> DEFINE f == SetFlag(SetLocal(forwards[id], p), TRUE)
<1>4. PICK o \in Openings(tunnels, {Tunnel(f)}) :
            IF o.ok = {}
            THEN Failed(Plus(tunnels, o))
            ELSE tunnels' = Plus(tunnels, o) /\ Mutated(Extend(forwards, id, f))
  BY <1>3
<1>5. f \in Forward /\ f.enabled
  BY <1>1 DEF SetFlag, SetLocal, Forward
<1> HIDE DEF f
<1>6. Held(f) = {Tunnel(f)}
  BY <1>5 DEF Held
<1>7. CASE o.ok = {}
  <2>1. Plus(tunnels, o) = tunnels
    BY <1>7, CleanOpening
  <2> QED BY <1>4, <1>7, <2>1, UntouchedStrands DEF Failed
<1>8. CASE o.ok # {}
  <2>1. forwards' = Extend(forwards, id, f) /\ tunnels' = tunnels \cup {Tunnel(f)}
    BY <1>4, <1>8, CleanOpening DEF Mutated
  <2>2. Carried(Without(forwards, {id})) \cup Held(f) \subseteq Carried(forwards')
    BY <1>1, <1>5, <2>1, ExtendCarries
  <2> QED BY <1>2, <1>6, <2>1, <2>2 DEF NoStray, Orphans
<1> QED BY <1>7, <1>8

\* Whatever comes of the three calls of a remap, what is left open is what is shown.
LEMMA RemapStrands ==
    ASSUME ~Ambiguous, IInv, NEW id, NEW p \in 0..MaxPort,
           RemapPaused(id, p) \/ RemapEnabled(id, p)
    PROVE  NoStray
<1> DEFINE f == forwards[id]
           g == SetLocal(f, p)
<1>1. /\ id \in DOMAIN forwards /\ id \in Ids /\ f \in Forward /\ p \in Ports
      /\ forwards \in Registries
  BY PortAssumption, Shape
     DEF IInv, TypeOK, RemapPaused, RemapEnabled, Enabled, PortRefused, Ports
<1>2. Carried(forwards) \subseteq Carried(Without(forwards, {id})) \cup Held(f)
  BY <1>1, WithoutCarries
<1>3. g \in Forward /\ g.enabled = f.enabled
  BY <1>1 DEF SetLocal, Forward
<1>4. \A b \in BOOLEAN : /\ AfterRemap(f, b) \in Forward
                        /\ Held(AfterRemap(f, b)) = IF b THEN {Tunnel(f)} ELSE {}
  BY <1>1 DEF AfterRemap, SetFlag, Held, Tunnel, Forward
<1>5. Carried(Without(forwards, {id})) \cup Held(g) \subseteq Carried(Extend(forwards, id, g))
  BY <1>1, <1>3, ExtendCarries
<1>6. \A b \in BOOLEAN : Carried(Without(forwards, {id})) \cup Held(AfterRemap(f, b))
                            \subseteq Carried(Extend(forwards, id, AfterRemap(f, b)))
  BY <1>1, <1>4, ExtendCarries
<1>7. CASE RemapPaused(id, p)
  <2>1. forwards' = Extend(forwards, id, g) /\ tunnels' = tunnels
    BY <1>7 DEF RemapPaused, Mutated
  <2>2. Held(f) = {}
    BY <1>1, <1>7 DEF RemapPaused, Held, Enabled
  <2> HIDE DEF g, f
  <2> QED BY <1>2, <1>5, <2>1, <2>2 DEF NoStray, Orphans
<1>8. CASE RemapEnabled(id, p)
  <2>1. PICK c \in Closings(tunnels, {Tunnel(f)}) :
        IF c.ok = {}
        THEN tunnels' = Minus(tunnels, c) /\ Mutated(forwards)
        ELSE \E o \in Openings(Minus(tunnels, c), {Tunnel(g)}) :
             LET T == Plus(Minus(tunnels, c), o)
             IN  IF o.ok # {}
                 THEN tunnels' = T /\ Mutated(Extend(forwards, id, g))
                 ELSE \E r \in Openings(T, {Tunnel(f)}) :
                        /\ tunnels' = Plus(T, r)
                        /\ Mutated(Extend(forwards, id, AfterRemap(f, r.ok # {})))
    BY <1>8 DEF RemapEnabled
  <2>2. Held(f) = {Tunnel(f)} /\ Held(g) = {Tunnel(g)}
    BY <1>3, <1>8 DEF RemapEnabled, Held, Enabled
  <2> HIDE DEF f, g
  <2>3. Minus(tunnels, c) = tunnels \ c.ok /\ c.ok \subseteq {Tunnel(f)}
    BY CleanClosing
  <2>4. CASE c.ok = {}
    <3>1. tunnels' = tunnels /\ forwards' = forwards
      BY <2>1, <2>3, <2>4 DEF Mutated
    <3> QED BY <3>1, UntouchedStrands
  <2>5. CASE c.ok # {}
    <3> DEFINE U == Minus(tunnels, c)
    <3>1. U = tunnels \ Held(f)
      BY <2>2, <2>3, <2>5
    <3>2. PICK o \in Openings(U, {Tunnel(g)}) :
             LET T == Plus(U, o)
             IN  IF o.ok # {}
                 THEN tunnels' = T /\ Mutated(Extend(forwards, id, g))
                 ELSE \E r \in Openings(T, {Tunnel(f)}) :
                        /\ tunnels' = Plus(T, r)
                        /\ Mutated(Extend(forwards, id, AfterRemap(f, r.ok # {})))
      BY <2>1, <2>5
    <3> HIDE DEF U
    <3>3. CASE o.ok # {}
      <4>1. tunnels' = U \cup {Tunnel(g)} /\ forwards' = Extend(forwards, id, g)
        BY <3>2, <3>3, CleanOpening DEF Mutated
      <4> QED BY <1>2, <1>5, <2>2, <3>1, <4>1 DEF NoStray, Orphans
    <3>4. CASE o.ok = {}
      <4>1. Plus(U, o) = U
        BY <3>4, CleanOpening
      <4>2. PICK r \in Openings(U, {Tunnel(f)}) :
                /\ tunnels' = Plus(U, r)
                /\ forwards' = Extend(forwards, id, AfterRemap(f, r.ok # {}))
        BY <3>2, <3>4, <4>1 DEF Mutated
      <4>3. tunnels' \subseteq U \cup Held(AfterRemap(f, r.ok # {}))
        <5>1. r.ok = {} => Plus(U, r) = U
          BY CleanOpening
        <5>2. r.ok # {} => Plus(U, r) = U \cup {Tunnel(f)}
          BY CleanOpening
        <5>3. Held(AfterRemap(f, r.ok # {})) = IF r.ok # {} THEN {Tunnel(f)} ELSE {}
          BY <1>4
        <5> QED BY <4>2, <5>1, <5>2, <5>3
      <4>4. Carried(Without(forwards, {id})) \cup Held(AfterRemap(f, r.ok # {}))
                \subseteq Carried(forwards')
        BY <1>6, <4>2
      <4> QED BY <1>2, <3>1, <4>3, <4>4 DEF NoStray, Orphans
    <3> QED BY <3>3, <3>4
  <2> QED BY <2>4, <2>5
<1> QED BY <1>7, <1>8

\* Every tunnel a rollback opens is that of a forward it restores.
LEMMA RollbackStrands ==
    ASSUME ~Ambiguous, IInv, Rollback
    PROVE  Orphans' \subseteq tunnels
<1> DEFINE toCancel == NotCarried(forwards, saved)
           toOpen == NotCarried(saved, forwards)
<1>1. PICK c \in Closings(tunnels, {Tunnel(forwards[i]) : i \in toCancel}) :
      \E o \in Openings(Minus(tunnels, c), {Tunnel(saved[i]) : i \in toOpen}) :
        LET cancelled == {i \in toCancel : Tunnel(forwards[i]) \in c.ok}
            reopened == {i \in toOpen : Tunnel(saved[i]) \in o.ok}
        IN  /\ tunnels' = Plus(Minus(tunnels, c), o)
            /\ forwards' =
                IF cancelled = toCancel /\ reopened = toOpen
                THEN saved
                ELSE [i \in DOMAIN forwards \cup reopened |->
                        IF i \in reopened THEN saved[i]
                        ELSE IF i \in cancelled THEN SetFlag(forwards[i], FALSE)
                        ELSE forwards[i]]
  BY DEF Rollback
<1>2. PICK o \in Openings(Minus(tunnels, c), {Tunnel(saved[i]) : i \in toOpen}) :
        LET cancelled == {i \in toCancel : Tunnel(forwards[i]) \in c.ok}
            reopened == {i \in toOpen : Tunnel(saved[i]) \in o.ok}
        IN  /\ tunnels' = Plus(Minus(tunnels, c), o)
            /\ forwards' =
                IF cancelled = toCancel /\ reopened = toOpen
                THEN saved
                ELSE [i \in DOMAIN forwards \cup reopened |->
                        IF i \in reopened THEN saved[i]
                        ELSE IF i \in cancelled THEN SetFlag(forwards[i], FALSE)
                        ELSE forwards[i]]
  BY <1>1
<1> DEFINE cancelled == {i \in toCancel : Tunnel(forwards[i]) \in c.ok}
           reopened == {i \in toOpen : Tunnel(saved[i]) \in o.ok}
<1>3. o.lost = {} /\ o.ok \subseteq {Tunnel(saved[i]) : i \in toOpen}
  BY DEF Openings
<1>4. tunnels' \subseteq tunnels \cup o.ok
  BY <1>2, <1>3 DEF Plus, Minus
<1>5. ASSUME NEW t \in o.ok PROVE t \in Carried(forwards')
  <2>1. PICK i \in toOpen : t = Tunnel(saved[i])
    BY <1>3
  <2>2. i \in reopened /\ i \in DOMAIN saved /\ saved[i].enabled
    BY <1>5, <2>1 DEF NotCarried, Enabled
  <2>3. i \in DOMAIN forwards' /\ forwards'[i] = saved[i]
    <3>1. CASE cancelled = toCancel /\ reopened = toOpen
      BY <1>2, <2>2, <3>1
    <3>2. CASE ~(cancelled = toCancel /\ reopened = toOpen)
      <4>1. forwards' = [j \in DOMAIN forwards \cup reopened |->
                            IF j \in reopened THEN saved[j]
                            ELSE IF j \in cancelled THEN SetFlag(forwards[j], FALSE)
                            ELSE forwards[j]]
        BY <1>2, <3>2
      <4> HIDE DEF reopened, cancelled
      <4> QED BY <2>2, <4>1
    <3> QED BY <3>1, <3>2
  <2> QED BY <2>1, <2>2, <2>3 DEF Carried, Enabled
<1> QED BY <1>4, <1>5 DEF Orphans

\* What could not be cancelled at the end stays listed.
LEMMA CloseAllStrands ==
    ASSUME ~Ambiguous, IInv, CloseAll
    PROVE  NoStray
<1>1. PICK o \in Closings(tunnels, Carried(forwards)) :
        /\ tunnels' = Minus(tunnels, o)
        /\ forwards' = Without(forwards, {i \in DOMAIN forwards :
                forwards[i].enabled => Tunnel(forwards[i]) \in o.ok})
  BY DEF CloseAll
<1>2. tunnels' = tunnels \ o.ok
  BY <1>1, CleanClosing
<1> DEFINE S == {i \in DOMAIN forwards : forwards[i].enabled => Tunnel(forwards[i]) \in o.ok}
<1>3. forwards \in Registries /\ forwards' = Without(forwards, S)
  BY <1>1 DEF IInv, TypeOK
<1>4. ASSUME NEW i \in Enabled(forwards), Tunnel(forwards[i]) \notin o.ok
      PROVE  Tunnel(forwards[i]) \in Carried(forwards')
  <2>1. i \in DOMAIN forwards \ S /\ forwards[i].enabled
    BY <1>4 DEF Enabled
  <2> HIDE DEF S
  <2>2. i \in DOMAIN forwards' /\ forwards'[i] = forwards[i]
    BY <1>3, <2>1, WithoutShape
  <2> QED BY <2>1, <2>2 DEF Carried, Enabled
<1>5. Carried(forwards) \ o.ok \subseteq Carried(forwards')
  BY <1>4 DEF Carried
<1> QED BY <1>2, <1>5 DEF NoStray, Orphans

\* One case per action; on a link that is up nothing is replayed.
LEMMA StepStrands ==
    ASSUME ~Ambiguous, IInv, [Next]_vars, link = "up", link' = "up"
    PROVE  Orphans' \subseteq Orphans \cup (IF phase = "persist" THEN tunnels ELSE {})
<1>1. CASE Rollback
  BY <1>1, RollbackStrands DEF Rollback
<1>2. CASE NoStray
  BY <1>2 DEF NoStray
<1>3. CASE \E port \in RemotePorts, host \in RawHosts, preferred \in 0..MaxPort :
            Create(port, host, preferred)
  BY <1>2, <1>3, CreateStrands
<1>4. CASE \E id \in Ids : Remove(id) \/ Disable(id) \/ Enable(id)
  BY <1>2, <1>4, RemoveStrands, EnableStrands
<1>5. CASE \E id \in Ids, p \in 0..MaxPort : RemapPaused(id, p) \/ RemapEnabled(id, p)
  BY <1>2, <1>5, RemapStrands
<1>6. CASE CloseAll
  BY <1>2, <1>6, CloseAllStrands
<1>7. CASE \/ ReplayBegin \/ ReplayFail \/ ReplayDone \/ LinkLost \/ Reconnected
           \/ \E id \in Ids : ReplayOpen(id)
  BY <1>7 DEF ReplayBegin, ReplayFail, ReplayDone, LinkLost, Reconnected, ReplayOpen,
      IInv, ReplayInv
<1>8. CASE \/ NoChange \/ Commit
           \/ (\E id \in Ids : EnableNoPort(id))
           \/ (\E id \in Ids, p \in 0..MaxPort : RemapRefused(id, p))
           \/ (\E p \in Ports : PortTaken(p) \/ PortReleased(p))
           \/ UNCHANGED vars
  <2>1. forwards' = forwards /\ tunnels' = tunnels
    BY <1>8 DEF NoChange, Commit, EnableNoPort, RemapRefused, PortTaken, PortReleased,
        Mutated, Failed, vars
  <2> QED BY <1>2, <2>1, UntouchedStrands
<1> QED BY <1>1, <1>3, <1>4, <1>5, <1>6, <1>7, <1>8 DEF Next

OrphanStep ==
    link = "up" /\ link' = "up" =>
        Orphans' \subseteq Orphans \cup (IF phase = "persist" THEN tunnels ELSE {})

\* If a failed SSH call has no effect, no operation on a settled link leaves a tunnel
\* behind that it opened or whose forward it gave up, except a rollback that could not
\* cancel it.
THEOREM Ownership == ASSUME ~Ambiguous PROVE Spec => NoNewOrphans
<1>1. IInv /\ [Next]_vars => OrphanStep
  BY StepStrands DEF OrphanStep
<1> QED BY <1>1, Invariance, PTL DEF Spec, NoNewOrphans, OrphanStep

\* The tunnels follow the registry, if a failed SSH call has no effect and no request
\* runs during a recovery.
THEOREM Following == ASSUME ~Ambiguous, ~LateRequests PROVE Spec => TunnelsFollow
BY Ownership, Exact, Moves DEF TunnelsFollow
=============================================================================
