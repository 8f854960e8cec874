-------------------------- MODULE PreferencesProofs --------------------------
(***************************************************************************)
(* Proofs about Preferences, for any number of companions, ports, hosts and *)
(* failing calls: the types, that the files implement SharedPreferences,    *)
(* that pauses survive, that a failed transaction is undone, that the       *)
(* state files are current, and that the files agree with the registry of a *)
(* companion that has them for itself.                                     *)
(*                                                                         *)
(* The argument: a transaction changes the registry at one endpoint, hence  *)
(* one rule or one pause but never both (Delta).  So from its first write to *)
(* its last the files are what it found or differ from that in one key, and  *)
(* nobody else writes them meanwhile (Mutex).  A companion alone with the   *)
(* files finds them in agreement with its registry, and by Delta leaves    *)
(* them so (Lone).                                                         *)
(***************************************************************************)
EXTENDS Preferences, FiniteSetTheorems, TLAPS

Mutating == {"manual", "paused", "state"}
Undoing  == {"undo manual", "undo paused", "undo state"}
Working  == Mutating \cup Undoing

\* The registries old and now differ at no endpoint but ep, whose kind stays.
ChangeAt(ep, old, now) ==
    /\ DOMAIN old \ {ep} = DOMAIN now \ {ep}
    /\ \A e \in DOMAIN old \ {ep} : old[e] = now[e]
    /\ ep \in DOMAIN old \cap DOMAIN now => old[ep].auto = now[ep].auto
OneChange(old, now) == old = now \/ \E ep \in Endpoints : ChangeAt(ep, old, now)

Mutex == \A c, d \in lock : c = d

\* How far the holder of the lock has come.
Progress(c) ==
    /\ pc[c] \in Mutating => OneChange(before[c], reg[c])
    /\ pc[c] = "manual" => manual = saved[c].manual /\ paused = saved[c].paused
    /\ pc[c] = "paused" => /\ manual = NewRules(before[c], reg[c], saved[c].manual)
                           /\ paused = saved[c].paused
    /\ pc[c] = "state"  => /\ manual = NewRules(before[c], reg[c], saved[c].manual)
                           /\ paused = NewPaused(before[c], reg[c], saved[c].paused)

\* What may be left of a transaction that is undone.
PausedBefore(c, p) ==
    \E ep \in DOMAIN before[c] :
        Port(ep) = p /\ before[c][ep].auto /\ ~before[c][ep].enabled
Undo(c) ==
    pc[c] \in Undoing =>
        /\ manual = saved[c].manual \/ paused = saved[c].paused
        /\ \A p \in saved[c].paused \ paused : PausedBefore(c, p)
        /\ failures >= 1
        /\ failures = 1 =>
             /\ reg[c] = before[c]
             /\ pc[c] # "undo manual" => manual = saved[c].manual
             /\ pc[c] = "undo state" => paused = saved[c].paused

Current(c) == pc[c] = "idle" /\ failures <= 1 => state[c] = reg[c]

IInv ==
    /\ TypeOK
    /\ Mutex
    /\ \A c \in Companions : Progress(c) /\ Undo(c) /\ Current(c)

-----------------------------------------------------------------------------
(* Registries and rules are functions on endpoints.                        *)

LEMMA RegistryShape ==
    ASSUME NEW F
    PROVE  F \in Registries <=> DOMAIN F \subseteq Endpoints /\ F \in [DOMAIN F -> Forward]
BY DEF Registries

LEMMA RulesShape ==
    ASSUME NEW F
    PROVE  F \in Rules <=> DOMAIN F \subseteq Endpoints /\ F \in [DOMAIN F -> Rule]
BY DEF Rules

LEMMA EmptyShape == Empty \in Registries /\ Empty \in Rules
<1>1. Empty \in [{} -> Forward] /\ Empty \in [{} -> Rule]
  BY DEF Empty
<1>2. {} \in SUBSET Endpoints
  OBVIOUS
<1> QED BY <1>1, <1>2 DEF Registries, Rules

LEMMA PortType == \A ep \in Endpoints : Port(ep) \in RemotePorts
BY DEF Port, Endpoints

-----------------------------------------------------------------------------
(* What one change of the registry does to the files.                      *)

LEMMA DeltaRules ==
    ASSUME NEW old \in Registries, NEW now \in Registries, NEW rules \in Rules,
           NEW ep \in Endpoints, ChangeAt(ep, old, now)
    PROVE  /\ NewRules(old, now, rules) \in Rules
           /\ Shared!SameBut(ep, rules, NewRules(old, now, rules))
           /\ \/ NewRules(old, now, rules) = rules
              \/ ep \in DOMAIN old /\ ~old[ep].auto
              \/ ep \in DOMAIN now /\ ~now[ep].auto
<1> DEFINE gone == {e \in DOMAIN old \ DOMAIN now : ~old[e].auto}
           updated == {e \in DOMAIN now :
             ~now[e].auto /\ (e \in DOMAIN old => AsRule(old[e]) # AsRule(now[e]))}
           new == NewRules(old, now, rules)
<1>1. new = [e \in (DOMAIN rules \ gone) \cup updated |->
               IF e \in updated THEN AsRule(now[e]) ELSE rules[e]]
  BY DEF NewRules
<1>2. gone \subseteq {ep} /\ updated \subseteq {ep}
  BY DEF ChangeAt
<1>3. DOMAIN rules \subseteq Endpoints /\ rules \in [DOMAIN rules -> Rule]
  BY RulesShape
<1>4. \A e \in updated : AsRule(now[e]) \in Rule
  <2> TAKE e \in updated
  <2>1. now[e] \in Forward
    BY RegistryShape
  <2> QED BY <2>1 DEF AsRule, Rule, Forward
<1> HIDE DEF gone, updated
<1>5. DOMAIN new = (DOMAIN rules \ gone) \cup updated
  BY <1>1
<1>6. DOMAIN new \subseteq Endpoints
  BY <1>5, <1>2, <1>3
<1>7. \A e \in DOMAIN new : new[e] \in Rule
  BY <1>1, <1>3, <1>4
<1>8. new \in Rules
  <2>1. new \in [DOMAIN new -> Rule]
    BY <1>1, <1>7, <1>5
  <2> QED BY <2>1, <1>6, RulesShape
<1>9. Shared!SameBut(ep, rules, new)
  <2>1. DOMAIN rules \ {ep} = DOMAIN new \ {ep}
    BY <1>5, <1>2
  <2>2. \A e \in DOMAIN rules \ {ep} : rules[e] = new[e]
    BY <1>1, <1>2
  <2> QED BY <2>1, <2>2 DEF Shared!SameBut
<1>10. gone = {} /\ updated = {} => new = rules
  BY <1>1, <1>3
<1>11. \/ gone = {} /\ updated = {}
       \/ ep \in DOMAIN old /\ ~old[ep].auto
       \/ ep \in DOMAIN now /\ ~now[ep].auto
  BY <1>2 DEF gone, updated
<1> QED BY <1>8, <1>9, <1>10, <1>11

LEMMA DeltaPaused ==
    ASSUME NEW old \in Registries, NEW now \in Registries, NEW ports \in SUBSET RemotePorts,
           NEW ep \in Endpoints, ChangeAt(ep, old, now)
    PROVE  /\ NewPaused(old, now, ports) \in SUBSET RemotePorts
           /\ ports \ {Port(ep)} = NewPaused(old, now, ports) \ {Port(ep)}
           /\ NewPaused(old, now, ports) = ports \/ (ep \in DOMAIN now /\ now[ep].auto)
           /\ \A p \in ports \ NewPaused(old, now, ports) :
                /\ p = Port(ep) /\ ep \in DOMAIN old \cap DOMAIN now
                /\ old[ep].auto /\ ~old[ep].enabled /\ now[ep].enabled
<1> DEFINE auto == {e \in DOMAIN now : now[e].auto}
           off == {e \in auto : ~now[e].enabled /\ (e \in DOMAIN old => old[e].enabled)}
           on == {e \in auto \cap DOMAIN old : now[e].enabled /\ ~old[e].enabled}
           new == NewPaused(old, now, ports)
<1>1. new = (ports \cup {Port(e) : e \in off}) \ {Port(e) : e \in on}
  BY DEF NewPaused
<1>2. off \subseteq {ep} /\ on \subseteq {ep}
  <2>1. \A e \in DOMAIN now \ {ep} : e \in DOMAIN old /\ old[e] = now[e]
    BY DEF ChangeAt
  <2> QED BY <2>1
<1>3. Port(ep) \in RemotePorts
  BY PortType
<1>4. on # {} => /\ ep \in DOMAIN old \cap DOMAIN now
                 /\ old[ep].auto /\ ~old[ep].enabled /\ now[ep].enabled
  BY <1>2 DEF ChangeAt
<1>5. on # {} \/ off # {} => ep \in DOMAIN now /\ now[ep].auto
  BY <1>2
<1> HIDE DEF off, on, new
<1>6. new \in SUBSET RemotePorts
  BY <1>1, <1>2, <1>3
<1>7. ports \ {Port(ep)} = new \ {Port(ep)}
  BY <1>1, <1>2
<1>8. off = {} /\ on = {} => new = ports
  BY <1>1
<1>9. \A p \in ports \ new : p = Port(ep) /\ on # {}
  BY <1>1, <1>2
<1> QED BY <1>4, <1>5, <1>6, <1>7, <1>8, <1>9 DEF new

\* One change of the registry is one change of one of the two files, or none.
OneDelta(old, now, rules, ports) ==
    LET nr == NewRules(old, now, rules)
        np == NewPaused(old, now, ports)
    IN  /\ nr \in Rules /\ np \in SUBSET RemotePorts
        /\ nr = rules \/ np = ports
        /\ nr = rules \/ \E ep \in Endpoints : Shared!SameBut(ep, rules, nr)
        /\ np = ports \/ \E p \in RemotePorts : ports \ {p} = np \ {p}
        /\ \A p \in ports \ np : \E ep \in Endpoints :
             /\ p = Port(ep) /\ ep \in DOMAIN old \cap DOMAIN now
             /\ old[ep].auto /\ ~old[ep].enabled /\ now[ep].enabled

LEMMA Delta ==
    ASSUME NEW old \in Registries, NEW now \in Registries, OneChange(old, now),
           NEW rules \in Rules, NEW ports \in SUBSET RemotePorts
    PROVE  OneDelta(old, now, rules, ports)
<1>1. CASE old = now
  <2>1. NewRules(old, now, rules) = rules
    <3> DEFINE gone == {e \in DOMAIN old \ DOMAIN now : ~old[e].auto}
               updated == {e \in DOMAIN now :
                 ~now[e].auto /\ (e \in DOMAIN old => AsRule(old[e]) # AsRule(now[e]))}
    <3>1. gone = {} /\ updated = {}
      BY <1>1
    <3>2. NewRules(old, now, rules) = [e \in (DOMAIN rules \ gone) \cup updated |->
               IF e \in updated THEN AsRule(now[e]) ELSE rules[e]]
      BY DEF NewRules
    <3>3. rules \in [DOMAIN rules -> Rule]
      BY RulesShape
    <3> HIDE DEF gone, updated
    <3> QED BY <3>1, <3>2, <3>3
  <2>2. NewPaused(old, now, ports) = ports
    BY <1>1 DEF NewPaused
  <2> QED BY <2>1, <2>2 DEF OneDelta
<1>2. CASE \E ep \in Endpoints : ChangeAt(ep, old, now)
  <2> PICK ep \in Endpoints : ChangeAt(ep, old, now)
    BY <1>2
  <2>1. Port(ep) \in RemotePorts
    BY PortType
  <2>2. ep \in DOMAIN old \cap DOMAIN now => old[ep].auto = now[ep].auto
    BY DEF ChangeAt
  <2>3. NewRules(old, now, rules) = rules \/ NewPaused(old, now, ports) = ports
    BY <2>2, DeltaRules, DeltaPaused
  <2> QED BY <2>1, <2>3, DeltaRules, DeltaPaused DEF OneDelta
<1> QED BY <1>1, <1>2 DEF OneChange
-----------------------------------------------------------------------------
(* Every request is a transaction that changes one endpoint.               *)

LEMMA PortsType == Ports \subseteq Locals
BY LocalsAssumption DEF Ports

LEMMA WithShape ==
    ASSUME NEW F \in Registries, NEW ep \in Endpoints, NEW f \in Forward
    PROVE  /\ With(F, ep, f) \in Registries
           /\ (ep \in DOMAIN F => F[ep].auto = f.auto) => ChangeAt(ep, F, With(F, ep, f))
<1>1. F \in [DOMAIN F -> Forward] /\ DOMAIN F \subseteq Endpoints
  BY RegistryShape
<1>2. /\ DOMAIN With(F, ep, f) = DOMAIN F \cup {ep}
      /\ With(F, ep, f) \in [DOMAIN F \cup {ep} -> Forward]
  BY <1>1 DEF With
<1>3. With(F, ep, f) \in Registries
  BY <1>1, <1>2, RegistryShape
<1>4. ASSUME ep \in DOMAIN F => F[ep].auto = f.auto PROVE ChangeAt(ep, F, With(F, ep, f))
  BY <1>1, <1>4 DEF With, ChangeAt
<1> QED BY <1>3, <1>4

LEMMA WithoutShape ==
    ASSUME NEW F \in Registries, NEW ep \in Endpoints
    PROVE  Without(F, ep) \in Registries /\ ChangeAt(ep, F, Without(F, ep))
<1>1. F \in [DOMAIN F -> Forward] /\ DOMAIN F \subseteq Endpoints
  BY RegistryShape
<1>2. /\ DOMAIN Without(F, ep) = DOMAIN F \ {ep}
      /\ Without(F, ep) \in [DOMAIN F \ {ep} -> Forward]
  BY <1>1 DEF Without
<1>3. Without(F, ep) \in Registries
  BY <1>1, <1>2, RegistryShape
<1> QED BY <1>1, <1>3 DEF Without, ChangeAt

\* A forward keeps its kind and changes otherwise.
LEMMA ExceptShape ==
    ASSUME NEW F \in Registries, NEW ep \in DOMAIN F, NEW p \in Locals, NEW b \in BOOLEAN
    PROVE  LET G == [F EXCEPT ![ep] = [F[ep] EXCEPT !.local = p, !.enabled = b]]
           IN  G \in Registries /\ ep \in Endpoints /\ ChangeAt(ep, F, G)
<1> DEFINE G == [F EXCEPT ![ep] = [F[ep] EXCEPT !.local = p, !.enabled = b]]
<1>1. F \in [DOMAIN F -> Forward] /\ DOMAIN F \subseteq Endpoints
  BY RegistryShape
<1>2. F[ep] \in Forward
  BY <1>1
<1>3. /\ [F[ep] EXCEPT !.local = p, !.enabled = b] \in Forward
      /\ [F[ep] EXCEPT !.local = p, !.enabled = b].auto = F[ep].auto
  BY <1>2 DEF Forward
<1>4. G \in [DOMAIN F -> Forward] /\ DOMAIN G = DOMAIN F
  BY <1>1, <1>3
<1>5. G \in Registries
  BY <1>1, <1>4, RegistryShape
<1>6. G[ep].auto = F[ep].auto /\ \A e \in DOMAIN F \ {ep} : G[e] = F[e]
  BY <1>1, <1>3
<1> QED BY <1>1, <1>4, <1>5, <1>6 DEF ChangeAt

LEMMA RequestIsTransact ==
    ASSUME TypeOK, NEW c \in Companions, Request(c)
    PROVE  \E F \in Registries : OneChange(reg[c], F) /\ Transact(c, F)
<1> DEFINE Claim == \E F \in Registries : OneChange(reg[c], F) /\ Transact(c, F)
<1>0. reg[c] \in Registries
  BY DEF TypeOK
<1>1. CASE ChangeNothing(c)
  BY <1>0, <1>1 DEF ChangeNothing, OneChange
<1>2. ASSUME NEW ep \in Endpoints, CreateAutomatic(c, ep) PROVE Claim
  <2>1. PICK p \in Ports : Transact(c, With(reg[c], ep,
            [auto |-> TRUE, local |-> p, enabled |-> StartsEnabled(ep)]))
    BY <1>2 DEF CreateAutomatic
  <2>2. [auto |-> TRUE, local |-> p, enabled |-> StartsEnabled(ep)] \in Forward
    BY PortsType DEF Forward, StartsEnabled
  <2>3. ep \notin DOMAIN reg[c]
    BY <1>2 DEF CreateAutomatic
  <2> QED BY <1>0, <2>1, <2>2, <2>3, WithShape DEF OneChange
<1>3. ASSUME NEW ep \in Endpoints, CreateManual(c, ep) PROVE Claim
  <2>1. PICK p \in Ports : Transact(c, With(reg[c], ep,
            [auto |-> FALSE, local |-> p, enabled |-> TRUE]))
    BY <1>3 DEF CreateManual
  <2>2. [auto |-> FALSE, local |-> p, enabled |-> TRUE] \in Forward
    BY PortsType DEF Forward
  <2>3. ep \notin DOMAIN reg[c]
    BY <1>3 DEF CreateManual
  <2> QED BY <1>0, <2>1, <2>2, <2>3, WithShape DEF OneChange
<1>4. ASSUME NEW ep \in Endpoints, Remove(c, ep) PROVE Claim
  BY <1>0, <1>4, WithoutShape DEF Remove, OneChange
<1>5. ASSUME NEW ep \in DOMAIN reg[c], NEW p \in Locals, NEW b \in BOOLEAN,
             Transact(c, [reg[c] EXCEPT ![ep] = [reg[c][ep] EXCEPT !.local = p, !.enabled = b]])
      PROVE  Claim
  BY <1>0, <1>5, ExceptShape DEF OneChange
<1>6. ASSUME NEW ep \in DOMAIN reg[c] PROVE reg[c][ep] \in Forward
  BY <1>0, RegistryShape
<1>7. ASSUME NEW ep \in Endpoints, Pause(c, ep) PROVE Claim
  <2>1. ep \in DOMAIN reg[c] /\ Transact(c, [reg[c] EXCEPT ![ep].enabled = FALSE])
    BY <1>7 DEF Pause
  <2>2. [reg[c] EXCEPT ![ep].enabled = FALSE]
          = [reg[c] EXCEPT ![ep] = [reg[c][ep] EXCEPT !.local = reg[c][ep].local, !.enabled = FALSE]]
    BY <2>1, <1>6 DEF Forward
  <2>3. reg[c][ep].local \in Locals
    BY <2>1, <1>6 DEF Forward
  <2> QED BY <2>1, <2>2, <2>3, <1>5
<1>8. ASSUME NEW ep \in Endpoints, Resume(c, ep) PROVE Claim
  <2>1. PICK p \in Ports : Transact(c, [reg[c] EXCEPT ![ep].enabled = TRUE, ![ep].local = p])
    BY <1>8 DEF Resume
  <2>2. ep \in DOMAIN reg[c]
    BY <1>8 DEF Resume
  <2>3. [reg[c] EXCEPT ![ep].enabled = TRUE, ![ep].local = p]
          = [reg[c] EXCEPT ![ep] = [reg[c][ep] EXCEPT !.local = p, !.enabled = TRUE]]
    BY <2>2, <1>0, <1>6, RegistryShape DEF Forward
  <2> QED BY <2>1, <2>2, <2>3, <1>5, PortsType
<1>9. ASSUME NEW ep \in Endpoints, Remap(c, ep) PROVE Claim
  <2>1. PICK p \in Ports \ {reg[c][ep].local} :
            \/ Transact(c, [reg[c] EXCEPT ![ep].local = p])
            \/ Transact(c, [reg[c] EXCEPT ![ep].enabled = FALSE])
    BY <1>9 DEF Remap
  <2>2. ep \in DOMAIN reg[c]
    BY <1>9 DEF Remap
  <2>3. [reg[c] EXCEPT ![ep].local = p]
          = [reg[c] EXCEPT ![ep] = [reg[c][ep] EXCEPT !.local = p, !.enabled = reg[c][ep].enabled]]
    BY <2>2, <1>6 DEF Forward
  <2>4. [reg[c] EXCEPT ![ep].enabled = FALSE]
          = [reg[c] EXCEPT ![ep] = [reg[c][ep] EXCEPT !.local = reg[c][ep].local, !.enabled = FALSE]]
    BY <2>2, <1>6 DEF Forward
  <2>5. reg[c][ep].local \in Locals /\ reg[c][ep].enabled \in BOOLEAN
    BY <2>2, <1>6 DEF Forward
  <2>6. CASE Transact(c, [reg[c] EXCEPT ![ep].local = p])
    BY <2>2, <2>3, <2>5, <2>6, <1>5, PortsType
  <2>7. CASE Transact(c, [reg[c] EXCEPT ![ep].enabled = FALSE])
    BY <2>2, <2>4, <2>5, <2>7, <1>5
  <2> QED BY <2>1, <2>6, <2>7
<1> QED BY <1>1, <1>2, <1>3, <1>4, <1>7, <1>8, <1>9 DEF Request
-----------------------------------------------------------------------------
(* The invariant.                                                          *)

LEMMA InitInv == Init => IInv
<1> SUFFICES ASSUME Init PROVE IInv
  OBVIOUS
<1>1. NoPrefs \in [manual : Rules, paused : SUBSET RemotePorts]
  BY EmptyShape DEF NoPrefs
<1>2. TypeOK
  BY <1>1, EmptyShape, FailuresAssumption DEF Init, TypeOK
<1>3. Mutex
  BY DEF Init, Mutex
<1>4. \A c \in Companions : Progress(c) /\ Undo(c) /\ Current(c)
  BY DEF Init, Progress, Undo, Current, Mutating, Undoing
<1> QED BY <1>2, <1>3, <1>4 DEF IInv

\* Nobody works but the holder of the lock.
LEMMA HolderWorks ==
    ASSUME IInv, NEW c \in Companions, pc[c] \in Working
    PROVE  lock = {c} /\ \A d \in Companions \ {c} : pc[d] \notin Working
<1>1. lock = {d \in Companions : pc[d] \in Working}
  BY DEF IInv, TypeOK, Working, Mutating, Undoing
<1>2. \A d, e \in lock : d = e
  BY DEF IInv, Mutex
<1> QED BY <1>1, <1>2

LEMMA PrefsType ==
    ASSUME TypeOK
    PROVE  Prefs \in [manual : Rules, paused : SUBSET RemotePorts]
BY DEF TypeOK, Prefs

\* The local state of the others does not depend on what the holder of the lock does.
LEMMA Frame ==
    ASSUME IInv, NEW c \in Companions, NEW d \in Companions \ {c},
           pc'[d] = pc[d], reg'[d] = reg[d], state'[d] = state[d],
           failures \in Nat, failures' \in Nat, failures <= failures',
           pc[d] \notin Working
    PROVE  (Progress(d) /\ Undo(d) /\ Current(d))'
<1>1. Progress(d)' /\ Undo(d)'
  BY DEF Progress, Undo, Working, Mutating, Undoing
<1>2. Current(d)'
  <2>1. Current(d)
    BY DEF IInv
  <2> QED BY <2>1 DEF Current
<1> QED BY <1>1, <1>2

LEMMA BoundType == MaxFailures \in Nat /\ 1 <= MaxFailures
<1>1. MaxFailures \in Nat /\ MaxFailures # 0
  BY FailuresAssumption
<1> QED BY <1>1

LEMMA CountType == \A n \in 0..MaxFailures : n \in Nat /\ n <= n
BY BoundType

LEMMA Between ==
    ASSUME NEW m \in Nat, NEW n \in Nat, m >= 1, m <= n
    PROVE  n >= 1 /\ (n = 1 => m = 1)
OBVIOUS

LEMMA CountFacts ==
    ASSUME TypeOK
    PROVE  failures \in 0..MaxFailures /\ failures \in Nat /\ failures <= failures
<1>1. failures \in 0..MaxFailures
  BY DEF TypeOK
<1> QED BY <1>1, CountType

\* Who leaves the files and the state of d alone leaves the parts of the invariant about d.
LEMMA FrameFiles ==
    ASSUME IInv, NEW d \in Companions, UNCHANGED <<manual, paused>>,
           pc'[d] = pc[d], reg'[d] = reg[d], state'[d] = state[d],
           saved'[d] = saved[d], before'[d] = before[d],
           failures \in Nat, failures' \in Nat, failures <= failures'
    PROVE  (Progress(d) /\ Undo(d) /\ Current(d))'
<1>1. Progress(d) /\ Undo(d) /\ Current(d)
  BY DEF IInv
<1>2. Progress(d)'
  BY <1>1 DEF Progress
<1>3. Current(d)'
  BY <1>1 DEF Current
<1>4. Undo(d)'
  <2> SUFFICES ASSUME pc[d] \in Undoing PROVE Undo(d)'
    BY DEF Undo
  <2>1. /\ manual = saved[d].manual \/ paused = saved[d].paused
        /\ \A p \in saved[d].paused \ paused : PausedBefore(d, p)
        /\ failures >= 1
        /\ failures = 1 =>
             /\ reg[d] = before[d]
             /\ pc[d] # "undo manual" => manual = saved[d].manual
             /\ pc[d] = "undo state" => paused = saved[d].paused
    BY <1>1 DEF Undo
  <2>2. failures' >= 1 /\ (failures' = 1 => failures = 1)
    BY <2>1, Between
  <2> QED BY <2>1, <2>2 DEF Undo, PausedBefore
<1> QED BY <1>2, <1>3, <1>4

LEMMA TransactInv ==
    ASSUME IInv, NEW c \in Companions, NEW F \in Registries, OneChange(reg[c], F),
           Transact(c, F), UNCHANGED present
    PROVE  IInv'
<1> USE DEF Transact
<1>0. TypeOK
  BY DEF IInv
<1>1. TypeOK'
  <2>1. lock' = {d \in Companions : pc'[d] \notin {"down", "idle", "ending"}}
    BY <1>0 DEF TypeOK
  <2>2. saved' \in [Companions -> [manual : Rules, paused : SUBSET RemotePorts]]
    BY <1>0, PrefsType DEF TypeOK
  <2> QED BY <1>0, <2>1, <2>2 DEF TypeOK
<1>2. Mutex'
  BY DEF Mutex, Free
<1>3. lock = {} /\ \A d \in Companions : pc[d] \notin Working
  BY <1>0 DEF Free, TypeOK, Working, Mutating, Undoing
<1>4. (Progress(c) /\ Undo(c) /\ Current(c))'
  <2>1. pc'[c] = "manual" /\ before'[c] = reg[c] /\ reg'[c] = F /\ saved'[c] = Prefs
    BY <1>0 DEF TypeOK
  <2>2. saved'[c].manual = manual' /\ saved'[c].paused = paused'
    BY <2>1 DEF Prefs
  <2>3. Progress(c)'
    BY <2>1, <2>2 DEF Progress, Mutating
  <2> QED BY <2>1, <2>3 DEF Undo, Current, Undoing
<1>5. ASSUME NEW d \in Companions \ {c} PROVE (Progress(d) /\ Undo(d) /\ Current(d))'
  <2>1. pc'[d] = pc[d] /\ reg'[d] = reg[d] /\ state'[d] = state[d] /\ failures' = failures
    BY <1>0 DEF TypeOK
  <2>2. failures \in Nat
    BY <1>0, CountType DEF TypeOK
  <2> QED BY <2>1, <2>2, <1>3, Frame
<1> QED BY <1>1, <1>2, <1>4, <1>5 DEF IInv

LEMMA WriteManualInv ==
    ASSUME IInv, NEW c \in Companions, WriteManual(c), UNCHANGED present
    PROVE  IInv'
<1> USE DEF WriteManual, Goto
<1>0. TypeOK /\ Progress(c)
  BY DEF IInv
<1>1. /\ pc[c] = "manual" /\ pc'[c] = "paused"
      /\ OneChange(before[c], reg[c])
      /\ manual = saved[c].manual /\ paused = saved[c].paused
  BY <1>0 DEF TypeOK, Progress, Mutating
<1>2. before[c] \in Registries /\ reg[c] \in Registries
  BY <1>0 DEF TypeOK
<1>3. manual' \in Rules
  <2>1. manual \in Rules /\ paused \in SUBSET RemotePorts
    BY <1>0 DEF TypeOK
  <2>2. OneChange(before[c], reg[c])
    BY <1>1
  <2>3. OneDelta(before[c], reg[c], manual, paused)
    BY <2>1, <2>2, <1>2, Delta, Zenon
  <2> QED BY <2>3 DEF OneDelta
<1>4. TypeOK'
  <2>1. lock' = {d \in Companions : pc'[d] \notin {"down", "idle", "ending"}}
    BY <1>0, <1>1 DEF TypeOK
  <2> QED BY <1>0, <1>3, <2>1 DEF TypeOK
<1>5. Mutex'
  BY DEF IInv, Mutex
<1>6. (Progress(c) /\ Undo(c) /\ Current(c))'
  BY <1>1 DEF Progress, Undo, Current, Mutating, Undoing
<1>7. ASSUME NEW d \in Companions \ {c} PROVE (Progress(d) /\ Undo(d) /\ Current(d))'
  <2>1. pc'[d] = pc[d] /\ reg'[d] = reg[d] /\ state'[d] = state[d] /\ failures' = failures
    BY <1>0 DEF TypeOK
  <2>2. failures \in Nat
    BY <1>0, CountType DEF TypeOK
  <2>3. pc[d] \notin Working
    BY <1>1, HolderWorks DEF Working, Mutating
  <2> QED BY <2>1, <2>2, <2>3, Frame
<1> QED BY <1>4, <1>5, <1>6, <1>7 DEF IInv

LEMMA WritePausedInv ==
    ASSUME IInv, NEW c \in Companions, WritePaused(c), UNCHANGED present
    PROVE  IInv'
<1> USE DEF WritePaused, Goto
<1>0. TypeOK /\ Progress(c)
  BY DEF IInv
<1>1. /\ pc[c] = "paused" /\ pc'[c] = "state"
      /\ OneChange(before[c], reg[c])
      /\ manual = NewRules(before[c], reg[c], saved[c].manual) /\ paused = saved[c].paused
  BY <1>0 DEF TypeOK, Progress, Mutating
<1>2. before[c] \in Registries /\ reg[c] \in Registries
  BY <1>0 DEF TypeOK
<1>3. paused' \in SUBSET RemotePorts
  <2>1. manual \in Rules /\ paused \in SUBSET RemotePorts
    BY <1>0 DEF TypeOK
  <2>2. OneChange(before[c], reg[c])
    BY <1>1
  <2>3. OneDelta(before[c], reg[c], manual, paused)
    BY <2>1, <2>2, <1>2, Delta, Zenon
  <2> QED BY <2>3 DEF OneDelta
<1>4. TypeOK'
  <2>1. lock' = {d \in Companions : pc'[d] \notin {"down", "idle", "ending"}}
    BY <1>0, <1>1 DEF TypeOK
  <2> QED BY <1>0, <1>3, <2>1 DEF TypeOK
<1>5. Mutex'
  BY DEF IInv, Mutex
<1>6. (Progress(c) /\ Undo(c) /\ Current(c))'
  BY <1>1 DEF Progress, Undo, Current, Mutating, Undoing
<1>7. ASSUME NEW d \in Companions \ {c} PROVE (Progress(d) /\ Undo(d) /\ Current(d))'
  <2>1. pc'[d] = pc[d] /\ reg'[d] = reg[d] /\ state'[d] = state[d] /\ failures' = failures
    BY <1>0 DEF TypeOK
  <2>2. failures \in Nat
    BY <1>0, CountType DEF TypeOK
  <2>3. pc[d] \notin Working
    BY <1>1, HolderWorks DEF Working, Mutating
  <2> QED BY <2>1, <2>2, <2>3, Frame
<1> QED BY <1>4, <1>5, <1>6, <1>7 DEF IInv

LEMMA NoPrefsType == NoPrefs \in [manual : Rules, paused : SUBSET RemotePorts]
BY EmptyShape DEF NoPrefs

\* A companion that leaves its transaction leaves the types and the lock in order.
LEMMA DoneInv ==
    ASSUME IInv, NEW c \in Companions, Done(c), UNCHANGED <<manual, paused, present>>,
           NEW there \in {"idle", "down"}, pc' = [pc EXCEPT ![c] = there],
           NEW F \in Registries, reg' = [reg EXCEPT ![c] = F],
           NEW G \in Registries, state' = [state EXCEPT ![c] = G],
           failures' \in 0..MaxFailures, failures <= failures',
           there = "idle" => (failures' <= 1 => G = F)
    PROVE  IInv'
<1> USE DEF Done
<1>0. TypeOK
  BY DEF IInv
<1>1. TypeOK'
  <2>1. lock' = {d \in Companions : pc'[d] \notin {"down", "idle", "ending"}}
    BY <1>0 DEF TypeOK
  <2>2. saved' \in [Companions -> [manual : Rules, paused : SUBSET RemotePorts]]
    BY <1>0, NoPrefsType DEF TypeOK
  <2>3. before' \in [Companions -> Registries]
    BY <1>0, EmptyShape DEF TypeOK
  <2>4. pc' \in [Companions -> {"down", "idle", "manual", "paused", "state", "undo manual",
                              "undo paused", "undo state", "ending"}]
    BY <1>0 DEF TypeOK
  <2> QED BY <1>0, <2>1, <2>2, <2>3, <2>4 DEF TypeOK
<1>2. Mutex'
  BY DEF IInv, Mutex
<1>3. (Progress(c) /\ Undo(c) /\ Current(c))'
  <2>1. pc'[c] = there /\ reg'[c] = F /\ state'[c] = G
    BY <1>0 DEF TypeOK
  <2> QED BY <2>1 DEF Progress, Undo, Current, Mutating, Undoing
<1>4. ASSUME NEW d \in Companions \ {c} PROVE (Progress(d) /\ Undo(d) /\ Current(d))'
  <2>1. /\ pc'[d] = pc[d] /\ reg'[d] = reg[d] /\ state'[d] = state[d]
        /\ saved'[d] = saved[d] /\ before'[d] = before[d]
    BY <1>0 DEF TypeOK
  <2>2. failures \in Nat /\ failures' \in Nat
    BY <1>0, CountType DEF TypeOK
  <2> QED BY <2>1, <2>2, FrameFiles
<1> QED BY <1>1, <1>2, <1>3, <1>4 DEF IInv

LEMMA FailingType ==
    ASSUME TypeOK, NEW n \in {1, 2}, Failing(n)
    PROVE  /\ failures' \in 0..MaxFailures /\ failures' \in Nat
           /\ failures <= failures' /\ failures < failures' /\ failures' >= 1
           /\ n = 2 => failures' # 1
           /\ failures >= 1 => ~(failures' <= 1)
<1>1. failures' = failures + n /\ failures + n <= MaxFailures
  BY BoundType DEF Failing
<1>2. failures \in Nat /\ n \in Nat /\ MaxFailures \in Nat
  BY BoundType, CountFacts
<1>3. /\ failures + n \in 0..MaxFailures /\ failures + n \in Nat
      /\ failures <= failures + n /\ failures < failures + n /\ failures + n >= 1
      /\ n = 2 => failures + n # 1
      /\ failures >= 1 => ~(failures + n <= 1)
  BY <1>1, <1>2
<1> QED BY <1>1, <1>2, <1>3

LEMMA WriteStateInv ==
    ASSUME IInv, NEW c \in Companions, WriteState(c), UNCHANGED present
    PROVE  IInv'
<1> USE DEF WriteState, Goto
<1>0. TypeOK
  BY DEF IInv
<1>1. pc[c] = "state" /\ lock = {c}
  BY HolderWorks DEF Working, Mutating
<1>2. reg[c] \in Registries /\ reg' = [reg EXCEPT ![c] = reg[c]]
  BY <1>0 DEF TypeOK
<1>3. failures' \in 0..MaxFailures /\ failures <= failures'
  BY <1>0, CountFacts
<1> QED BY <1>1, <1>2, <1>3, DoneInv

LEMMA UndoStateInv ==
    ASSUME IInv, NEW c \in Companions, UndoState(c), UNCHANGED present
    PROVE  IInv'
<1> USE DEF UndoState, Goto
<1>0. TypeOK /\ Undo(c)
  BY DEF IInv
<1>1. pc[c] = "undo state" /\ lock = {c}
  BY HolderWorks DEF Working, Undoing
<1>2. /\ reg[c] \in Registries /\ reg' = [reg EXCEPT ![c] = reg[c]]
      /\ state[c] \in Registries
  BY <1>0 DEF TypeOK
<1>3. CASE state' = [state EXCEPT ![c] = reg[c]] /\ UNCHANGED failures
  <2>1. failures' \in 0..MaxFailures /\ failures <= failures'
    BY <1>0, <1>3, CountFacts
  <2> QED BY <1>1, <1>2, <1>3, <2>1, DoneInv
<1>4. CASE Failing(1) /\ UNCHANGED state
  <2>3. failures >= 1
    BY <1>0, <1>1 DEF Undo, Undoing
  <2>1. failures' \in 0..MaxFailures /\ failures <= failures' /\ ~(failures' <= 1)
    BY <1>0, <1>4, <2>3, FailingType
  <2>2. state' = [state EXCEPT ![c] = state[c]]
    BY <1>0, <1>4 DEF TypeOK
  <2> QED BY <1>1, <1>2, <2>1, <2>2, DoneInv
<1> QED BY <1>3, <1>4

LEMMA StopInv ==
    ASSUME IInv, NEW c \in Companions, Stop(c), UNCHANGED present
    PROVE  IInv'
<1> USE DEF Stop
<1>0. TypeOK
  BY DEF IInv
<1>1. failures' \in 0..MaxFailures /\ failures <= failures'
  BY <1>0, CountFacts
<1> QED BY <1>1, EmptyShape, DoneInv

\* What a registry that could be restored only in part may be.
LEMMA PartShape ==
    ASSUME NEW old \in Registries, NEW now \in Registries, NEW F \in PartlyRestored(old, now)
    PROVE  F \in Registries
<1>1. CASE F = now
  BY <1>1
<1>2. CASE \E ep \in DOMAIN now : F = [now EXCEPT ![ep].enabled = FALSE]
  <2> PICK ep \in DOMAIN now : F = [now EXCEPT ![ep].enabled = FALSE]
    BY <1>2
  <2>1. now \in [DOMAIN now -> Forward] /\ DOMAIN now \subseteq Endpoints
    BY RegistryShape
  <2>2. [now[ep] EXCEPT !.enabled = FALSE] \in Forward
    BY <2>1 DEF Forward
  <2>3. F \in [DOMAIN now -> Forward] /\ DOMAIN F = DOMAIN now
    BY <2>1, <2>2
  <2> QED BY <2>1, <2>3, RegistryShape
<1> QED BY <1>1, <1>2 DEF PartlyRestored

\* What the transaction of c has written, or is about to.
LEMMA DeltaOf ==
    ASSUME IInv, NEW c \in Companions, pc[c] \in Mutating
    PROVE  OneDelta(before[c], reg[c], saved[c].manual, saved[c].paused)
<1>1. TypeOK /\ Progress(c)
  BY DEF IInv
<1>2. before[c] \in Registries /\ reg[c] \in Registries
  BY <1>1 DEF TypeOK
<1>3. saved[c].manual \in Rules
  BY <1>1 DEF TypeOK
<1>4. saved[c].paused \in SUBSET RemotePorts
  BY <1>1 DEF TypeOK
<1>5. OneChange(before[c], reg[c])
  BY <1>1 DEF Progress
<1> QED BY <1>2, <1>3, <1>4, <1>5, Delta, Zenon

LEMMA FailInv ==
    ASSUME IInv, NEW c \in Companions, Fail(c), UNCHANGED present
    PROVE  IInv'
<1> USE DEF Fail, Goto
<1>0. TypeOK /\ Progress(c)
  BY DEF IInv
<1>1. pc[c] \in Mutating /\ pc'[c] = "undo manual" /\ pc' = [pc EXCEPT ![c] = "undo manual"]
  BY <1>0 DEF TypeOK, Mutating
<1>2. before[c] \in Registries /\ reg[c] \in Registries
  BY <1>0 DEF TypeOK
<1>3. /\ failures' \in 0..MaxFailures /\ failures' \in Nat
      /\ failures < failures' /\ failures <= failures' /\ failures' >= 1
      /\ \E F \in Registries : reg' = [reg EXCEPT ![c] = F] /\ (failures' = 1 => F = before[c])
  <2>1. CASE Failing(1) /\ reg' = [reg EXCEPT ![c] = before[c]]
    BY <1>0, <1>2, <2>1, FailingType
  <2>2. CASE Failing(2) /\ \E F \in PartlyRestored(before[c], reg[c]) : reg' = [reg EXCEPT ![c] = F]
    <3>1. /\ failures' \in 0..MaxFailures /\ failures' \in Nat /\ failures' # 1
          /\ failures < failures' /\ failures <= failures' /\ failures' >= 1
      BY <1>0, <2>2, FailingType
    <3> QED BY <1>2, <2>2, <3>1, PartShape
  <2> QED BY <2>1, <2>2
<1>4. TypeOK'
  <2>1. lock' = {d \in Companions : pc'[d] \notin {"down", "idle", "ending"}}
    BY <1>0, <1>1 DEF TypeOK
  <2>2. reg' \in [Companions -> Registries]
    BY <1>0, <1>3 DEF TypeOK
  <2>3. pc' \in [Companions -> {"down", "idle", "manual", "paused", "state", "undo manual",
                              "undo paused", "undo state", "ending"}]
    BY <1>0, <1>1 DEF TypeOK
  <2> QED BY <1>0, <2>1, <2>2, <2>3, <1>3 DEF TypeOK
<1>5. Mutex'
  BY DEF IInv, Mutex
<1>6. (Progress(c) /\ Undo(c) /\ Current(c))'
  <2>1. /\ manual = saved[c].manual \/ paused = saved[c].paused
        /\ \A p \in saved[c].paused \ paused : PausedBefore(c, p)
    <3> DEFINE np == NewPaused(before[c], reg[c], saved[c].paused)
               nr == NewRules(before[c], reg[c], saved[c].manual)
    <3>3. /\ nr = saved[c].manual \/ np = saved[c].paused
          /\ \A p \in saved[c].paused \ np : \E ep \in Endpoints :
                /\ p = Port(ep) /\ ep \in DOMAIN before[c] \cap DOMAIN reg[c]
                /\ before[c][ep].auto /\ ~before[c][ep].enabled /\ reg[c][ep].enabled
      BY <1>1, DeltaOf DEF OneDelta
    <3> HIDE DEF np, nr
    <3>4. \A p \in saved[c].paused \ np : PausedBefore(c, p)
      BY <3>3 DEF PausedBefore
    <3>5. \/ manual = saved[c].manual /\ paused = saved[c].paused
          \/ manual = nr /\ paused = saved[c].paused
          \/ manual = nr /\ paused = np
      BY <1>0, <1>1 DEF Progress, Mutating, np, nr
    <3> QED BY <3>3, <3>4, <3>5
  <2>2. failures' >= 1
    BY <1>3
  <2>3. reg'[c] = before[c] \/ failures' # 1
    BY <1>0, <1>3 DEF TypeOK
  <2>4. Undo(c)'
    BY <1>1, <2>1, <2>2, <2>3 DEF Undo, PausedBefore
  <2> QED BY <1>1, <2>4 DEF Progress, Current, Mutating
<1>7. \A d \in Companions \ {c} : reg'[d] = reg[d]
  BY <1>0, <1>3 DEF TypeOK
<1>8. ASSUME NEW d \in Companions \ {c} PROVE (Progress(d) /\ Undo(d) /\ Current(d))'
  <2>1. pc'[d] = pc[d] /\ reg'[d] = reg[d] /\ state'[d] = state[d]
    BY <1>0, <1>1, <1>7 DEF TypeOK
  <2>2. failures \in Nat /\ failures' \in Nat /\ failures <= failures'
    BY <1>0, <1>3, CountFacts
  <2>3. pc[d] \notin Working
    BY <1>1, HolderWorks DEF Working
  <2> QED BY <2>1, <2>2, <2>3, Frame
<1> QED BY <1>4, <1>5, <1>6, <1>8 DEF IInv
LEMMA UndoManualInv ==
    ASSUME IInv, NEW c \in Companions, UndoManual(c), UNCHANGED present
    PROVE  IInv'
<1>0. TypeOK /\ Undo(c)
  BY DEF IInv
<1>1. /\ pc[c] = "undo manual" /\ pc' = [pc EXCEPT ![c] = "undo paused"] /\ pc'[c] = "undo paused"
      /\ UNCHANGED <<paused, lock, reg, state, saved, before>>
  BY <1>0 DEF UndoManual, Goto, TypeOK
<1>2. /\ failures' \in 0..MaxFailures /\ failures' \in Nat /\ failures <= failures'
      /\ failures' >= 1
      /\ \/ manual' = saved[c].manual /\ failures' = failures
         \/ manual' = manual /\ failures' # 1
  <2>1. failures >= 1
    BY <1>0, <1>1 DEF Undo, Undoing
  <2>2. CASE manual' = saved[c].manual /\ UNCHANGED failures
    BY <1>0, <2>1, <2>2, CountFacts
  <2>3. CASE Failing(1) /\ UNCHANGED manual
    <3>1. /\ failures' \in 0..MaxFailures /\ failures' \in Nat /\ failures <= failures'
          /\ failures' >= 1 /\ failures' # 1
      BY <1>0, <2>1, <2>3, FailingType
    <3> QED BY <2>3, <3>1
  <2> QED BY <2>2, <2>3 DEF UndoManual
<1>3. TypeOK'
  <2>1. lock' = {d \in Companions : pc'[d] \notin {"down", "idle", "ending"}}
    BY <1>0, <1>1 DEF TypeOK
  <2>2. manual' \in Rules /\ paused' \in SUBSET RemotePorts
    BY <1>0, <1>1, <1>2 DEF TypeOK
  <2>3. pc' \in [Companions -> {"down", "idle", "manual", "paused", "state", "undo manual",
                              "undo paused", "undo state", "ending"}]
    BY <1>0, <1>1 DEF TypeOK
  <2> QED BY <1>0, <1>1, <1>2, <2>1, <2>2, <2>3 DEF TypeOK
<1>4. Mutex'
  BY <1>1 DEF IInv, Mutex
<1>5. (Progress(c) /\ Undo(c) /\ Current(c))'
  <2>1. /\ manual = saved[c].manual \/ paused = saved[c].paused
        /\ \A p \in saved[c].paused \ paused : PausedBefore(c, p)
        /\ failures = 1 =>
             /\ reg[c] = before[c]
             /\ pc[c] # "undo manual" => manual = saved[c].manual
    BY <1>0, <1>1 DEF Undo, Undoing
  <2>2. Undo(c)'
    BY <1>1, <1>2, <2>1 DEF Undo, PausedBefore
  <2> QED BY <1>1, <2>2 DEF Progress, Current, Mutating
<1>9. ASSUME NEW d \in Companions \ {c} PROVE (Progress(d) /\ Undo(d) /\ Current(d))'
  <2>1. pc'[d] = pc[d] /\ reg'[d] = reg[d] /\ state'[d] = state[d]
    BY <1>0, <1>1 DEF TypeOK
  <2>2. failures \in Nat /\ failures' \in Nat /\ failures <= failures'
    BY <1>0, <1>2, CountFacts
  <2>3. pc[d] \notin Working
    BY <1>1, HolderWorks DEF Working, Undoing
  <2> QED BY <2>1, <2>2, <2>3, Frame
<1> QED BY <1>3, <1>4, <1>5, <1>9 DEF IInv

LEMMA UndoPausedInv ==
    ASSUME IInv, NEW c \in Companions, UndoPaused(c), UNCHANGED present
    PROVE  IInv'
<1>0. TypeOK /\ Undo(c)
  BY DEF IInv
<1>1. /\ pc[c] = "undo paused" /\ pc' = [pc EXCEPT ![c] = "undo state"] /\ pc'[c] = "undo state"
      /\ UNCHANGED <<manual, lock, reg, state, saved, before>>
  BY <1>0 DEF UndoPaused, Goto, TypeOK
<1>2. /\ failures' \in 0..MaxFailures /\ failures' \in Nat /\ failures <= failures'
      /\ failures' >= 1
      /\ \/ paused' = saved[c].paused /\ failures' = failures
         \/ paused' = paused /\ failures' # 1
  <2>1. failures >= 1
    BY <1>0, <1>1 DEF Undo, Undoing
  <2>2. CASE paused' = saved[c].paused /\ UNCHANGED failures
    BY <1>0, <2>1, <2>2, CountFacts
  <2>3. CASE Failing(1) /\ UNCHANGED paused
    <3>1. /\ failures' \in 0..MaxFailures /\ failures' \in Nat /\ failures <= failures'
          /\ failures' >= 1 /\ failures' # 1
      BY <1>0, <2>1, <2>3, FailingType
    <3> QED BY <2>3, <3>1
  <2> QED BY <2>2, <2>3 DEF UndoPaused
<1>3. TypeOK'
  <2>1. lock' = {d \in Companions : pc'[d] \notin {"down", "idle", "ending"}}
    BY <1>0, <1>1 DEF TypeOK
  <2>2. manual' \in Rules /\ paused' \in SUBSET RemotePorts
    BY <1>0, <1>1, <1>2 DEF TypeOK
  <2>3. pc' \in [Companions -> {"down", "idle", "manual", "paused", "state", "undo manual",
                              "undo paused", "undo state", "ending"}]
    BY <1>0, <1>1 DEF TypeOK
  <2> QED BY <1>0, <1>1, <1>2, <2>1, <2>2, <2>3 DEF TypeOK
<1>4. Mutex'
  BY <1>1 DEF IInv, Mutex
<1>5. (Progress(c) /\ Undo(c) /\ Current(c))'
  <2>1. /\ manual = saved[c].manual \/ paused = saved[c].paused
        /\ \A p \in saved[c].paused \ paused : PausedBefore(c, p)
        /\ failures = 1 =>
             /\ reg[c] = before[c]
             /\ pc[c] # "undo manual" => manual = saved[c].manual
    BY <1>0, <1>1 DEF Undo, Undoing
  <2>2. Undo(c)'
    BY <1>1, <1>2, <2>1 DEF Undo, PausedBefore
  <2> QED BY <1>1, <2>2 DEF Progress, Current, Mutating
<1>9. ASSUME NEW d \in Companions \ {c} PROVE (Progress(d) /\ Undo(d) /\ Current(d))'
  <2>1. pc'[d] = pc[d] /\ reg'[d] = reg[d] /\ state'[d] = state[d]
    BY <1>0, <1>1 DEF TypeOK
  <2>2. failures \in Nat /\ failures' \in Nat /\ failures <= failures'
    BY <1>0, <1>2, CountFacts
  <2>3. pc[d] \notin Working
    BY <1>1, HolderWorks DEF Working, Undoing
  <2> QED BY <2>1, <2>2, <2>3, Frame
<1> QED BY <1>3, <1>4, <1>5, <1>9 DEF IInv

\* A companion outside a transaction gets another registry.
LEMMA IdleInv ==
    ASSUME IInv, NEW c \in Companions, pc[c] \in {"down", "idle"},
           UNCHANGED <<manual, paused, lock, saved, before, present>>,
           NEW there \in {"idle", "ending"}, pc' = [pc EXCEPT ![c] = there],
           NEW F \in Registries, reg' = [reg EXCEPT ![c] = F],
           NEW G \in Registries, state' = [state EXCEPT ![c] = G],
           failures' \in 0..MaxFailures, failures <= failures',
           there = "idle" => G = F
    PROVE  IInv'
<1>0. TypeOK
  BY DEF IInv
<1>1. TypeOK'
  <2>1. lock' = {d \in Companions : pc'[d] \notin {"down", "idle", "ending"}}
    BY <1>0 DEF TypeOK
  <2>2. pc' \in [Companions -> {"down", "idle", "manual", "paused", "state", "undo manual",
                              "undo paused", "undo state", "ending"}]
    BY <1>0 DEF TypeOK
  <2> QED BY <1>0, <2>1, <2>2 DEF TypeOK
<1>2. Mutex'
  BY DEF IInv, Mutex
<1>3. (Progress(c) /\ Undo(c) /\ Current(c))'
  <2>1. pc'[c] = there /\ reg'[c] = F /\ state'[c] = G
    BY <1>0 DEF TypeOK
  <2> QED BY <2>1 DEF Progress, Undo, Current, Mutating, Undoing
<1>4. ASSUME NEW d \in Companions \ {c} PROVE (Progress(d) /\ Undo(d) /\ Current(d))'
  <2>1. pc'[d] = pc[d] /\ reg'[d] = reg[d] /\ state'[d] = state[d]
    BY <1>0 DEF TypeOK
  <2>2. failures \in Nat /\ failures' \in Nat
    BY <1>0, CountFacts, CountType
  <2>3. saved'[d] = saved[d] /\ before'[d] = before[d]
    OBVIOUS
  <2> QED BY <1>0, <2>1, <2>2, <2>3, CountFacts, FrameFiles
<1> QED BY <1>1, <1>2, <1>3, <1>4 DEF IInv

LEMMA StartInv ==
    ASSUME IInv, NEW c \in Companions, Start(c), UNCHANGED present
    PROVE  IInv'
<1>0. TypeOK
  BY DEF IInv
<1>1. PICK F \in [DOMAIN manual -> Forward] :
            reg' = [reg EXCEPT ![c] = F] /\ state' = [state EXCEPT ![c] = F]
  BY DEF Start
<1>2. F \in Registries
  <2>1. DOMAIN manual \subseteq Endpoints
    BY <1>0, RulesShape DEF TypeOK
  <2> QED BY <2>1 DEF Registries
<1>3. /\ pc[c] = "down" /\ pc' = [pc EXCEPT ![c] = "idle"]
      /\ UNCHANGED <<manual, paused, lock, saved, before, failures>>
  BY DEF Start, Goto
<1>4. failures' \in 0..MaxFailures /\ failures <= failures'
  BY <1>0, <1>3, CountFacts
<1> QED BY <1>1, <1>2, <1>3, <1>4, IdleInv

LEMMA ReplayInv ==
    ASSUME IInv, NEW c \in Companions, Replay(c), UNCHANGED present
    PROVE  IInv'
<1>0. TypeOK
  BY DEF IInv
<1>1. PICK F \in [DOMAIN reg[c] -> Forward] :
            reg' = [reg EXCEPT ![c] = F] /\ ReplayPersists(c, F)
  BY DEF Replay
<1>2. F \in Registries
  <2>1. DOMAIN reg[c] \subseteq Endpoints
    BY <1>0, RegistryShape DEF TypeOK
  <2> QED BY <2>1 DEF Registries
<1>3. pc[c] = "idle" /\ UNCHANGED <<manual, paused, lock, saved, before>>
  BY DEF Replay
<1>4. CASE state' = [state EXCEPT ![c] = F] /\ UNCHANGED <<pc, failures>>
  <2>1. pc' = [pc EXCEPT ![c] = "idle"]
    BY <1>0, <1>3, <1>4 DEF TypeOK
  <2>2. failures' \in 0..MaxFailures /\ failures <= failures'
    BY <1>0, <1>4, CountFacts
  <2> QED BY <1>1, <1>2, <1>3, <1>4, <2>1, <2>2, IdleInv
<1>5. CASE Failing(1) /\ pc' = [pc EXCEPT ![c] = "ending"] /\ UNCHANGED state
  <2>1. failures' \in 0..MaxFailures /\ failures <= failures'
    BY <1>0, <1>5, FailingType
  <2>2. state[c] \in Registries /\ state' = [state EXCEPT ![c] = state[c]]
    BY <1>0, <1>5 DEF TypeOK
  <2> QED BY <1>1, <1>2, <1>3, <1>5, <2>1, <2>2, IdleInv
<1> QED BY <1>1, <1>4, <1>5 DEF ReplayPersists
\* A step is a transaction that begins, or one of the other actions of one companion.
Acts(c) ==
    \/ \E F \in Registries : OneChange(reg[c], F) /\ Transact(c, F)
    \/ Persist(c) \/ Start(c) \/ Stop(c) \/ Replay(c)

LEMMA NextActs ==
    ASSUME TypeOK, Next
    PROVE  \E c \in Companions : Acts(c) /\ UNCHANGED present
<1>1. PICK c \in present : Request(c) \/ Persist(c) \/ Start(c) \/ Stop(c) \/ Replay(c)
  BY DEF Next
<1>2. c \in Companions /\ UNCHANGED present
  BY DEF TypeOK, Next
<1>3. Request(c) => \E F \in Registries : OneChange(reg[c], F) /\ Transact(c, F)
  BY <1>2, RequestIsTransact
<1> QED BY <1>1, <1>2, <1>3 DEF Acts

LEMMA StepInv == IInv /\ [Next]_vars => IInv'
<1>1. ASSUME IInv, Next PROVE IInv'
  <2>1. TypeOK
    BY <1>1 DEF IInv
  <2> PICK c \in Companions : Acts(c) /\ UNCHANGED present
    BY <1>1, <2>1, NextActs
  <2>2. CASE \E F \in Registries : OneChange(reg[c], F) /\ Transact(c, F)
    BY <1>1, <2>2, TransactInv
  <2>3. CASE Persist(c)
    BY <1>1, <2>3, WriteManualInv, WritePausedInv, WriteStateInv, FailInv,
       UndoManualInv, UndoPausedInv, UndoStateInv DEF Persist
  <2>4. CASE Start(c)
    BY <1>1, <2>4, StartInv
  <2>5. CASE Stop(c)
    BY <1>1, <2>5, StopInv
  <2>6. CASE Replay(c)
    BY <1>1, <2>6, ReplayInv
  <2> QED BY <2>2, <2>3, <2>4, <2>5, <2>6 DEF Acts
<1>2. ASSUME IInv, UNCHANGED vars PROVE IInv'
  <2> USE <1>2 DEF vars
  <2>1. TypeOK' /\ Mutex'
    BY DEF IInv, TypeOK, Mutex
  <2>2. ASSUME NEW c \in Companions PROVE (Progress(c) /\ Undo(c) /\ Current(c))'
    <3>1. Progress(c) /\ Undo(c) /\ Current(c)
      BY DEF IInv
    <3>2. Progress(c)'
      BY <3>1 DEF Progress
    <3>3. Undo(c)'
      BY <3>1 DEF Undo, PausedBefore
    <3>4. Current(c)'
      BY <3>1 DEF Current
    <3> QED BY <3>2, <3>3, <3>4
  <2> QED BY <2>1, <2>2 DEF IInv
<1> QED BY <1>1, <1>2

\* IInv holds of every behaviour: from any Init, through writes, failures, undoing and death.
THEOREM Invariance == Spec => []IInv
BY InitInv, StepInv, PTL DEF Spec

\* The variables keep their types, and who works holds the lock, whatever fails or dies.
THEOREM TypeCorrect == Spec => []TypeOK
<1>1. IInv => TypeOK
  BY DEF IInv
<1> QED BY <1>1, Invariance, PTL

\* Between its requests the state file of a running companion is its registry, if no more
\* than one call has failed.
THEOREM Files == Spec => []StateFileCurrent
<1>1. IInv => StateFileCurrent
  BY DEF IInv, Current, StateFileCurrent
<1> QED BY <1>1, Invariance, PTL

-----------------------------------------------------------------------------
(* The files implement SharedPreferences.                                  *)

LEMMA SharedTypes == Shared!Preferences = [manual : Rules, paused : SUBSET RemotePorts]
BY DEF Shared!Preferences, Shared!Rules, Shared!Rule, Shared!Endpoints, Rules, Rule, Endpoints

LEMMA CommittedIs ==
    /\ lock = {} => Committed = Prefs
    /\ \A c : lock = {c} => Committed = saved[c]
<1>1. \A c : (CHOOSE d \in {c} : TRUE) = c
  OBVIOUS
<1> QED BY <1>1 DEF Committed

LEMMA CommittedNext ==
    /\ lock' = {} => Committed' = Prefs'
    /\ \A c : lock' = {c} => Committed' = saved'[c]
<1>1. \A c : (CHOOSE d \in {c} : TRUE) = c
  OBVIOUS
<1> QED BY <1>1 DEF Committed

\* Whoever works under the lock has found the committed version.
LEMMA HolderFound ==
    ASSUME IInv, NEW c \in Companions, pc[c] \in Working
    PROVE  /\ lock = {c} /\ Committed = saved[c]
           /\ saved[c] = [manual |-> saved[c].manual, paused |-> saved[c].paused]
<1>1. lock = {c}
  BY HolderWorks
<1>2. saved[c] \in [manual : Rules, paused : SUBSET RemotePorts]
  BY DEF IInv, TypeOK
<1> QED BY <1>1, <1>2, CommittedIs

\* The committed version does not change under a companion that stays in its transaction.
LEMMA HolderStays ==
    ASSUME IInv, NEW c \in Companions, pc[c] \in Working, UNCHANGED <<lock, saved>>
    PROVE  Committed' = Committed
BY HolderFound, CommittedNext

\* The end of a transaction commits what is in the files, an exit outside of one nothing.
LEMMA DoneCommits ==
    ASSUME IInv, NEW c \in Companions, Done(c), UNCHANGED <<manual, paused>>
    PROVE  /\ Prefs' = Prefs
           /\ pc[c] \in Working => Committed' = Prefs
           /\ pc[c] \notin Working => Committed' = Committed
<1>1. Prefs' = Prefs
  BY DEF Prefs
<1>2. ASSUME pc[c] \in Working PROVE Committed' = Prefs
  <2>1. lock' = {}
    BY <1>2, HolderWorks DEF Done
  <2> QED BY <1>1, <1>2, <2>1, CommittedNext
<1>3. ASSUME pc[c] \notin Working PROVE Committed' = Committed
  <2>1. c \notin lock /\ lock' = lock
    BY <1>3 DEF IInv, TypeOK, Done, Working, Mutating, Undoing
  <2>2. CASE lock = {}
    BY <1>1, <1>3, <2>1, <2>2, CommittedIs, CommittedNext
  <2>3. CASE lock # {}
    <3>0. lock \in SUBSET Companions /\ Mutex
      BY DEF IInv, TypeOK
    <3>1. PICK d \in lock : lock = {d} /\ d \in Companions /\ d # c
      BY <2>1, <2>3, <3>0 DEF Mutex
    <3>2. saved'[d] = saved[d]
      BY <3>1 DEF IInv, TypeOK, Done
    <3> QED BY <1>3, <2>1, <3>1, <3>2, CommittedIs, CommittedNext
  <2> QED BY <2>2, <2>3
<1> QED BY <1>1, <1>2, <1>3

LEMMA StepShared ==
    ASSUME IInv, Next
    PROVE  [Shared!Next]_<<Prefs, Committed>>
<1> DEFINE Stutter == Prefs' = Prefs /\ Committed' = Committed
           Claim == Shared!Next \/ Stutter
<1>0. TypeOK /\ IInv'
  BY StepInv DEF IInv
<1> PICK c \in Companions : Acts(c) /\ UNCHANGED present
  BY <1>0, NextActs
<1>1. CASE \E F \in Registries : OneChange(reg[c], F) /\ Transact(c, F)
  <2>1. lock = {} /\ lock' = {c} /\ saved'[c] = Prefs /\ Prefs' = Prefs
    BY <1>0, <1>1 DEF Transact, Free, TypeOK, Prefs
  <2> QED BY <2>1, CommittedIs, CommittedNext
<1>2. CASE WriteManual(c)
  <2>1. pc[c] = "manual" /\ pc[c] \in Working /\ pc[c] \in Mutating
    BY <1>2 DEF WriteManual, Goto, Working, Mutating
  <2>2. /\ Prefs = saved[c] /\ Committed = saved[c] /\ Committed' = Committed
        /\ manual = saved[c].manual /\ paused = saved[c].paused
        /\ manual' = NewRules(before[c], reg[c], manual) /\ paused' = paused
    BY <1>2, <2>1, HolderFound, HolderStays DEF IInv, Progress, WriteManual, Prefs
  <2>3. OneDelta(before[c], reg[c], manual, paused)
    BY <2>1, <2>2, DeltaOf
  <2>4. CASE manual' = manual
    BY <2>2, <2>4 DEF Prefs
  <2>5. CASE \E ep \in Endpoints : Shared!SameBut(ep, manual, manual')
    <3>1. Shared!OneKey(Committed, Prefs')
      BY <2>2, <2>5 DEF Shared!OneKey, Prefs, Endpoints, Shared!Endpoints
    <3>2. Prefs' \in Shared!Preferences
      BY <1>0, SharedTypes DEF IInv, TypeOK, Prefs
    <3> QED BY <2>2, <3>1, <3>2 DEF Shared!Next, Shared!Edit
  <2> QED BY <2>2, <2>3, <2>4, <2>5 DEF OneDelta
<1>3. CASE WritePaused(c)
  <2>1. pc[c] = "paused" /\ pc[c] \in Working /\ pc[c] \in Mutating
    BY <1>3 DEF WritePaused, Goto, Working, Mutating
  <2>2. /\ Committed = saved[c] /\ Committed' = Committed
        /\ saved[c] = [manual |-> saved[c].manual, paused |-> saved[c].paused]
        /\ manual = NewRules(before[c], reg[c], saved[c].manual) /\ paused = saved[c].paused
        /\ paused' = NewPaused(before[c], reg[c], paused) /\ manual' = manual
    BY <1>3, <2>1, HolderFound, HolderStays DEF IInv, Progress, WritePaused
  <2>3. OneDelta(before[c], reg[c], saved[c].manual, paused)
    BY <2>1, <2>2, DeltaOf
  <2>4. CASE paused' = paused
    BY <2>2, <2>4 DEF Prefs
  <2>5. CASE paused' # paused
    <3>1. manual = saved[c].manual /\ \E p \in RemotePorts : paused \ {p} = paused' \ {p}
      BY <2>2, <2>3, <2>5 DEF OneDelta
    <3>2. Prefs = Committed
      BY <2>2, <3>1 DEF Prefs
    <3>3. Shared!OneKey(Committed, Prefs')
      BY <2>2, <3>1, <3>2 DEF Shared!OneKey, Prefs
    <3>4. Prefs' \in Shared!Preferences
      BY <1>0, SharedTypes DEF IInv, TypeOK, Prefs
    <3> QED BY <2>2, <3>2, <3>3, <3>4 DEF Shared!Next, Shared!Edit
  <2> QED BY <2>4, <2>5
<1>4. CASE WriteState(c) \/ UndoState(c)
  <2>1. pc[c] \in Working /\ Done(c) /\ UNCHANGED <<manual, paused>>
    BY <1>4 DEF WriteState, UndoState, Goto, Working, Mutating, Undoing
  <2> QED BY <2>1, DoneCommits DEF Shared!Next, Shared!Commit
<1>5. CASE Stop(c)
  <2>1. Done(c) /\ UNCHANGED <<manual, paused>>
    BY <1>5 DEF Stop
  <2> QED BY <2>1, DoneCommits DEF Shared!Next, Shared!Commit
<1>6. CASE Fail(c) \/ Start(c) \/ Replay(c)
  <2>1. UNCHANGED <<manual, paused, lock, saved>>
    BY <1>6 DEF Fail, Start, Replay
  <2> QED BY <2>1 DEF Committed, Prefs
<1>7. CASE UndoManual(c)
  <2>1. pc[c] = "undo manual" /\ pc[c] \in Working /\ pc[c] \in Undoing
    BY <1>7 DEF UndoManual, Goto, Working, Undoing
  <2>2. /\ Committed = saved[c] /\ Committed' = Committed
        /\ saved[c] = [manual |-> saved[c].manual, paused |-> saved[c].paused]
        /\ manual = saved[c].manual \/ paused = saved[c].paused
        /\ manual' = saved[c].manual \/ manual' = manual
        /\ paused' = paused
    BY <1>7, <2>1, HolderFound, HolderStays DEF IInv, Undo, UndoManual
  <2>3. manual' = manual \/ Prefs' = Committed
    BY <2>2 DEF Prefs
  <2> QED BY <2>2, <2>3 DEF Prefs, Shared!Next, Shared!Undo
<1>8. CASE UndoPaused(c)
  <2>1. pc[c] = "undo paused" /\ pc[c] \in Working /\ pc[c] \in Undoing
    BY <1>8 DEF UndoPaused, Goto, Working, Undoing
  <2>2. /\ Committed = saved[c] /\ Committed' = Committed
        /\ saved[c] = [manual |-> saved[c].manual, paused |-> saved[c].paused]
        /\ manual = saved[c].manual \/ paused = saved[c].paused
        /\ paused' = saved[c].paused \/ paused' = paused
        /\ manual' = manual
    BY <1>8, <2>1, HolderFound, HolderStays DEF IInv, Undo, UndoPaused
  <2>3. paused' = paused \/ Prefs' = Committed
    BY <2>2 DEF Prefs
  <2> QED BY <2>2, <2>3 DEF Prefs, Shared!Next, Shared!Undo
<1> QED BY <1>1, <1>2, <1>3, <1>4, <1>5, <1>6, <1>7, <1>8 DEF Acts, Persist

\* Whatever number of companions write, fail, undo or die, and in whatever order, the
\* files go from one committed version to one that differs in a single key.
THEOREM Refinement == Spec => SharedSpec
<1>1. Init => Shared!Init
  BY CommittedIs DEF Init, Shared!Init, Prefs, Empty, Shared!Empty
<1>2. IInv /\ [Next]_vars => [Shared!Next]_<<Prefs, Committed>>
  <2>1. ASSUME UNCHANGED vars PROVE UNCHANGED <<Prefs, Committed>>
    BY <2>1 DEF vars, Prefs, Committed
  <2> QED BY <2>1, StepShared
<1> QED BY <1>1, <1>2, Invariance, PTL DEF Spec, SharedSpec, Shared!Spec

-----------------------------------------------------------------------------
(* Pauses and failures.                                                    *)

\* Only the end of a transaction, or the death of its companion, changes the committed
\* version.
LEMMA CommitsAt ==
    ASSUME IInv, Next, Committed' # Committed
    PROVE  \E c \in Companions :
             /\ pc[c] \in Working
             /\ WriteState(c) \/ UndoState(c) \/ Stop(c)
             /\ lock = {c} /\ Committed = saved[c] /\ Committed' = Prefs
<1>0. TypeOK
  BY DEF IInv
<1> PICK c \in Companions : Acts(c) /\ UNCHANGED present
  BY <1>0, NextActs
<1>1. CASE \E F \in Registries : OneChange(reg[c], F) /\ Transact(c, F)
  <2>1. lock = {} /\ lock' = {c} /\ saved'[c] = Prefs /\ Prefs' = Prefs
    BY <1>0, <1>1 DEF Transact, Free, TypeOK, Prefs
  <2> QED BY <2>1, CommittedIs, CommittedNext
<1>2. CASE WriteManual(c) \/ WritePaused(c) \/ UndoManual(c) \/ UndoPaused(c)
  <2>1. pc[c] \in Working /\ UNCHANGED <<lock, saved>>
    BY <1>2 DEF WriteManual, WritePaused, UndoManual, UndoPaused, Goto,
                Working, Mutating, Undoing
  <2> QED BY <2>1, HolderStays
<1>3. CASE Fail(c) \/ Start(c) \/ Replay(c)
  <2>1. UNCHANGED <<manual, paused, lock, saved>>
    BY <1>3 DEF Fail, Start, Replay
  <2> QED BY <2>1 DEF Committed, Prefs
<1>4. CASE WriteState(c) \/ UndoState(c) \/ Stop(c)
  <2>1. Done(c) /\ UNCHANGED <<manual, paused>>
    BY <1>4 DEF WriteState, UndoState, Stop
  <2>2. pc[c] \in Working
    BY <2>1, DoneCommits
  <2> QED BY <1>4, <2>1, <2>2, DoneCommits, HolderFound
<1> QED BY <1>1, <1>2, <1>3, <1>4 DEF Acts, Persist

\* What may take the port p from the pauses that are committed.
Resumes(c, p) ==
    \E ep \in Endpoints :
        /\ Port(ep) = p /\ ep \in DOMAIN before[c] \cap DOMAIN reg[c]
        /\ before[c][ep].auto /\ ~before[c][ep].enabled
        /\ reg[c][ep].enabled \/ pc[c] \in {"undo manual", "undo paused"}

LEMMA SqueezedToOne ==
    \A m, n \in Nat : m >= 1 /\ m <= n /\ n <= 1 => m = 1
  OBVIOUS

LEMMA StepPauses ==
    ASSUME IInv, Next, failures' <= 1, NEW p \in Committed.paused \ Committed'.paused
    PROVE  \E c \in lock : Resumes(c, p)
<1>0. TypeOK /\ IInv'
  BY StepInv DEF IInv
<1>1. PICK c \in Companions :
             /\ pc[c] \in Working
             /\ WriteState(c) \/ UndoState(c) \/ Stop(c)
             /\ lock = {c} /\ Committed = saved[c] /\ Committed' = Prefs
  BY CommitsAt
<1>2. p \in saved[c].paused \ paused
  BY <1>1 DEF Prefs
<1>3. CASE pc[c] \in Mutating
  <2>1. pc[c] = "state" /\ paused = NewPaused(before[c], reg[c], saved[c].paused)
    BY <1>2, <1>3 DEF IInv, Progress, Mutating
  <2>2. OneDelta(before[c], reg[c], saved[c].manual, saved[c].paused)
    BY <1>3, DeltaOf
  <2>3. Resumes(c, p)
    BY <1>2, <2>1, <2>2 DEF OneDelta, Resumes
  <2>4. c \in lock
    BY <1>1
  <2> QED BY <2>3, <2>4, Zenon
<1>4. CASE pc[c] \in Undoing
  <2>1. failures = 1
    <3>1. Undo(c) /\ failures \in 0..MaxFailures /\ failures' \in 0..MaxFailures
      BY <1>0 DEF IInv, TypeOK
    <3>2. failures >= 1
      BY <1>4, <3>1 DEF Undo
    <3>3. failures <= failures'
      BY <1>0, <1>1, FailingType, CountFacts DEF WriteState, UndoState, Stop
    <3>4. failures \in Nat /\ failures' \in Nat
      BY <3>1, CountType
    <3> QED BY <3>2, <3>3, <3>4, SqueezedToOne
  <2>2. reg[c] = before[c] /\ pc[c] # "undo state" /\ PausedBefore(c, p)
    BY <1>2, <1>4, <2>1 DEF IInv, Undo
  <2>3. DOMAIN before[c] \subseteq Endpoints
    BY <1>0, RegistryShape DEF TypeOK
  <2>4. Resumes(c, p)
    BY <1>4, <2>2, <2>3 DEF PausedBefore, Resumes, Undoing
  <2>5. c \in lock
    BY <1>1
  <2> QED BY <2>4, <2>5, Zenon
<1> QED BY <1>1, <1>3, <1>4 DEF Working

\* A pause is lost only with a transaction that resumed its forward, or that was killed
\* while it took such a resumption back, if no more than one call has failed.
THEOREM Pauses == Spec => PausesSurvive
<1> DEFINE Kept == failures' <= 1 => \A p \in Committed.paused \ Committed'.paused :
        \E c \in lock, ep \in Endpoints :
            /\ Port(ep) = p /\ ep \in DOMAIN before[c] \cap DOMAIN reg[c]
            /\ before[c][ep].auto /\ ~before[c][ep].enabled
            /\ reg[c][ep].enabled \/ pc[c] \in {"undo manual", "undo paused"}
<1>1. IInv /\ [Next]_vars => [Kept]_vars
  BY StepPauses DEF Resumes
<1> QED BY <1>1, Invariance, PTL DEF Spec, PausesSurvive

LEMMA StepAtomic ==
    ASSUME IInv, Next, NEW c \in Companions,
           pc[c] = "undo state", pc'[c] = "idle", failures' = 1
    PROVE  reg'[c] = before[c] /\ Prefs' = saved[c] /\ state'[c] = before[c]
<1>0. TypeOK /\ Undo(c)
  BY DEF IInv
<1> PICK d \in Companions : Acts(d) /\ UNCHANGED present
  BY <1>0, NextActs
<1>1. pc[d] = "undo state"
  <2>1. \A e \in Companions \ {c} : pc[e] \notin Working
    BY HolderWorks DEF Working, Undoing
  <2>2. pc[d] \notin Working => pc' = [pc EXCEPT ![d] = pc'[d]]
    BY <1>0 DEF Acts, Persist, Transact, WriteManual, WritePaused, WriteState, Fail, UndoManual,
         UndoPaused, UndoState, Start, Stop, Replay, ReplayPersists, Goto, TypeOK
  <2>3. d = c \/ pc[d] \notin Working
    BY <2>1
  <2> QED BY <1>0, <2>2, <2>3 DEF TypeOK, Working, Undoing
<1>2. d = c
  BY <1>1, HolderWorks DEF Working, Undoing
<1>3. UndoState(c)
  BY <1>0, <1>1, <1>2 DEF Acts, Persist, Transact, WriteManual, WritePaused, WriteState, Fail,
       UndoManual, UndoPaused, Start, Stop, Replay, Goto, TypeOK
<1>4. failures >= 1
  BY <1>0 DEF Undo, Undoing
<1>5. state' = [state EXCEPT ![c] = reg[c]] /\ failures = 1
  <2>1. ~Failing(1)
    BY <1>0, <1>4, FailingType
  <2> QED BY <1>3, <2>1 DEF UndoState
<1>6. reg[c] = before[c] /\ manual = saved[c].manual /\ paused = saved[c].paused
  BY <1>0, <1>5 DEF Undo, Undoing
<1>7. saved[c] = [manual |-> saved[c].manual, paused |-> saved[c].paused]
  BY HolderFound DEF Working, Undoing
<1>8. UNCHANGED <<manual, paused, reg>>
  BY <1>3 DEF UndoState
<1> QED BY <1>0, <1>5, <1>6, <1>7, <1>8 DEF TypeOK, Prefs

\* A transaction of which one write failed, and nothing else, leaves no trace in the
\* registry or in any of the three files.
THEOREM Atomicity == Spec => FailureIsAtomic
<1> DEFINE Traceless == \A c \in Companions :
        pc[c] = "undo state" /\ pc'[c] = "idle" /\ failures' = 1 =>
            /\ reg'[c] = before[c] /\ Prefs' = saved[c] /\ state'[c] = before[c]
<1>1. IInv /\ [Next]_vars => [Traceless]_vars
  BY StepAtomic
<1> QED BY <1>1, Invariance, PTL DEF Spec, FailureIsAtomic
-----------------------------------------------------------------------------
(* A companion alone with its preferences.  Pauses are filed by port, so they *)
(* can agree with the registry only where an endpoint is known by its port:   *)
(* if there is one loopback host.                                            *)

OneHost == \E h : Hosts = {h}

Fits(rules, F) ==
    /\ DOMAIN rules = {ep \in DOMAIN F : ~F[ep].auto}
    /\ \A ep \in DOMAIN rules : rules[ep].enabled = F[ep].enabled
Remembers(ports, F) ==
    \A ep \in DOMAIN F : F[ep].auto => (F[ep].enabled <=> Port(ep) \notin ports)
Agree(rules, ports, F) == Fits(rules, F) /\ (OneHost => Remembers(ports, F))

\* What is new in the registry now starts as the pauses say.
NewStarts(ports, old, now) ==
    \A ep \in DOMAIN now \ DOMAIN old :
        now[ep].auto => (now[ep].enabled <=> Port(ep) \notin ports)

\* A transaction starts from files that agree with the registry it found.
Lone(c) ==
    failures <= 1 =>
        /\ pc[c] = "idle" => Agree(manual, paused, reg[c])
        /\ pc[c] \in Working => Agree(saved[c].manual, saved[c].paused, before[c])
        /\ pc[c] \in Mutating => NewStarts(saved[c].paused, before[c], reg[c])

LEMMA OnlyOne ==
    ASSUME TypeOK, Alone, NEW c \in present, NEW d \in present
    PROVE  c = d
<1>1. IsFiniteSet(present)
  BY CompanionsAssumption, FS_Subset DEF TypeOK
<1>2. Cardinality(present) = 1
  BY DEF Alone
<1>3. \E x : present = {x}
  BY <1>1, <1>2, FS_Singleton
<1> QED BY <1>3

\* The kind of a forward never changes.
LEMMA KindStays ==
    ASSUME NEW old, NEW now, OneChange(old, now), NEW ep \in DOMAIN old \cap DOMAIN now
    PROVE  old[ep].auto = now[ep].auto
BY DEF OneChange, ChangeAt

\* Rules that fit the old registry become rules that fit the new one.
LEMMA RulesFit ==
    ASSUME NEW old \in Registries, NEW now \in Registries, OneChange(old, now),
           NEW rules \in Rules, Fits(rules, old)
    PROVE  Fits(NewRules(old, now, rules), now)
<1> DEFINE gone == {e \in DOMAIN old \ DOMAIN now : ~old[e].auto}
           updated == {e \in DOMAIN now :
             ~now[e].auto /\ (e \in DOMAIN old => AsRule(old[e]) # AsRule(now[e]))}
           new == NewRules(old, now, rules)
<1>1. new = [e \in (DOMAIN rules \ gone) \cup updated |->
               IF e \in updated THEN AsRule(now[e]) ELSE rules[e]]
  BY DEF NewRules
<1>2. DOMAIN new = (DOMAIN rules \ gone) \cup updated
  BY <1>1
<1>3. DOMAIN rules = {e \in DOMAIN old : ~old[e].auto}
  BY DEF Fits
<1>4. \A e \in DOMAIN old \cap DOMAIN now : old[e].auto = now[e].auto
  BY KindStays
<1>5. DOMAIN new \subseteq {e \in DOMAIN now : ~now[e].auto}
  BY <1>2, <1>3, <1>4
<1>6. ASSUME NEW e \in DOMAIN now, ~now[e].auto PROVE e \in DOMAIN new
  <2>1. CASE e \in DOMAIN old
    BY <1>2, <1>3, <1>4, <1>6, <2>1
  <2>2. CASE e \notin DOMAIN old
    BY <1>2, <1>6, <2>2
  <2> QED BY <2>1, <2>2
<1>7. ASSUME NEW e \in DOMAIN new PROVE new[e].enabled = now[e].enabled
  <2>1. CASE e \in updated
    BY <1>1, <1>2, <2>1 DEF AsRule
  <2>2. CASE e \notin updated
    <3>1. e \in DOMAIN rules /\ e \in DOMAIN old /\ e \in DOMAIN now /\ ~now[e].auto
      BY <1>2, <1>3, <1>5, <1>7, <2>2
    <3>2. AsRule(old[e]) = AsRule(now[e])
      BY <2>2, <3>1
    <3>3. old[e].enabled = now[e].enabled
      BY <3>2 DEF AsRule
    <3>4. new[e] = rules[e]
      BY <1>1, <1>2, <1>7, <2>2
    <3> QED BY <3>1, <3>3, <3>4 DEF Fits
  <2> QED BY <2>1, <2>2
<1> HIDE DEF new
<1>8. DOMAIN new = {e \in DOMAIN now : ~now[e].auto}
  BY <1>5, <1>6
<1> QED BY <1>7, <1>8 DEF Fits, new

\* And so do the pauses, where each endpoint has a port of its own.
LEMMA PausesFit ==
    ASSUME NEW old \in Registries, NEW now \in Registries, OneChange(old, now), OneHost,
           NEW ports, Remembers(ports, old), NewStarts(ports, old, now)
    PROVE  Remembers(NewPaused(old, now, ports), now)
<1> DEFINE auto == {e \in DOMAIN now : now[e].auto}
           off == {e \in auto : ~now[e].enabled /\ (e \in DOMAIN old => old[e].enabled)}
           on == {e \in auto \cap DOMAIN old : now[e].enabled /\ ~old[e].enabled}
           new == NewPaused(old, now, ports)
<1>1. new = (ports \cup {Port(e) : e \in off}) \ {Port(e) : e \in on}
  BY DEF NewPaused
<1>2. \A e, f \in Endpoints : Port(e) = Port(f) => e = f
  BY DEF OneHost, Endpoints, Port
<1>3. DOMAIN now \subseteq Endpoints
  BY RegistryShape
<1>4. off \subseteq Endpoints /\ on \subseteq Endpoints
  BY <1>3
<1> SUFFICES ASSUME NEW ep \in DOMAIN now, now[ep].auto
             PROVE  now[ep].enabled <=> Port(ep) \notin new
  BY DEF Remembers
<1>5. Port(ep) \in new <=> (Port(ep) \in ports \/ ep \in off) /\ ep \notin on
  <2> HIDE DEF off, on, new
  <2> QED BY <1>1, <1>2, <1>3, <1>4
<1>6. now[ep].enabled \in BOOLEAN
  BY RegistryShape DEF Forward
<1>7. CASE ep \in DOMAIN old
  <2>1. old[ep].auto /\ old[ep].enabled \in BOOLEAN
    BY <1>7, KindStays, RegistryShape DEF Forward
  <2>2. old[ep].enabled <=> Port(ep) \notin ports
    BY <1>7, <2>1 DEF Remembers
  <2>3. ep \in off <=> ~now[ep].enabled /\ old[ep].enabled
    BY <1>7
  <2>4. ep \in on <=> now[ep].enabled /\ ~old[ep].enabled
    BY <1>7
  <2> HIDE DEF off, on, new
  <2> QED BY <1>5, <2>2, <2>3, <2>4
<1>8. CASE ep \notin DOMAIN old
  <2>1. now[ep].enabled <=> Port(ep) \notin ports
    BY <1>8 DEF NewStarts
  <2>2. (ep \in off <=> ~now[ep].enabled) /\ ep \notin on
    BY <1>8
  <2> HIDE DEF off, on, new
  <2> QED BY <1>5, <2>1, <2>2
<1> QED BY <1>7, <1>8

\* A discovered server starts as the pauses say, and only creations add a forward.
LEMMA RequestStarts ==
    ASSUME TypeOK, NEW c \in Companions, Request(c)
    PROVE  NewStarts(paused, reg[c], reg'[c])
<1>0. reg[c] \in Registries /\ \A F : Transact(c, F) => reg'[c] = F
  BY DEF TypeOK, Transact
<1>1. CASE ChangeNothing(c)
  BY <1>0, <1>1 DEF ChangeNothing, NewStarts
<1>2. ASSUME NEW ep \in Endpoints, CreateAutomatic(c, ep) PROVE NewStarts(paused, reg[c], reg'[c])
  <2>1. PICK p \in Ports : Transact(c, With(reg[c], ep,
            [auto |-> TRUE, local |-> p, enabled |-> StartsEnabled(ep)]))
    BY <1>2 DEF CreateAutomatic
  <2> DEFINE f == [auto |-> TRUE, local |-> p, enabled |-> StartsEnabled(ep)]
  <2>2. f.enabled <=> Port(ep) \notin paused
    BY DEF StartsEnabled
  <2> HIDE DEF f
  <2>3. reg'[c] = With(reg[c], ep, f)
    BY <1>0, <2>1 DEF f
  <2> QED BY <2>2, <2>3 DEF NewStarts, With
<1>3. ASSUME NEW ep \in Endpoints, CreateManual(c, ep) PROVE NewStarts(paused, reg[c], reg'[c])
  <2>1. PICK p \in Ports : Transact(c, With(reg[c], ep,
            [auto |-> FALSE, local |-> p, enabled |-> TRUE]))
    BY <1>3 DEF CreateManual
  <2> QED BY <1>0, <2>1 DEF NewStarts, With
<1>4. ASSUME NEW ep \in Endpoints, Remove(c, ep) \/ Pause(c, ep) \/ Resume(c, ep) \/ Remap(c, ep)
      PROVE  NewStarts(paused, reg[c], reg'[c])
  <2>1. DOMAIN reg'[c] \subseteq DOMAIN reg[c]
    <3>1. CASE Remove(c, ep)
      BY <1>0, <3>1 DEF Remove, Without
    <3>2. CASE Pause(c, ep) \/ Resume(c, ep) \/ Remap(c, ep)
      <4>1. CASE Pause(c, ep)
        <5>1. Transact(c, [reg[c] EXCEPT ![ep].enabled = FALSE])
          BY <4>1 DEF Pause
        <5>2. DOMAIN [reg[c] EXCEPT ![ep].enabled = FALSE] = DOMAIN reg[c]
          OBVIOUS
        <5> QED BY <1>0, <5>1, <5>2
      <4>2. CASE Resume(c, ep)
        <5>1. PICK p : Transact(c, [reg[c] EXCEPT ![ep].enabled = TRUE, ![ep].local = p])
          BY <4>2 DEF Resume
        <5>2. DOMAIN [reg[c] EXCEPT ![ep].enabled = TRUE, ![ep].local = p] = DOMAIN reg[c]
          OBVIOUS
        <5> QED BY <1>0, <5>1, <5>2
      <4>3. CASE Remap(c, ep)
        <5>1. PICK p : \/ Transact(c, [reg[c] EXCEPT ![ep].local = p])
                       \/ Transact(c, [reg[c] EXCEPT ![ep].enabled = FALSE])
          BY <4>3 DEF Remap
        <5>2. /\ DOMAIN [reg[c] EXCEPT ![ep].local = p] = DOMAIN reg[c]
              /\ DOMAIN [reg[c] EXCEPT ![ep].enabled = FALSE] = DOMAIN reg[c]
          OBVIOUS
        <5> QED BY <1>0, <5>1, <5>2
      <4> QED BY <3>2, <4>1, <4>2, <4>3
    <3> QED BY <1>4, <3>1, <3>2
  <2> QED BY <2>1 DEF NewStarts
<1> QED BY <1>1, <1>2, <1>3, <1>4 DEF Request

\* How many calls have failed only grows.
LEMMA FailuresGrow ==
    ASSUME TypeOK, failures' <= 1,
           UNCHANGED failures \/ (\E n \in {1, 2} : Failing(n))
    PROVE  failures <= 1 /\ (failures >= 1 => UNCHANGED failures)
<1>1. CASE UNCHANGED failures
  BY <1>1
<1>2. ASSUME NEW n \in {1, 2}, Failing(n) PROVE failures <= 1 /\ ~(failures >= 1)
  <2>1. /\ failures' \in Nat /\ failures <= failures'
        /\ (failures >= 1 => ~(failures' <= 1))
    BY <1>2, FailingType
  <2>2. failures \in Nat
    BY CountFacts
  <2> QED BY <2>1, <2>2
<1> QED BY <1>1, <1>2

LEMMA RequestLone ==
    ASSUME IInv, NEW c \in Companions, Lone(c), Request(c)
    PROVE  Lone(c)'
<1>0. TypeOK
  BY DEF IInv
<1>1. PICK F \in Registries : OneChange(reg[c], F) /\ Transact(c, F)
  BY <1>0, RequestIsTransact
<1>2. /\ pc[c] = "idle" /\ pc'[c] = "manual" /\ saved'[c] = Prefs /\ before'[c] = reg[c]
      /\ failures' = failures
  BY <1>0, <1>1 DEF TypeOK, Transact
<1>3. saved'[c].manual = manual /\ saved'[c].paused = paused
  BY <1>2 DEF Prefs
<1>4. NewStarts(paused, reg[c], reg'[c])
  BY <1>0, RequestStarts
<1>5. failures <= 1 => Agree(manual, paused, reg[c])
  BY <1>2 DEF Lone
<1> QED BY <1>2, <1>3, <1>4, <1>5 DEF Lone, Agree, NewStarts, Fits, Remembers

\* The writes, and their undoing, leave what the transaction found.
LEMMA WorkLone ==
    ASSUME IInv, NEW c \in Companions, Lone(c),
           WriteManual(c) \/ WritePaused(c) \/ Fail(c) \/ UndoManual(c) \/ UndoPaused(c)
    PROVE  Lone(c)'
<1>0. TypeOK
  BY DEF IInv
<1>1. /\ pc[c] \in Working /\ pc'[c] # "idle" /\ UNCHANGED <<saved, before>>
      /\ pc'[c] \in Mutating => pc[c] \in Mutating /\ UNCHANGED reg
  BY <1>0 DEF TypeOK, WriteManual, WritePaused, Fail, UndoManual, UndoPaused, Goto, Working,
              Mutating, Undoing
<1>2. UNCHANGED failures \/ (\E n \in {1, 2} : Failing(n))
  BY DEF WriteManual, WritePaused, Fail, UndoManual, UndoPaused
<1>3. failures' <= 1 => failures <= 1
  BY <1>0, <1>2, FailuresGrow
<1> QED BY <1>1, <1>3 DEF Lone, Agree, NewStarts, Fits, Remembers

LEMMA WriteStateLone ==
    ASSUME IInv, NEW c \in Companions, Lone(c), WriteState(c)
    PROVE  Lone(c)'
<1>0. TypeOK /\ Progress(c)
  BY DEF IInv
<1>1. /\ pc[c] = "state" /\ pc'[c] = "idle" /\ UNCHANGED <<manual, paused, reg, failures>>
      /\ pc[c] \in Working /\ pc[c] \in Mutating /\ pc'[c] \notin Working
  BY <1>0 DEF TypeOK, WriteState, Goto, Working, Mutating, Undoing
<1>2. /\ manual = NewRules(before[c], reg[c], saved[c].manual)
      /\ paused = NewPaused(before[c], reg[c], saved[c].paused)
      /\ OneChange(before[c], reg[c])
  BY <1>0, <1>1 DEF Progress
<1>3. before[c] \in Registries /\ reg[c] \in Registries /\ saved[c].manual \in Rules
  BY <1>0 DEF TypeOK
<1>4. ASSUME failures <= 1 PROVE Agree(manual, paused, reg[c])
  <2>1. /\ Agree(saved[c].manual, saved[c].paused, before[c])
        /\ NewStarts(saved[c].paused, before[c], reg[c])
    BY <1>1, <1>4 DEF Lone
  <2>2. Fits(manual, reg[c])
    BY <1>2, <1>3, <2>1, RulesFit DEF Agree
  <2>3. OneHost => Remembers(paused, reg[c])
    BY <1>2, <1>3, <2>1, PausesFit DEF Agree
  <2> QED BY <2>2, <2>3 DEF Agree
<1> QED BY <1>1, <1>4 DEF Lone, Agree, Fits, Remembers, Working

LEMMA UndoStateLone ==
    ASSUME IInv, NEW c \in Companions, Lone(c), UndoState(c)
    PROVE  Lone(c)'
<1>0. TypeOK /\ Undo(c)
  BY DEF IInv
<1>1. /\ pc[c] = "undo state" /\ pc'[c] = "idle" /\ UNCHANGED <<manual, paused, reg>>
      /\ pc[c] \in Working /\ pc[c] \in Undoing /\ pc'[c] \notin Working
  BY <1>0 DEF TypeOK, UndoState, Goto, Working, Mutating, Undoing
<1>2. UNCHANGED failures \/ (\E n \in {1, 2} : Failing(n))
  BY DEF UndoState
<1>3. ASSUME failures' <= 1 PROVE Agree(manual, paused, reg[c])
  <2>1. failures >= 1
    BY <1>0, <1>1 DEF Undo
  <2>2. failures <= 1
    BY <1>0, <1>2, <1>3, FailuresGrow
  <2>3. failures = 1
    BY <2>1, <2>2, <1>0, CountFacts
  <2>4. reg[c] = before[c] /\ manual = saved[c].manual /\ paused = saved[c].paused
    BY <1>0, <1>1, <2>3 DEF Undo
  <2>5. Agree(saved[c].manual, saved[c].paused, before[c])
    BY <1>1, <2>2 DEF Lone
  <2> QED BY <2>4, <2>5
<1> QED BY <1>1, <1>3 DEF Lone, Agree, Fits, Remembers, Working

\* The next start restores what the rules say, and discovers nothing yet.
LEMMA StartLone ==
    ASSUME IInv, NEW c \in Companions, Start(c)
    PROVE  Lone(c)'
<1>0. TypeOK
  BY DEF IInv
<1>1. PICK F \in [DOMAIN manual -> Forward] :
        /\ \A ep \in DOMAIN F : ~F[ep].auto /\ F[ep].enabled = manual[ep].enabled
        /\ reg' = [reg EXCEPT ![c] = F]
  BY DEF Start
<1>2. pc'[c] = "idle" /\ pc'[c] \notin Working /\ UNCHANGED <<manual, paused>> /\ reg'[c] = F
  BY <1>0, <1>1 DEF TypeOK, Start, Goto, Working, Mutating, Undoing
<1>3. Agree(manual, paused, F)
  BY <1>1 DEF Agree, Fits, Remembers
<1> QED BY <1>2, <1>3 DEF Lone, Agree, Fits, Remembers, Working

\* A replay moves forwards to other local ports.
LEMMA ReplayLone ==
    ASSUME IInv, NEW c \in Companions, Lone(c), Replay(c)
    PROVE  Lone(c)'
<1>0. TypeOK
  BY DEF IInv
<1>1. PICK F \in [DOMAIN reg[c] -> Forward] :
        /\ \A ep \in DOMAIN F : F[ep].auto = reg[c][ep].auto /\ F[ep].enabled = reg[c][ep].enabled
        /\ reg' = [reg EXCEPT ![c] = F]
        /\ ReplayPersists(c, F)
  BY DEF Replay
<1>2. /\ pc[c] = "idle" /\ UNCHANGED <<manual, paused>> /\ reg'[c] = F
      /\ pc'[c] \in {"idle", "ending"} /\ pc'[c] \notin Working
  BY <1>0, <1>1 DEF TypeOK, Replay, ReplayPersists, Working, Mutating, Undoing
<1>3. UNCHANGED failures \/ (\E n \in {1, 2} : Failing(n))
  BY <1>1 DEF ReplayPersists
<1>4. ASSUME failures' <= 1 PROVE Agree(manual, paused, F)
  <2>1. Agree(manual, paused, reg[c])
    BY <1>0, <1>2, <1>3, <1>4, FailuresGrow DEF Lone
  <2>2. DOMAIN F = DOMAIN reg[c]
    OBVIOUS
  <2>3. Fits(manual, F)
    BY <1>1, <2>1, <2>2 DEF Agree, Fits
  <2>4. OneHost => Remembers(paused, F)
    BY <1>1, <2>1, <2>2 DEF Agree, Remembers
  <2> QED BY <2>3, <2>4 DEF Agree
<1> QED BY <1>2, <1>4 DEF Lone, Agree, Fits, Remembers, Working

LEMMA StepLone ==
    ASSUME IInv, Next, Alone, NEW d \in present, Lone(d)
    PROVE  Lone(d)'
<1>0. TypeOK
  BY DEF IInv
<1>1. PICK c \in present : Request(c) \/ Persist(c) \/ Start(c) \/ Stop(c) \/ Replay(c)
  BY DEF Next
<1>2. c = d /\ d \in Companions
  BY <1>0, OnlyOne DEF TypeOK
<1>3. CASE Request(d)
  BY <1>2, <1>3, RequestLone
<1>4. CASE Persist(d)
  BY <1>2, <1>4, WorkLone, WriteStateLone, UndoStateLone DEF Persist
<1>5. CASE Start(d) \/ Replay(d)
  BY <1>2, <1>5, StartLone, ReplayLone
<1>6. CASE Stop(d)
  <2>1. pc'[d] = "down"
    BY <1>0, <1>2, <1>6 DEF Stop, TypeOK
  <2> QED BY <2>1 DEF Lone, Working, Mutating, Undoing
<1> QED BY <1>1, <1>2, <1>3, <1>4, <1>5, <1>6

\* What a transaction finds, and leaves, in the files of a companion alone with them.
LEMMA Loneliness == Spec => [](Alone => \A c \in present : Lone(c))
<1> DEFINE LInv == Alone => \A c \in present : Lone(c)
<1>1. Init => LInv
  <2> SUFFICES ASSUME Init, NEW c \in present PROVE Lone(c)
    OBVIOUS
  <2>1. pc[c] = "down"
    BY DEF Init
  <2> QED BY <2>1 DEF Lone, Working, Mutating, Undoing
<1>2. IInv /\ LInv /\ [Next]_vars => LInv'
  <2>1. ASSUME IInv, LInv, Next PROVE LInv'
    <3>1. UNCHANGED present
      BY <2>1 DEF Next
    <3> QED BY <2>1, <3>1, StepLone DEF Alone
  <2>2. ASSUME LInv, UNCHANGED vars PROVE LInv'
    <3>1. UNCHANGED <<manual, paused, pc, reg, saved, before, failures, present>>
      BY <2>2 DEF vars
    <3>2. ASSUME NEW c \in present, Lone(c) PROVE Lone(c)'
      BY <3>1, <3>2 DEF Lone, Agree, Fits, Remembers, NewStarts
    <3> QED BY <2>2, <3>1, <3>2 DEF Alone
  <2> QED BY <2>1, <2>2
<1> QED BY <1>1, <1>2, Invariance, PTL DEF Spec

\* For any loopback hosts: the rules of a companion alone with its preferences are its manual
\* forwards, however often it was killed between two writes, if no more than one call failed.
THEOREM RulesFollow == Spec => []RulesFollowForwards
<1>1. ASSUME TypeOK, Alone => \A c \in present : Lone(c) PROVE RulesFollowForwards
  BY <1>1 DEF RulesFollowForwards, Lone, Agree, Fits
<1> QED BY <1>1, Loneliness, TypeCorrect, PTL

\* With one loopback host its pauses agree with its registry too, both ways: what is paused
\* stays so when it is discovered again, and what is forwarded is not on file as paused.
THEOREM Agreement ==
    ASSUME NEW h, Hosts = {h}
    PROVE  Spec => []FilesAgree
<1>1. OneHost
  BY DEF OneHost
<1>2. ASSUME Alone => \A c \in present : Lone(c) PROVE PausesRemembered /\ RediscoveryStaysPaused
  BY <1>1, <1>2 DEF PausesRemembered, RediscoveryStaysPaused, Lone, Agree, Remembers
<1>3. TypeOK /\ RulesFollowForwards /\ PausesRemembered /\ RediscoveryStaysPaused => FilesAgree
  BY DEF FilesAgree
<1> QED BY <1>2, <1>3, RulesFollow, Loneliness, TypeCorrect, PTL
=============================================================================
