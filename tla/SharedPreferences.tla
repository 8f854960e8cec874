-------------------------- MODULE SharedPreferences --------------------------
(***************************************************************************)
(* What the companions of one remote host and Herdr session promise about  *)
(* the preferences they share (docs/architecture.md, "Companion requests   *)
(* and shared preferences"): the manual rules and the paused ports.        *)
(*                                                                         *)
(* A version of the preferences is committed at a time.  It is replaced by *)
(* one that differs in a single key, and until then whoever reads the      *)
(* files sees the committed version or the one about to replace it, never  *)
(* a mixture with what some other companion once read.                     *)
(***************************************************************************)
EXTENDS Naturals, FiniteSets

CONSTANTS
    RemotePorts,    \* the remote ports that are paused or forwarded
    Hosts,          \* the loopback hosts
    Locals          \* the local ports rules ask for

VARIABLES
    prefs,      \* what the files hold: [manual, paused]
    base        \* the committed version

Endpoints == RemotePorts \X Hosts
Rule == [local : Locals, enabled : BOOLEAN]
Rules == UNION {[S -> Rule] : S \in SUBSET Endpoints}
Preferences == [manual : Rules, paused : SUBSET RemotePorts]
Empty == [manual |-> [ep \in {} |-> 0], paused |-> {}]

\* M and N agree, except perhaps about ep.
SameBut(ep, M, N) ==
    /\ DOMAIN M \ {ep} = DOMAIN N \ {ep}
    /\ \A e \in DOMAIN M \ {ep} : M[e] = N[e]

\* One rule is added, changed or removed, or one port is paused or resumed.
OneKey(P, Q) ==
    \/ P.paused = Q.paused /\ \E ep \in Endpoints : SameBut(ep, P.manual, Q.manual)
    \/ P.manual = Q.manual /\ \E p \in RemotePorts : P.paused \ {p} = Q.paused \ {p}

Edit ==
    /\ prefs = base
    /\ prefs' \in Preferences /\ OneKey(base, prefs')
    /\ UNCHANGED base

Undo == prefs' = base /\ UNCHANGED base
Commit == base' = prefs /\ UNCHANGED prefs

Init == prefs = Empty /\ base = Empty
Next == Edit \/ Undo \/ Commit
Spec == Init /\ [][Next]_<<prefs, base>>
=============================================================================
