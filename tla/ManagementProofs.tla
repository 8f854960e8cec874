-------------------------- MODULE ManagementProofs --------------------------
(***************************************************************************)
(* Proofs about Management and CompanionServer, for any number of sessions,  *)
(* commands and clients that stall, any limit of active requests and any     *)
(* number of ends, failures and reused addresses and process ids.            *)
(*                                                                         *)
(* The argument for the servers: no client makes the same request twice      *)
(* (ConnInv), so that each accepted connection is one request more, and the   *)
(* counter is the number of requests that have a thread (Counted).            *)
(*                                                                         *)
(* For the commands: a command awaits one answer at most, and a list that it   *)
(* hears is one of the session it asked, for the token is of that session;    *)
(* so a dead session is never taken for one that answered (Looks).  What it   *)
(* asks to be deleted it has chosen among all that it heard of (Closes), and    *)
(* what is deleted for it, however late, it has asked for (Sends).            *)
(***************************************************************************)
EXTENDS Management, TLAPS, FiniteSetTheorems

Tables == UNION {[D -> Int] : D \in SUBSET (1..MaxId)}
Founds == UNION {[D -> Tables] : D \in SUBSET Sessions}

-----------------------------------------------------------------------------
(* Tables of forwards, and what commands found.                            *)

LEMMA TableShape ==
    /\ \A D \in SUBSET (1..MaxId) : [D -> Int] \subseteq Tables
    /\ \A D \in SUBSET Sessions : [D -> Tables] \subseteq Founds
BY DEF Tables, Founds

LEMMA NoEntries == <<>> \in Tables /\ <<>> \in Founds
<1>1. ASSUME NEW T PROVE <<>> \in [{} -> T]
  OBVIOUS
<1>2. {} \in SUBSET (1..MaxId) /\ {} \in SUBSET Sessions
  OBVIOUS
<1> QED BY <1>1, <1>2, TableShape

LEMMA TableFacts ==
    ASSUME NEW f \in Tables
    PROVE  /\ DOMAIN f \subseteq 1..MaxId
           /\ \A id : Without(f, id) \in Tables /\ DOMAIN Without(f, id) = DOMAIN f \ {id}
           /\ \A i \in DOMAIN f : /\ OnOtherPort(f, i) \in Tables
                                  /\ DOMAIN OnOtherPort(f, i) = DOMAIN f
           /\ \A n \in 1..MaxId, v \in Int : /\ With(f, n, v) \in Tables
                                             /\ DOMAIN With(f, n, v) = DOMAIN f \cup {n}
<1>1. PICK D \in SUBSET (1..MaxId) : f \in [D -> Int]
  BY DEF Tables
<1>2. \A id : Without(f, id) \in Tables /\ DOMAIN Without(f, id) = DOMAIN f \ {id}
  <2>1. \A id : Without(f, id) \in [D \ {id} -> Int]
    BY <1>1 DEF Without
  <2>2. \A id : D \ {id} \in SUBSET (1..MaxId)
    OBVIOUS
  <2>3. \A id : Without(f, id) \in Tables
    BY <2>1, <2>2, TableShape
  <2> QED BY <2>3 DEF Without
<1>3. \A i \in DOMAIN f : [f EXCEPT ![i] = 23 - @] \in [D -> Int]
  <2>1. \A i \in D : 23 - f[i] \in Int
    BY <1>1
  <2> QED BY <1>1, <2>1
<1>4. \A n \in 1..MaxId, v \in Int : With(f, n, v) \in Tables
  <2>1. \A n \in 1..MaxId, v \in Int : With(f, n, v) \in [D \cup {n} -> Int]
    BY <1>1 DEF With
  <2>2. \A n \in 1..MaxId : D \cup {n} \in SUBSET (1..MaxId)
    OBVIOUS
  <2> QED BY <2>1, <2>2, TableShape
<1>5. \A n \in 1..MaxId, v \in Int : DOMAIN With(f, n, v) = DOMAIN f \cup {n}
  BY DEF With
<1>6. \A i \in DOMAIN f : OnOtherPort(f, i) \in Tables /\ DOMAIN OnOtherPort(f, i) = DOMAIN f
  BY <1>1, <1>3, TableShape DEF OnOtherPort
<1>7. DOMAIN f \subseteq 1..MaxId
  BY <1>1
<1> QED BY <1>2, <1>4, <1>5, <1>6, <1>7

LEMMA FoundFacts ==
    ASSUME NEW f \in Founds
    PROVE  /\ DOMAIN f \subseteq Sessions
           /\ \A s \in DOMAIN f : f[s] \in Tables
           /\ \A s \in Sessions, t \in Tables : With(f, s, t) \in Founds
           /\ All(f) \subseteq Sessions \X Nat
           /\ \A m \in All(f) : m = <<m[1], m[2]>> /\ m[1] \in DOMAIN f /\ m[2] \in DOMAIN f[m[1]]
<1>1. PICK D \in SUBSET Sessions : f \in [D -> Tables]
  BY DEF Founds
<1>2. \A s \in Sessions, t \in Tables : With(f, s, t) \in Founds
  <2>1. \A s \in Sessions, t \in Tables : With(f, s, t) \in [D \cup {s} -> Tables]
    BY <1>1 DEF With
  <2>2. \A s \in Sessions : D \cup {s} \in SUBSET Sessions
    OBVIOUS
  <2> QED BY <2>1, <2>2, TableShape
<1>3. DOMAIN f \subseteq Sessions /\ \A s \in DOMAIN f : f[s] \in Tables
  BY <1>1
<1>4. \A s \in DOMAIN f : DOMAIN f[s] \subseteq 1..MaxId
  BY <1>3, TableFacts
<1>5. MaxId \in Nat
  BY ManagementAssumption
<1>6. All(f) \subseteq Sessions \X Nat
  BY <1>3, <1>4, <1>5 DEF All
<1>7. \A m \in All(f) : m = <<m[1], m[2]>> /\ m[1] \in DOMAIN f /\ m[2] \in DOMAIN f[m[1]]
  BY DEF All
<1> QED BY <1>2, <1>3, <1>6, <1>7

\* What was heard of is finite.
LEMMA FiniteAll == ASSUME NEW f \in Founds PROVE IsFiniteSet(All(f))
<1>1. DOMAIN f \subseteq Sessions /\ \A s \in DOMAIN f : DOMAIN f[s] \subseteq 1..MaxId
  BY FoundFacts, TableFacts
<1>2. MaxId \in Int /\ IsFiniteSet(Sessions)
  BY ManagementAssumption, ServerAssumption
<1>3. IsFiniteSet(1..MaxId)
  BY <1>2, FS_Interval
<1>4. IsFiniteSet(Sessions \X (1..MaxId))
  BY <1>2, <1>3, FS_Product
<1>5. All(f) \subseteq Sessions \X (1..MaxId)
  BY <1>1 DEF All
<1> QED BY <1>4, <1>5, FS_Subset

-----------------------------------------------------------------------------
(* The types of the variables.                                             *)

Kinds == {"none", "ok", "reset", "busy", "failed", "late", "unauthorized", "recovering",
          "not found", "refused"}
Replies == [kind : Kinds] \cup [kind : Kinds, forwards : Tables]
Requests == [op : {"none", "list", "delete", "create"}, id : Nat]
Conn == [client : Clients, server : Sessions, token : Sessions \cup {NoSession},
         request : Requests, whole : BOOLEAN, awaited : BOOLEAN,
         phase : {"queued", "reading", "running"}]
Waiting == {"listing", "deleting", "creating"}
Looking == {"scanning", "listing", "checking"}
Positions == Waiting \cup Looking \cup {"idle", "acting", "done"}
Phases == {"new", "running", "stopping", "joined", "exited", "killed"}

WrapperTypes ==
    /\ wrapper \in [Sessions -> Phases]
    /\ file \in [Sessions -> BOOLEAN]
    /\ forwards \in [Sessions -> Tables]
    /\ last \in [Sessions -> 0..MaxId]
    /\ address \in [Sessions -> (UNION {Addresses[s] : s \in Sessions}) \cup {Nowhere}]

ServerTypes ==
    /\ listening \in [Sessions -> BOOLEAN]
    /\ acceptor \in [Sessions -> {"none", "looping", "last", "ended"}]
    /\ count \in [Sessions -> Nat]
    /\ reply \in [Clients -> Replies]

CommandTypes ==
    /\ pc \in [Commands -> Positions]
    /\ todo \in [Commands -> SUBSET Sessions]
    /\ at \in [Commands -> Sessions \cup {NoSession}]
    /\ found \in [Commands -> Founds]
    /\ left \in [Commands -> SUBSET (Sessions \X Nat)]
    /\ tried \in [Commands -> SUBSET (Sessions \X Nat)]
    /\ stale \in [Commands -> SUBSET Sessions]
    /\ errors \in [Commands -> Nat]

(* What is true of each connection, and of two of them.                    *)
Key(k) == <<k.client, k.token, k.request, k.whole>>

Honest(k) ==
    /\ k.whole => k.client \in Commands /\ k.request.op # "none" /\ k.token \in Sessions
    /\ ~k.whole => k.request.op = "none"
    /\ k.awaited => k.whole
    /\ k.phase = "running" => k.whole

ConnInv ==
    /\ IsFiniteSet(conns) /\ conns \subseteq Conn
    /\ \A k \in conns : Honest(k)
    /\ \A k, l \in conns : Key(k) = Key(l) => k = l

(* What is true of each server and its wrapper.                             *)
Busy(s) == At(s) \ Queued

Counted(s) == count[s] = Cardinality(Busy(s)) /\ count[s] <= Limit

Lives(s) ==
    /\ listening[s] <=> acceptor[s] \in {"looping", "last"}
    /\ acceptor[s] = "none" <=> wrapper[s] = "new"
    /\ wrapper[s] \in {"joined", "exited", "killed"} => acceptor[s] = "ended" /\ count[s] = 0
    /\ \A k \in At(s) \cap Queued : listening[s]

Files(s) ==
    /\ file[s] => wrapper[s] # "new"
    /\ address[s] \in Addresses[s] \cup {Nowhere}
    /\ DOMAIN forwards[s] \subseteq 1..last[s]

ServerInv == \A s \in Sessions : Counted(s) /\ Lives(s) /\ Files(s)

(* What is true of each command.                                           *)
Sent(c) == {k \in Of(c) : k.whole}
Waits(c) == {k \in Of(c) : k.awaited}

Sends(c) == \A k \in Sent(c) :
    /\ k.request.op = "list" => pc[c] # "idle" /\ k.token \notin todo[c]
    /\ k.request.op = "delete" => <<k.token, k.request.id>> \in tried[c]
    /\ k.request.op = "create" => pc[c] \in {"creating", "done"}

Awaits(c) ==
    /\ pc[c] \notin Waiting => Waits(c) = {} /\ reply[c] = NoReply
    /\ reply[c] # NoReply => Waits(c) = {}
    /\ \A k, l \in Waits(c) : k = l

Hears(c) ==
    /\ pc[c] \in {"listing", "checking"} => at[c] \in Sessions
    /\ pc[c] = "listing" =>
         /\ \A k \in Waits(c) : k.request.op = "list" /\ k.token = at[c]
         /\ reply[c].kind = "ok" => at[c] \notin stale[c] /\ reply[c].forwards \in Tables

Looks(c, s) ==
    /\ wrapper[s] = "killed"
    /\ \/ ~file[s] \/ s \in taken
       \/ pc[c] \in Looking /\ s \in todo[c]
       \/ pc[c] \in {"listing", "checking"} /\ at[c] = s

Prunes(c) ==
    /\ pc[c] = "idle" => stale[c] = {}
    /\ \A s \in stale[c] : Looks(c, s)

Closes(c) ==
    /\ pc[c] \in {"idle", "creating"} \cup Looking => left[c] = {} /\ tried[c] = {}
    /\ pc[c] = "creating" => command[c].op = "forward"
    /\ left[c] \cap tried[c] = {}
    /\ left[c] \cup tried[c] \subseteq ToDelete(c)
    /\ pc[c] \in {"acting", "deleting"} => left[c] \cup tried[c] = ToDelete(c)
    /\ pc[c] = "done" /\ command[c].op = "close all" => tried[c] = All(found[c])

CommandInv == \A c \in Commands : Sends(c) /\ Awaits(c) /\ Hears(c) /\ Prunes(c) /\ Closes(c)

IInv == WrapperTypes /\ ServerTypes /\ CommandTypes /\ ConnInv /\ ServerInv /\ CommandInv

-----------------------------------------------------------------------------
(* The initial state.                                                      *)

LEMMA InitIInv == Init => IInv
<1> SUFFICES ASSUME Init PROVE IInv
  OBVIOUS
<1> USE DEF Init, InitServer
<1>1. \A s \in Sessions : forwards[s] \in Tables /\ DOMAIN forwards[s] \subseteq 1..last[s]
                            /\ last[s] \in 0..MaxId
  <2> SUFFICES ASSUME NEW s \in Sessions
               PROVE  forwards[s] \in Tables /\ DOMAIN forwards[s] \subseteq 1..last[s]
                        /\ last[s] \in 0..MaxId
    OBVIOUS
  <2>0. forwards \in [Sessions -> UNION {[1..n -> Ports] : n \in 0..MaxId}]
    BY ManagementAssumption
  <2>a. forwards[s] \in UNION {[1..n -> Ports] : n \in 0..MaxId}
    BY <2>0
  <2>1. PICK n \in 0..MaxId : forwards[s] \in [1..n -> Ports]
    BY <2>a
  <2>2. MaxId \in Nat /\ Ports \subseteq Int
    BY ManagementAssumption DEF Ports
  <2>b. 1..n \in SUBSET (1..MaxId)
    BY <2>2
  <2>3. forwards[s] \in [1..n -> Int]
    BY <2>1, <2>2
  <2>4. Cardinality(1..n) = n
    BY <2>2, FS_Interval
  <2>5. last[s] = n
    BY <2>1, <2>4
  <2> QED BY <2>1, <2>3, <2>b, <2>5, TableShape
<1>2. forwards \in [Sessions -> Tables] /\ last \in [Sessions -> 0..MaxId]
  BY <1>1, ManagementAssumption
<1>3. WrapperTypes
  BY <1>2 DEF WrapperTypes, Phases
<1>4. NoReply \in Replies
  <2>1. NoReply \in [kind : Kinds]
    BY DEF NoReply, Kinds
  <2> QED BY <2>1 DEF Replies
<1>5. ServerTypes
  BY <1>4 DEF ServerTypes
<1>6. CommandTypes
  BY NoEntries DEF CommandTypes, Positions
<1>7. ConnInv
  BY FS_EmptySet DEF ConnInv
<1>8. ServerInv
  <2>1. \A s \in Sessions : Busy(s) = {} /\ At(s) = {}
    BY DEF Busy, At
  <2>2. Cardinality({}) = 0 /\ 0 <= Limit
    BY FS_EmptySet, ServerAssumption
  <2>3. \A s \in Sessions : Counted(s)
    BY <2>1, <2>2 DEF Counted
  <2> QED BY <1>1, <2>1, <2>3 DEF ServerInv, Lives, Files
<1>9. CommandInv
  <2> SUFFICES ASSUME NEW c \in Commands
               PROVE  Sends(c) /\ Awaits(c) /\ Hears(c) /\ Prunes(c) /\ Closes(c)
    BY DEF CommandInv
  <2>1. Of(c) = {} /\ Sent(c) = {} /\ Waits(c) = {}
    BY DEF Of, Sent, Waits
  <2>2. c \in Clients
    BY ManagementAssumption
  <2>3. Sends(c) /\ Awaits(c) /\ Hears(c)
    BY <2>1, <2>2 DEF Sends, Awaits, Hears, Waiting
  <2>4. Prunes(c) /\ Closes(c)
    BY DEF Prunes, Closes
  <2> QED BY <2>3, <2>4
<1> QED BY <1>3, <1>5, <1>6, <1>7, <1>8, <1>9 DEF IInv

-----------------------------------------------------------------------------
(* What a handler answers, and to whom.                                     *)

LEMMA EffectFacts ==
    ASSUME WrapperTypes, ConnInv, ServerInv, NEW k \in Running, NEW e \in Effects(k)
    PROVE  /\ e[1] \in Tables
           /\ e[2] \in Replies /\ e[2].kind # "none"
           /\ e[2].kind = "ok" => k.token = k.server
           /\ e[2].kind = "ok" /\ k.request.op = "list" => e[2].forwards \in Tables
           /\ \/ DOMAIN e[1] \subseteq 1..last[k.server]
              \/ last[k.server] < MaxId /\ DOMAIN e[1] \subseteq 1..(last[k.server] + 1)
           /\ e[1] # forwards[k.server] => k.token = k.server
<1> DEFINE s == k.server
           id == k.request.id
           f == forwards[k.server]
<1>1. k \in Conn /\ k.whole /\ k.request.op \in {"list", "delete", "create"}
  BY DEF ConnInv, Running, Honest, Conn, Requests
<1>2. s \in Sessions /\ id \in Nat /\ f \in Tables /\ last[s] \in 0..MaxId
  BY <1>1 DEF Conn, Requests, WrapperTypes
<1>3. DOMAIN f \subseteq 1..last[s] /\ MaxId \in Nat
  BY <1>2, ManagementAssumption DEF ServerInv, Files
<1>4. \A kind \in Kinds : Answer(kind) \in Replies /\ Answer(kind).kind = kind
  <2>1. \A kind \in Kinds : Answer(kind) \in [kind : Kinds] /\ Answer(kind).kind = kind
    BY DEF Answer
  <2> QED BY <2>1 DEF Replies
<1>5. /\ [kind |-> "ok", forwards |-> f] \in [kind : Kinds, forwards : Tables]
      /\ [kind |-> "ok", forwards |-> f].kind = "ok"
      /\ [kind |-> "ok", forwards |-> f].forwards = f
  BY <1>2 DEF Kinds
<1>6. [kind |-> "ok", forwards |-> f] \in Replies
  BY <1>5 DEF Replies
<1>7. /\ Without(f, id) \in Tables /\ DOMAIN Without(f, id) \subseteq 1..last[s]
      /\ last[s] # MaxId => /\ With(f, last[s] + 1, id) \in Tables
                            /\ DOMAIN With(f, last[s] + 1, id) \subseteq 1..(last[s] + 1)
  <2>1. last[s] # MaxId => last[s] + 1 \in 1..MaxId
    BY <1>2, <1>3
  <2>2. id \in Int
    BY <1>2
  <2>3. /\ Without(f, id) \in Tables /\ DOMAIN Without(f, id) = DOMAIN f \ {id}
        /\ last[s] # MaxId => /\ With(f, last[s] + 1, id) \in Tables
                              /\ DOMAIN With(f, last[s] + 1, id) = DOMAIN f \cup {last[s] + 1}
    BY <1>2, <2>1, <2>2, TableFacts
  <2> QED BY <1>2, <1>3, <2>3
<1> DEFINE Refusals == {"unauthorized", "recovering", "not found", "refused"}
           Refused == \E kind \in Refusals : e[1] = f /\ e[2] = Answer(kind)
           Listed == k.request.op = "list" /\ e[1] = f /\ e[2] = [kind |-> "ok", forwards |-> f]
           Closed == k.request.op = "delete" /\ e[1] = Without(f, id) /\ e[2] = Answer("ok")
           Opened == /\ k.request.op = "create" /\ last[s] # MaxId
                     /\ e[1] = With(f, last[s] + 1, id) /\ e[2] = Answer("ok")
<1>8. Refused \/ (k.token = s /\ (Listed \/ Closed \/ Opened))
  <2>1. CASE k.token # s
    <3>1. Effects(k) = {<<f, Answer("unauthorized")>>}
      BY <2>1 DEF Effects, Authorized
    <3>2. e[1] = f /\ e[2] = Answer("unauthorized")
      BY <3>1
    <3> QED BY <3>2
  <2>2. CASE k.token = s /\ recovering[s]
    <3>1. Effects(k) = {<<f, Answer("recovering")>>}
      BY <2>2 DEF Effects, Authorized
    <3>2. e[1] = f /\ e[2] = Answer("recovering")
      BY <3>1
    <3> QED BY <3>2
  <2>3. CASE k.token = s /\ ~recovering[s] /\ k.request.op = "list"
    <3>1. Effects(k) = {<<f, [kind |-> "ok", forwards |-> f]>>}
      BY <2>3 DEF Effects, Authorized
    <3>2. e[1] = f /\ e[2] = [kind |-> "ok", forwards |-> f]
      BY <3>1
    <3> QED BY <2>3, <3>2
  <2>4. CASE k.token = s /\ ~recovering[s] /\ k.request.op = "delete"
    <3>1. Effects(k) = IF id \in DOMAIN f THEN {<<Without(f, id), Answer("ok")>>}
                                          ELSE {<<f, Answer("not found")>>}
      BY <2>4 DEF Effects, Authorized
    <3>2. \/ e[1] = Without(f, id) /\ e[2] = Answer("ok")
          \/ e[1] = f /\ e[2] = Answer("not found")
      <4>1. e = <<Without(f, id), Answer("ok")>> \/ e = <<f, Answer("not found")>>
        BY <3>1
      <4>2. \A x, y : e = <<x, y>> => e[1] = x /\ e[2] = y
        OBVIOUS
      <4> QED BY <4>1, <4>2
    <3> QED BY <2>4, <3>2
  <2>5. CASE k.token = s /\ ~recovering[s] /\ k.request.op = "create"
    <3>1. Effects(k) = IF last[s] = MaxId THEN {<<f, Answer("refused")>>}
                       ELSE {<<With(f, last[s] + 1, id), Answer("ok")>>}
      BY <2>5 DEF Effects, Authorized
    <3>2. \/ last[s] # MaxId /\ e[1] = With(f, last[s] + 1, id) /\ e[2] = Answer("ok")
          \/ e[1] = f /\ e[2] = Answer("refused")
      BY <3>1
    <3> QED BY <2>5, <3>2
  <2> QED BY <1>1, <2>1, <2>2, <2>3, <2>4, <2>5
<1>9. CASE Refused
  <2>1. PICK kind \in Refusals : e[1] = f /\ e[2] = Answer(kind)
    BY <1>9
  <2>2. e[2] \in Replies /\ e[2].kind # "none" /\ e[2].kind # "ok"
    BY <2>1, <1>4 DEF Kinds
  <2> QED BY <1>2, <1>3, <2>1, <2>2
<1>10. CASE k.token = s /\ Listed
  BY <1>2, <1>3, <1>5, <1>6, <1>10
<1>11. Answer("ok") \in Replies /\ Answer("ok").kind = "ok"
  BY <1>4 DEF Kinds
<1>12. CASE k.token = s /\ Closed
  BY <1>2, <1>7, <1>11, <1>12
<1>13. CASE k.token = s /\ Opened
  BY <1>2, <1>3, <1>7, <1>11, <1>13
<1> QED BY <1>8, <1>9, <1>10, <1>12, <1>13

-----------------------------------------------------------------------------
(* Connections come, change and go.                                        *)

LEMMA Fewer == ASSUME ConnInv, conns' \subseteq conns PROVE ConnInv'
<1>1. IsFiniteSet(conns')
  BY FS_Subset DEF ConnInv
<1> QED BY <1>1 DEF ConnInv, Honest, Key

LEMMA Changed ==
    ASSUME ConnInv, NEW k \in conns, NEW l \in Conn, Key(l) = Key(k), Honest(l),
           conns' = (conns \ {k}) \cup {l}
    PROVE  ConnInv'
<1>1. IsFiniteSet(conns \ {k})
  BY FS_RemoveElement DEF ConnInv
<1>2. IsFiniteSet(conns')
  BY <1>1, FS_AddElement
<1>3. \A m \in conns' : m \in conns \/ m = l
  OBVIOUS
<1>4. conns' \subseteq Conn /\ \A m \in conns' : Honest(m)
  BY <1>3 DEF ConnInv
<1>5. \A m, n \in conns' : Key(m) = Key(n) => m = n
  BY DEF ConnInv
<1> QED BY <1>2, <1>4, <1>5 DEF ConnInv, Honest, Key

LEMMA Added ==
    ASSUME ConnInv, NEW l \in Conn, Honest(l), \A k \in conns : Key(k) # Key(l),
           conns' = conns \cup {l}
    PROVE  ConnInv'
<1>1. IsFiniteSet(conns')
  BY FS_AddElement DEF ConnInv
<1>2. conns' \subseteq Conn /\ \A m \in conns' : Honest(m)
  BY DEF ConnInv
<1>3. \A m, n \in conns' : Key(m) = Key(n) => m = n
  BY DEF ConnInv
<1> QED BY <1>1, <1>2, <1>3 DEF ConnInv, Honest, Key

\* A request that a command makes is one that it has not made.
LEMMA Fresh ==
    ASSUME IInv, NEW c \in Commands, NEW s \in Sessions, NEW r \in Requests,
           \/ r.op = "list" /\ pc[c] = "scanning" /\ s \in todo[c]
           \/ r.op = "delete" /\ <<s, r.id>> \notin tried[c]
           \/ r.op = "create" /\ pc[c] = "scanning",
           Request(c, s, r)
    PROVE  ConnInv' /\ \E t \in Sessions :
             conns' = conns \cup {[client |-> c, server |-> t, token |-> s, request |-> r,
                                   whole |-> TRUE, awaited |-> TRUE, phase |-> "queued"]}
               /\ listening[t] /\ address[t] = address[s]
<1>1. PICK t \in Sessions : listening[t] /\ address[t] = address[s] /\ Connect(c, t, s, r, TRUE)
  BY DEF Request, ListensAt
<1> DEFINE l == [client |-> c, server |-> t, token |-> s, request |-> r,
                 whole |-> TRUE, awaited |-> TRUE, phase |-> "queued"]
<1>2. conns' = conns \cup {l}
  BY <1>1 DEF Connect
<1>3. l \in Conn /\ Honest(l)
  BY ManagementAssumption DEF Conn, Honest
<1>4. ASSUME NEW k \in conns, Key(k) = Key(l) PROVE FALSE
  <2>1. k.client = c /\ k.token = s /\ k.request = r /\ k.whole
    BY <1>4 DEF Key
  <2>2. k \in Sent(c)
    BY <2>1 DEF Sent, Of
  <2>3. Sends(c)
    BY DEF IInv, CommandInv
  <2> QED BY <2>1, <2>2, <2>3 DEF Sends
<1> QED BY <1>1, <1>2, <1>3, <1>4, Added DEF IInv

LEMMA Moved ==
    ASSUME ConnInv, NEW k \in conns, NEW p \in {"reading", "running"}, p = "running" => k.whole,
           conns' = (conns \ {k}) \cup {[k EXCEPT !.phase = p]}
    PROVE  ConnInv'
<1>1. k \in Conn /\ Honest(k)
  BY DEF ConnInv
<1>2. [k EXCEPT !.phase = p] \in Conn /\ Honest([k EXCEPT !.phase = p])
        /\ Key([k EXCEPT !.phase = p]) = Key(k)
  BY <1>1 DEF Conn, Honest, Key
<1> QED BY <1>2, Changed

LEMMA Abandoned == ASSUME ConnInv, NEW k \in conns, Abandon(k) PROVE ConnInv'
<1>1. k \in Conn /\ Honest(k)
  BY DEF ConnInv
<1>2. [k EXCEPT !.awaited = FALSE] \in Conn /\ Honest([k EXCEPT !.awaited = FALSE])
        /\ Key([k EXCEPT !.awaited = FALSE]) = Key(k)
  BY <1>1 DEF Conn, Honest, Key
<1> QED BY <1>2, Changed DEF Abandon

LEMMA ToDeleteFacts ==
    ASSUME NEW c \in Commands, found[c] \in Founds
    PROVE  /\ ToDelete(c) \subseteq All(found[c])
           /\ command[c].op = "close all" => ToDelete(c) = All(found[c])
           /\ command[c].op \notin {"close", "close all"} => ToDelete(c) = {}
           /\ command[c].op = "close" =>
                \A m \in ToDelete(c) : Matches(found[c], command[c].name) = {m}
<1> DEFINE f == found[c]
           M == Matches(f, command[c].name)
<1>1. M \subseteq All(f) /\ Selected(f, command[c].name) \subseteq M
  BY DEF Matches, Selected
<1>2. IsFiniteSet(M)
  BY <1>1, FiniteAll, FS_Subset
<1>3. ASSUME command[c].op = "close", NEW m \in ToDelete(c) PROVE M = {m}
  <2>1. Cardinality(M) = 1 /\ m \in M
    BY <1>3 DEF ToDelete, Selected
  <2>2. PICK x : M = {x}
    BY <1>2, <2>1, FS_Singleton
  <2> QED BY <2>1, <2>2
<1> QED BY <1>1, <1>3 DEF ToDelete

LEMMA ConnStep == ASSUME IInv, [Next]_vars PROVE ConnInv'
<1>1. ConnInv /\ CommandTypes /\ ManagementAssumption
  BY ManagementAssumption DEF IInv
<1>2. ASSUME UNCHANGED conns PROVE ConnInv'
  BY <1>1, <1>2 DEF ConnInv, Honest, Key
<1>3. ASSUME NEW s \in Sessions, AcceptorEnds(s) PROVE ConnInv'
  BY <1>1, <1>3, Fewer DEF AcceptorEnds
<1>4. ASSUME NEW k \in conns, NEW a, EndRequest(k, a) PROVE ConnInv'
  BY <1>1, <1>4, Fewer DEF EndRequest
<1>5. ASSUME NEW k \in conns, Accept(k) PROVE ConnInv'
  <2>1. CASE count[k.server] < Limit
    BY <1>1, <1>5, <2>1, Moved DEF Accept
  <2>2. CASE ~(count[k.server] < Limit)
    BY <1>1, <1>5, <2>2, Fewer DEF Accept
  <2> QED BY <2>1, <2>2
<1>6. ASSUME NEW k \in conns, ReadWhole(k) PROVE ConnInv'
  BY <1>1, <1>6, Moved DEF ReadWhole
<1>7. ASSUME NEW s \in Sessions, Crash(s) PROVE ConnInv'
  BY <1>1, <1>7, Fewer DEF Crash
<1>8. ASSUME NEW z \in Stallers, NEW s \in Sessions, Stall(z, s) PROVE ConnInv'
  <2> DEFINE r == [op |-> "none", id |-> 0]
             l == [client |-> z, server |-> s, token |-> NoSession, request |-> r,
                   whole |-> FALSE, awaited |-> FALSE, phase |-> "queued"]
  <2>1. conns' = conns \cup {l} /\ \A k \in conns : k.client # z
    BY <1>8 DEF Stall, Connect
  <2>2. r \in Requests /\ r.op = "none"
    BY DEF Requests
  <2>3. l \in Conn /\ Honest(l)
    BY <1>1, <2>2 DEF Conn, Honest
  <2>4. \A k \in conns : Key(k) # Key(l)
    BY <2>1 DEF Key
  <2> QED BY <1>1, <2>1, <2>3, <2>4, Added
<1>9. ASSUME NEW c \in Commands, NoAnswer(c) PROVE ConnInv'
  BY <1>1, <1>9, Abandoned DEF NoAnswer
<1>10. ASSUME NEW c \in Commands, NEW s \in Sessions, Visit(c, s) PROVE ConnInv'
  <2>1. CASE UNCHANGED conns
    BY <1>2, <2>1
  <2>2. CASE Request(c, s, [op |-> "list", id |-> 0])
    <3>1. [op |-> "list", id |-> 0] \in Requests
      BY DEF Requests
    <3> QED BY <1>10, <2>2, <3>1, Fresh DEF Visit
  <2> QED BY <1>10, <2>1, <2>2 DEF Visit
<1>11. ASSUME NEW c \in Commands, Resolve(c) PROVE ConnInv'
  <2>1. CASE UNCHANGED conns
    BY <1>2, <2>1
  <2>2. CASE \E s \in ForHost(c) : Request(c, s, [op |-> "create", id |-> 11])
    <3>1. [op |-> "create", id |-> 11] \in Requests
      BY DEF Requests
    <3>2. ForHost(c) \subseteq Sessions
      BY <1>1, FoundFacts DEF ForHost, CommandTypes
    <3> QED BY <1>11, <2>2, <3>1, <3>2, Fresh DEF Resolve
  <2> QED BY <1>11, <2>1, <2>2 DEF Resolve
<1>12. ASSUME NEW c \in Commands, NEW m \in left[c], Delete(c, m) PROVE ConnInv'
  <2>1. CASE UNCHANGED conns
    BY <1>2, <2>1
  <2>2. CASE Request(c, m[1], [op |-> "delete", id |-> m[2]])
    <3>1. left[c] \cap tried[c] = {} /\ left[c] \subseteq Sessions \X Nat
      BY <1>1 DEF IInv, CommandInv, Closes, CommandTypes
    <3>2. m[1] \in Sessions /\ m[2] \in Nat /\ <<m[1], m[2]>> \notin tried[c]
      BY <3>1
    <3>3. [op |-> "delete", id |-> m[2]] \in Requests
      BY <3>2 DEF Requests
    <3> QED BY <2>2, <3>2, <3>3, Fresh
  <2> QED BY <1>12, <2>1, <2>2 DEF Delete
<1>13. CASE Next
  <2>1. ASSUME Serve PROVE ConnInv'
    BY <1>3, <1>4, <1>5, <1>6, <2>1 DEF Serve, ServerSteps, AcceptorStops, ReadFails, Handle,
       HandleFails
  <2>2. ASSUME Environment PROVE ConnInv'
    BY <1>2, <1>3, <1>7, <1>8, <1>9, <2>2 DEF Environment, Start, Stop, Kill, ServerFails,
       AcceptorFails, TakeId, OthersChange, Recovered, TellToStop, serverVars
  <2>3. ASSUME NEW s \in Sessions, Join(s) \/ Exit(s) PROVE ConnInv'
    BY <1>2, <2>3 DEF Join, Exit, serverVars
  <2>4. ASSUME NEW c \in Commands, Command(c) PROVE ConnInv'
    BY <1>2, <1>10, <1>11, <1>12, <2>4 DEF Command, Begin, Hear, Check, Created, Deleted, Finish,
       serverVars, unread
  <2> QED BY <1>13, <2>1, <2>2, <2>3, <2>4 DEF Next
<1>14. CASE UNCHANGED vars
  BY <1>2, <1>14 DEF vars, serverVars
<1> QED BY <1>13, <1>14

-----------------------------------------------------------------------------
(* The types are kept.                                                     *)

LEMMA HandleKeeps ==
    ASSUME WrapperTypes, ConnInv, ServerInv, NEW k \in Running, Handle(k)
    PROVE  \E e \in Effects(k) :
             /\ EndRequest(k, e[2])
             /\ forwards' = [forwards EXCEPT ![k.server] = e[1]]
             /\ forwards' \in [Sessions -> Tables] /\ last' \in [Sessions -> 0..MaxId]
             /\ \A s \in Sessions : DOMAIN forwards[s] \subseteq 1..last[s] =>
                                      DOMAIN forwards'[s] \subseteq 1..last'[s]
<1>1. PICK e \in Effects(k) :
        /\ forwards' = [forwards EXCEPT ![k.server] = e[1]]
        /\ last' = [last EXCEPT ![k.server] = IF DOMAIN e[1] \subseteq 1..@ THEN @ ELSE @ + 1]
        /\ EndRequest(k, e[2])
  BY DEF Handle
<1>2. k.server \in Sessions /\ MaxId \in Nat
  BY ManagementAssumption DEF Running, ConnInv, Conn
<1>3. /\ e[1] \in Tables
      /\ \/ DOMAIN e[1] \subseteq 1..last[k.server]
         \/ last[k.server] < MaxId /\ DOMAIN e[1] \subseteq 1..(last[k.server] + 1)
  BY EffectFacts
<1>4. forwards \in [Sessions -> Tables] /\ last \in [Sessions -> 0..MaxId]
  BY DEF WrapperTypes
<1>5. forwards' \in [Sessions -> Tables]
  BY <1>1, <1>3, <1>4
<1> DEFINE n == IF DOMAIN e[1] \subseteq 1..last[k.server] THEN last[k.server]
                                                           ELSE last[k.server] + 1
<1>6. n \in 0..MaxId /\ DOMAIN e[1] \subseteq 1..n
  BY <1>2, <1>3, <1>4
<1>7. last' = [last EXCEPT ![k.server] = n]
  BY <1>1
<1> HIDE DEF n
<1>8. last' \in [Sessions -> 0..MaxId]
  BY <1>4, <1>6, <1>7
<1>9. \A s \in Sessions : DOMAIN forwards[s] \subseteq 1..last[s] =>
                            DOMAIN forwards'[s] \subseteq 1..last'[s]
  BY <1>1, <1>2, <1>4, <1>6, <1>7
<1> QED BY <1>1, <1>5, <1>8, <1>9

LEMMA OthersKeep ==
    ASSUME WrapperTypes, NEW s \in Sessions, OthersChange(s)
    PROVE  /\ forwards' \in [Sessions -> Tables]
           /\ \A t \in Sessions : DOMAIN forwards'[t] \subseteq DOMAIN forwards[t]
<1>1. forwards \in [Sessions -> Tables]
  BY DEF WrapperTypes
<1>2. CASE UNCHANGED forwards
  BY <1>1, <1>2
<1>3. CASE \E i \in DOMAIN forwards[s] :
             forwards' \in {[forwards EXCEPT ![s] = Without(@, i)],
                            [forwards EXCEPT ![s] = OnOtherPort(@, i)]}
  <2>1. PICK i \in DOMAIN forwards[s] :
             forwards' \in {[forwards EXCEPT ![s] = Without(@, i)],
                            [forwards EXCEPT ![s] = OnOtherPort(@, i)]}
    BY <1>3
  <2> DEFINE f == forwards[s]
             closed == Without(f, i)
             moved == OnOtherPort(f, i)
  <2>2. f \in Tables
    BY <1>1
  <2>3. /\ closed \in Tables /\ DOMAIN closed \subseteq DOMAIN f
        /\ moved \in Tables /\ DOMAIN moved = DOMAIN f
    <3> HIDE DEF f
    <3>1. closed \in Tables /\ DOMAIN closed = DOMAIN f \ {i}
      BY <2>2, TableFacts
    <3>2. i \in DOMAIN f
      BY <2>1 DEF f
    <3>3. moved \in Tables /\ DOMAIN moved = DOMAIN f
      BY <2>2, <3>2, TableFacts
    <3> QED BY <3>1, <3>3
  <2>4. forwards' = [forwards EXCEPT ![s] = closed] \/ forwards' = [forwards EXCEPT ![s] = moved]
    BY <2>1
  <2> HIDE DEF closed, moved
  <2> QED BY <1>1, <2>3, <2>4
<1> QED BY <1>2, <1>3 DEF OthersChange

LEMMA WrapperTypesStep == ASSUME IInv, [Next]_vars PROVE WrapperTypes'
<1>1. WrapperTypes /\ ConnInv /\ ServerInv
  BY DEF IInv
<1>2. ASSUME UNCHANGED wrapperVars PROVE WrapperTypes'
  BY <1>1, <1>2 DEF WrapperTypes, wrapperVars
<1>3. ASSUME NEW k \in conns, Handle(k) PROVE WrapperTypes'
  <2>1. forwards' \in [Sessions -> Tables] /\ last' \in [Sessions -> 0..MaxId]
    BY <1>1, <1>3, HandleKeeps DEF Handle
  <2> QED BY <1>1, <1>3, <2>1 DEF Handle, WrapperTypes
<1>4. ASSUME NEW s \in Sessions, Start(s) PROVE WrapperTypes'
  <2>1. PICK a \in Addresses[s] : address' = [address EXCEPT ![s] = a]
    BY <1>4 DEF Start
  <2>2. a \in UNION {Addresses[t] : t \in Sessions}
    OBVIOUS
  <2>3. address' \in [Sessions -> (UNION {Addresses[t] : t \in Sessions}) \cup {Nowhere}]
    BY <1>1, <2>1, <2>2 DEF WrapperTypes
  <2> QED BY <1>1, <1>4, <2>3 DEF Start, WrapperTypes, Phases
<1>5. ASSUME NEW s \in Sessions, Stop(s) \/ Exit(s) \/ TakeId(s) \/ Recovered(s)
      PROVE  WrapperTypes'
  BY <1>1, <1>5 DEF Stop, Exit, TakeId, Recovered, WrapperTypes, Phases
<1>6. ASSUME NEW s \in Sessions, Join(s) \/ Kill(s) PROVE WrapperTypes'
  <2>1. forwards' \in [Sessions -> Tables]
    BY <1>1, <1>6, NoEntries DEF Join, Kill, NoForwards, WrapperTypes
  <2> QED BY <1>1, <1>6, <2>1 DEF Join, Kill, WrapperTypes, Phases
<1>7. ASSUME NEW s \in Sessions, OthersChange(s) PROVE WrapperTypes'
  BY <1>1, <1>7, OthersKeep DEF OthersChange, WrapperTypes
<1>8. ASSUME NEW c \in Commands, Check(c) PROVE WrapperTypes'
  <2>1. file' \in [Sessions -> BOOLEAN]
    BY <1>1, <1>8 DEF Check, WrapperTypes
  <2> QED BY <1>1, <1>8, <2>1 DEF Check, WrapperTypes
<1>9. CASE Next
  <2>1. ASSUME Serve PROVE WrapperTypes'
    BY <1>2, <1>3, <2>1 DEF Serve, HandleFails
  <2>2. ASSUME Environment PROVE WrapperTypes'
    BY <1>2, <1>4, <1>5, <1>6, <1>7, <2>2 DEF Environment, ServerFails, Stall, NoAnswer
  <2>3. ASSUME NEW c \in Commands, Command(c) PROVE WrapperTypes'
    BY <1>2, <1>8, <2>3 DEF Command, Begin, Visit, Hear, Resolve, Created, Delete, Deleted, Finish
  <2> QED BY <1>5, <1>6, <1>9, <2>1, <2>2, <2>3 DEF Next
<1>10. CASE UNCHANGED vars
  BY <1>2, <1>10 DEF vars
<1> QED BY <1>9, <1>10

LEMMA CommandTypesStep == ASSUME IInv, [Next]_vars PROVE CommandTypes'
<1>1. CommandTypes /\ CommandInv /\ WrapperTypes
  BY DEF IInv
<1>2. ASSUME UNCHANGED commandVars PROVE CommandTypes'
  BY <1>1, <1>2 DEF CommandTypes, commandVars
<1>3. ASSUME NEW c \in Commands, Begin(c) PROVE CommandTypes'
  <2>1. {s \in Sessions : file[s]} \subseteq Sessions
          /\ {s \in Sessions : file[s] /\ wrapper[s] = "killed"} \subseteq Sessions
    OBVIOUS
  <2> QED BY <1>1, <1>3, <2>1 DEF Begin, Goto, CommandTypes, Positions, Looking
<1>4. ASSUME NEW c \in Commands, NEW s \in Sessions, Visit(c, s) PROVE CommandTypes'
  <2>1. todo' \in [Commands -> SUBSET Sessions]
    BY <1>1, <1>4 DEF Visit, CommandTypes
  <2>2. pc' \in [Commands -> Positions] /\ at' \in [Commands -> Sessions \cup {NoSession}]
    BY <1>1, <1>4 DEF Visit, CommandTypes, Positions, Looking, Waiting
  <2> QED BY <1>1, <1>4, <2>1, <2>2 DEF Visit, CommandTypes
<1>5. ASSUME NEW c \in Commands, Hear(c) PROVE CommandTypes'
  <2>1. pc' \in [Commands -> Positions]
    BY <1>1, <1>5 DEF Hear, CommandTypes, Positions, Looking
  <2>2. found' \in [Commands -> Founds]
    <3>1. CASE UNCHANGED found
      BY <1>1, <3>1 DEF CommandTypes
    <3>2. CASE /\ reply[c].kind = "ok"
               /\ found' = [found EXCEPT ![c] = With(@, at[c], reply[c].forwards)]
      <4>1. at[c] \in Sessions /\ reply[c].forwards \in Tables /\ found[c] \in Founds
        BY <1>1, <1>5, <3>2 DEF CommandInv, Hears, Hear, CommandTypes
      <4>2. With(found[c], at[c], reply[c].forwards) \in Founds
        BY <4>1, FoundFacts
      <4> QED BY <1>1, <3>2, <4>2 DEF CommandTypes
    <3> QED BY <1>5, <3>1, <3>2 DEF Hear
  <2> QED BY <1>1, <1>5, <2>1, <2>2 DEF Hear, CommandTypes
<1>6. ASSUME NEW c \in Commands, Resolve(c) PROVE CommandTypes'
  <2>1. found[c] \in Founds /\ ToDelete(c) \subseteq Sessions \X Nat /\ ForHost(c) \subseteq Sessions
    BY <1>1, ToDeleteFacts, FoundFacts DEF CommandTypes, ForHost
  <2>2. left' \in [Commands -> SUBSET (Sessions \X Nat)]
    BY <1>1, <1>6, <2>1 DEF Resolve, CommandTypes
  <2>3. pc' \in [Commands -> Positions] /\ at' \in [Commands -> Sessions \cup {NoSession}]
    <3>1. /\ \E p \in {"done", "creating", "acting"} : pc' = [pc EXCEPT ![c] = p]
          /\ at' = at \/ \E s \in ForHost(c) : at' = [at EXCEPT ![c] = s]
      BY <1>6 DEF Resolve
    <3>2. {"done", "creating", "acting"} \subseteq Positions
      BY DEF Positions, Waiting
    <3> QED BY <1>1, <2>1, <3>1, <3>2 DEF CommandTypes
  <2> QED BY <1>1, <1>6, <2>2, <2>3 DEF Resolve, CommandTypes
<1>7. ASSUME NEW c \in Commands, NEW m \in left[c], Delete(c, m) PROVE CommandTypes'
  <2>1. m \in Sessions \X Nat
    BY <1>1 DEF CommandTypes
  <2>2. m[1] \in Sessions
    BY <2>1
  <2>3. /\ left' \in [Commands -> SUBSET (Sessions \X Nat)]
        /\ tried' \in [Commands -> SUBSET (Sessions \X Nat)]
    BY <1>1, <1>7, <2>1 DEF Delete, CommandTypes
  <2>4. /\ pc' \in [Commands -> Positions] /\ at' \in [Commands -> Sessions \cup {NoSession}]
        /\ errors' \in [Commands -> Nat]
    BY <1>1, <1>7, <2>2 DEF Delete, CommandTypes, Positions, Waiting
  <2> QED BY <1>1, <1>7, <2>3, <2>4 DEF Delete, CommandTypes
<1>8. ASSUME NEW c \in Commands, Deleted(c) PROVE CommandTypes'
  <2>1. errors' \in [Commands -> Nat] /\ pc' \in [Commands -> Positions]
    BY <1>1, <1>8 DEF Deleted, AfterError, CommandTypes, Positions
  <2> QED BY <1>1, <1>8, <2>1 DEF Deleted, CommandTypes
<1>9. ASSUME NEW c \in Commands, Check(c) \/ Created(c) \/ Finish(c) PROVE CommandTypes'
  <2>1. pc' \in [Commands -> Positions]
    BY <1>1, <1>9 DEF Check, Goto, Created, Finish, CommandTypes, Positions, Looking
  <2> QED BY <1>1, <1>9, <2>1 DEF Check, Created, Finish, CommandTypes
<1>10. CASE Next
  <2>1. ASSUME Serve PROVE CommandTypes'
    BY <1>2, <2>1 DEF Serve, Handle, HandleFails
  <2>2. ASSUME Environment PROVE CommandTypes'
    BY <1>2, <2>2 DEF Environment, Start, Stop, Kill, ServerFails, TakeId, OthersChange, Recovered,
       Stall, NoAnswer
  <2>3. ASSUME NEW s \in Sessions, Join(s) \/ Exit(s) PROVE CommandTypes'
    BY <1>2, <2>3 DEF Join, Exit
  <2>4. ASSUME NEW c \in Commands, Command(c) PROVE CommandTypes'
    BY <1>3, <1>4, <1>5, <1>6, <1>7, <1>8, <1>9, <2>4 DEF Command
  <2> QED BY <1>10, <2>1, <2>2, <2>3, <2>4 DEF Next
<1>11. CASE UNCHANGED vars
  BY <1>2, <1>11 DEF vars
<1> QED BY <1>10, <1>11

LEMMA Answers == \A kind \in Kinds : Answer(kind) \in Replies /\ Answer(kind).kind = kind
<1>1. \A kind \in Kinds : Answer(kind) \in [kind : Kinds] /\ Answer(kind).kind = kind
  BY DEF Answer
<1> QED BY <1>1 DEF Replies

LEMMA NoReplyFacts == NoReply \in Replies /\ NoReply.kind = "none"
<1>1. NoReply \in [kind : Kinds] /\ NoReply.kind = "none"
  BY DEF NoReply, Kinds
<1> QED BY <1>1 DEF Replies

LEMMA RepliedType ==
    ASSUME ServerTypes, NEW E, NEW a \in Replies
    PROVE  Replied(E, a) \in [Clients -> Replies]
BY DEF Replied, ServerTypes

LEMMA ServerTypesStep == ASSUME IInv, [Next]_vars PROVE ServerTypes'
<1>1. ServerTypes /\ WrapperTypes /\ ConnInv /\ ServerInv /\ Commands \subseteq Clients
  BY ManagementAssumption DEF IInv
<1>2. \A k \in conns : k.client \in Clients /\ k.server \in Sessions
  BY <1>1 DEF ConnInv, Conn
<1>3. ASSUME UNCHANGED <<listening, acceptor, count, reply>> PROVE ServerTypes'
  BY <1>1, <1>3 DEF ServerTypes
<1>4. ASSUME NEW s \in Sessions, AcceptorEnds(s) PROVE ServerTypes'
  <2>1. reply' \in [Clients -> Replies]
    BY <1>1, <1>4, RepliedType, Answers DEF AcceptorEnds, Kinds
  <2> QED BY <1>1, <1>4, <2>1 DEF AcceptorEnds, ServerTypes
<1>5. ASSUME NEW k \in conns, NEW a \in Replies, EndRequest(k, a) PROVE ServerTypes'
  <2>1. reply' \in [Clients -> Replies]
    BY <1>1, <1>5, RepliedType DEF EndRequest
  <2>2. count' \in [Sessions -> Nat]
    <3>1. count[k.server] \in Nat
      BY <1>1, <1>2 DEF ServerTypes
    <3>2. (IF count[k.server] > 0 THEN count[k.server] - 1 ELSE 0) \in Nat
      BY <3>1
    <3> QED BY <1>1, <1>5, <3>2 DEF EndRequest, ServerTypes
  <2> QED BY <1>1, <1>5, <2>1, <2>2 DEF EndRequest, ServerTypes
<1>6. ASSUME NEW k \in conns, Accept(k) PROVE ServerTypes'
  <2>1. reply' \in [Clients -> Replies]
    <3>1. reply' = reply \/ reply' = Replied({k}, Answer("busy"))
      BY <1>6 DEF Accept
    <3>2. Answer("busy") \in Replies
      BY Answers DEF Kinds
    <3> QED BY <1>1, <3>1, <3>2, RepliedType DEF ServerTypes
  <2>2. count' \in [Sessions -> Nat]
    <3>1. count[k.server] \in Nat
      BY <1>1, <1>2 DEF ServerTypes
    <3>2. count' = count \/ count' = [count EXCEPT ![k.server] = count[k.server] + 1]
      BY <1>6 DEF Accept, Counts
    <3> QED BY <1>1, <3>1, <3>2 DEF ServerTypes
  <2>3. acceptor' \in [Sessions -> {"none", "looping", "last", "ended"}]
    BY <1>1, <1>6 DEF Accept, ServerTypes
  <2> QED BY <1>1, <1>6, <2>1, <2>2, <2>3 DEF Accept, ServerTypes
<1>7. ASSUME NEW s \in Sessions, Crash(s) PROVE ServerTypes'
  <2>1. reply' \in [Clients -> Replies]
    BY <1>1, <1>7, RepliedType, Answers DEF Crash, Kinds
  <2> QED BY <1>1, <1>7, <2>1 DEF Crash, ServerTypes
<1>8. ASSUME NEW s \in Sessions, TellToStop(s) PROVE ServerTypes'
  <2>1. acceptor' \in [Sessions -> {"none", "looping", "last", "ended"}]
    BY <1>1, <1>8 DEF TellToStop, ServerTypes
  <2> QED BY <1>1, <1>8, <2>1 DEF TellToStop, ServerTypes
<1>9. ASSUME NEW c \in Commands, Forget(c), UNCHANGED unread PROVE ServerTypes'
  <2>1. reply' \in [Clients -> Replies]
    BY <1>1, <1>9, NoReplyFacts DEF Forget, ServerTypes
  <2> QED BY <1>1, <1>9, <2>1 DEF unread, ServerTypes
<1>10. ASSUME NEW k \in conns, Abandon(k) PROVE ServerTypes'
  <2>1. reply' \in [Clients -> Replies]
    BY <1>1, <1>10, Answers DEF Abandon, Kinds, ServerTypes
  <2> QED BY <1>1, <1>10, <2>1 DEF Abandon, ServerTypes
<1>11. ASSUME NEW s \in Sessions, Start(s) PROVE ServerTypes'
  BY <1>1, <1>11 DEF Start, Listen, ServerTypes
<1>12. ASSUME NEW k \in conns, Handle(k) \/ HandleFails(k) \/ ReadFails(k) PROVE ServerTypes'
  <2>1. CASE Handle(k)
    <3>1. k \in Running
      BY <2>1 DEF Handle
    <3>2. PICK e \in Effects(k) : EndRequest(k, e[2])
      BY <2>1 DEF Handle
    <3>3. e[2] \in Replies
      BY <1>1, <3>1, EffectFacts
    <3> QED BY <1>5, <3>2, <3>3
  <2>2. Answer("failed") \in Replies
    BY Answers DEF Kinds
  <2> QED BY <1>5, <1>12, <2>1, <2>2 DEF HandleFails, ReadFails
<1>13. CASE Next
  <2>1. ASSUME Serve PROVE ServerTypes'
    BY <1>3, <1>4, <1>6, <1>12, <2>1 DEF Serve, ServerSteps, AcceptorStops, ReadWhole
  <2>2. ASSUME Environment PROVE ServerTypes'
    BY <1>3, <1>4, <1>7, <1>8, <1>10, <1>11, <2>2 DEF Environment, Stop, Kill, ServerFails,
       AcceptorFails, TakeId, OthersChange, Recovered, serverVars, Stall, Connect, NoAnswer
  <2>3. ASSUME NEW s \in Sessions, Join(s) \/ Exit(s) PROVE ServerTypes'
    BY <1>3, <2>3 DEF Join, Exit, serverVars
  <2>4. ASSUME NEW c \in Commands, Command(c) PROVE ServerTypes'
    BY <1>3, <1>9, <2>4 DEF Command, Begin, Visit, Hear, Check, Resolve, Created, Delete, Deleted,
       Finish, serverVars, Request, Connect
  <2> QED BY <1>13, <2>1, <2>2, <2>3, <2>4 DEF Next
<1>14. CASE UNCHANGED vars
  BY <1>3, <1>14 DEF vars, serverVars
<1> QED BY <1>13, <1>14

-----------------------------------------------------------------------------
(* Servers count their requests.                                           *)

LEMMA BusyFacts ==
    ASSUME NEW s
    PROVE  /\ \A k : k \in Busy(s) <=> k \in conns /\ k.server = s /\ k.phase # "queued"
           /\ ConnInv => IsFiniteSet(Busy(s)) /\ Cardinality(Busy(s)) \in Nat
<1>1. \A k : k \in Busy(s) <=> k \in conns /\ k.server = s /\ k.phase # "queued"
  BY DEF Busy, At, Queued
<1>2. ConnInv => IsFiniteSet(Busy(s))
  BY <1>1, FS_Subset DEF ConnInv
<1> QED BY <1>1, <1>2, FS_CardinalityType

\* Busy(s) after a step.
LEMMA NextBusy ==
    ASSUME NEW s
    PROVE  \A k : k \in Busy(s)' <=> k \in conns' /\ k.server = s /\ k.phase # "queued"
BY DEF Busy, At, Queued

LEMMA CountSame ==
    ASSUME NEW s, Counted(s), count'[s] = count[s],
           \A k : k.server = s /\ k.phase # "queued" => (k \in conns' <=> k \in conns)
    PROVE  Counted(s)'
<1>1. Busy(s)' = Busy(s)
  <2>1. \A k : k \in Busy(s)' <=> k \in Busy(s)
    BY BusyFacts, NextBusy
  <2>2. Busy(s)' \subseteq Busy(s) /\ Busy(s) \subseteq Busy(s)'
    BY <2>1
  <2> QED BY <2>2
<1> QED BY <1>1 DEF Counted

LEMMA Replaced ==
    ASSUME ConnInv, NEW k \in conns, NEW l, Key(l) = Key(k), l.server = k.server,
           k.phase # "queued", l.phase # "queued",
           conns' = (conns \ {k}) \cup {l}, UNCHANGED count, NEW s \in Sessions, Counted(s)
    PROVE  Counted(s)'
<1>1. CASE k.server # s \/ l = k
  <2>1. \A m : m.server = s /\ m.phase # "queued" => (m \in conns' <=> m \in conns)
    BY <1>1
  <2>2. count'[s] = count[s]
    OBVIOUS
  <2> QED BY <2>1, <2>2, CountSame
<1>2. CASE k.server = s /\ l # k
  <2>1. l \notin conns
    BY <1>2 DEF ConnInv
  <2>2. Busy(s)' = (Busy(s) \ {k}) \cup {l} /\ k \in Busy(s) /\ l \notin Busy(s)
    BY <1>2, <2>1, BusyFacts, NextBusy
  <2>3. IsFiniteSet(Busy(s)) /\ Cardinality(Busy(s)) \in Nat
    BY BusyFacts
  <2>4. /\ IsFiniteSet(Busy(s) \ {k})
        /\ Cardinality(Busy(s) \ {k}) = Cardinality(Busy(s)) - 1
    BY <2>2, <2>3, FS_RemoveElement
  <2>5. Cardinality((Busy(s) \ {k}) \cup {l}) = Cardinality(Busy(s) \ {k}) + 1
    BY <2>2, <2>4, FS_AddElement
  <2>6. Cardinality(Busy(s)') = Cardinality(Busy(s))
    BY <2>2, <2>3, <2>4, <2>5
  <2> QED BY <2>6 DEF Counted
<1> QED BY <1>1, <1>2

LEMMA Left ==
    ASSUME ConnInv, ServerTypes, NEW k \in conns, k.phase # "queued", NEW a, EndRequest(k, a),
           NEW s \in Sessions, Counted(s)
    PROVE  Counted(s)'
<1>1. conns' = conns \ {k} /\ count' = [count EXCEPT ![k.server] = IF @ > 0 THEN @ - 1 ELSE 0]
  BY DEF EndRequest
<1>2. CASE k.server # s
  <2>1. \A m : m.server = s /\ m.phase # "queued" => (m \in conns' <=> m \in conns)
    BY <1>1, <1>2
  <2>2. count'[s] = count[s]
    BY <1>1, <1>2 DEF ServerTypes
  <2> QED BY <2>1, <2>2, CountSame
<1>3. CASE k.server = s
  <2>1. Busy(s)' = Busy(s) \ {k} /\ k \in Busy(s)
    BY <1>1, <1>3, BusyFacts, NextBusy
  <2>2. IsFiniteSet(Busy(s)) /\ Cardinality(Busy(s)) \in Nat
    BY BusyFacts
  <2>3. Cardinality(Busy(s)) # 0
    BY <2>1, <2>2, FS_EmptySet
  <2>4. Cardinality(Busy(s)') = Cardinality(Busy(s)) - 1
    BY <2>1, <2>2, FS_RemoveElement
  <2>5. count'[s] = IF count[s] > 0 THEN count[s] - 1 ELSE 0
    BY <1>1, <1>3 DEF ServerTypes
  <2> QED BY <2>2, <2>3, <2>4, <2>5, ServerAssumption DEF Counted
<1> QED BY <1>2, <1>3

LEMMA Entered ==
    ASSUME ConnInv, ServerTypes, NEW k \in conns, Accept(k), NEW s \in Sessions, Counted(s)
    PROVE  Counted(s)'
<1>1. k.phase = "queued" /\ k \in Conn
  BY DEF Accept, Queued, ConnInv
<1>2. CASE s # k.server \/ ~(count[k.server] < Limit)
  <2> DEFINE l == [k EXCEPT !.phase = "reading"]
  <2>1. l.server = k.server
    BY <1>1 DEF Conn
  <2>2. conns' = conns \ {k} \/ (conns' = (conns \ {k}) \cup {l} /\ s # k.server)
    BY <1>2 DEF Accept
  <2>3. \A m : m.server = s /\ m.phase # "queued" => (m \in conns' <=> m \in conns)
    <3> HIDE DEF l
    <3> QED BY <1>1, <2>1, <2>2
  <2>4. count'[s] = count[s]
    BY <1>2 DEF Accept, ServerTypes
  <2> QED BY <2>3, <2>4, CountSame
<1>3. CASE s = k.server /\ count[k.server] < Limit
  <2> DEFINE l == [k EXCEPT !.phase = "reading"]
  <2>1. l.server = k.server /\ l.phase = "reading" /\ Key(l) = Key(k)
    BY <1>1 DEF Conn, Key
  <2>2. conns' = (conns \ {k}) \cup {l} /\ count'[s] = count[s] + 1
    BY <1>3 DEF Accept, Counts, ServerTypes
  <2> HIDE DEF l
  <2>3. l \notin conns
    BY <1>1, <2>1 DEF ConnInv
  <2>4. Busy(s)' = Busy(s) \cup {l} /\ l \notin Busy(s)
    BY <1>1, <1>3, <2>1, <2>2, <2>3, BusyFacts, NextBusy
  <2>5. IsFiniteSet(Busy(s)) /\ Cardinality(Busy(s)) \in Nat
    BY BusyFacts
  <2>6. Cardinality(Busy(s)') = Cardinality(Busy(s)) + 1
    BY <2>4, <2>5, FS_AddElement
  <2> QED BY <1>3, <2>2, <2>5, <2>6, ServerAssumption DEF Counted
<1> QED BY <1>2, <1>3

\* A connection that is added waits in the queue.
LEMMA Queues ==
    ASSUME NEW s, Counted(s), NEW c, NEW t, NEW token, NEW r, NEW whole,
           Connect(c, t, token, r, whole), UNCHANGED count
    PROVE  Counted(s)'
<1> DEFINE l == [client |-> c, server |-> t, token |-> token, request |-> r,
                 whole |-> whole, awaited |-> whole, phase |-> "queued"]
<1>1. conns' = conns \cup {l} /\ l.phase = "queued"
  BY DEF Connect
<1> HIDE DEF l
<1>2. \A m : m.server = s /\ m.phase # "queued" => (m \in conns' <=> m \in conns)
  BY <1>1
<1> QED BY <1>2, CountSame

LEMMA CountedStep == ASSUME IInv, [Next]_vars, NEW s \in Sessions PROVE Counted(s)'
<1>1. ConnInv /\ ServerTypes /\ Counted(s)
  BY DEF IInv, ServerInv
<1>2. ASSUME UNCHANGED <<conns, count>> PROVE Counted(s)'
  BY <1>1, <1>2, CountSame
<1>3. ASSUME NEW t \in Sessions, AcceptorEnds(t) PROVE Counted(s)'
  <2>1. \A m : m.server = s /\ m.phase # "queued" => (m \in conns' <=> m \in conns)
    BY <1>3 DEF AcceptorEnds, Queued
  <2> QED BY <1>1, <1>3, <2>1, CountSame DEF AcceptorEnds
<1>4. ASSUME NEW t \in Sessions, Crash(t) PROVE Counted(s)'
  <2>1. CASE s # t
    <3>1. \A m : m.server = s /\ m.phase # "queued" => (m \in conns' <=> m \in conns)
      BY <1>4, <2>1 DEF Crash, At
    <3>2. count'[s] = count[s]
      BY <1>1, <1>4, <2>1 DEF Crash, ServerTypes
    <3> QED BY <1>1, <3>1, <3>2, CountSame
  <2>2. CASE s = t
    <3>1. Busy(s)' = {}
      BY <1>4, <2>2, NextBusy DEF Crash, At
    <3>2. count'[s] = 0
      BY <1>1, <1>4, <2>2 DEF Crash, ServerTypes
    <3> QED BY <3>1, <3>2, FS_EmptySet, ServerAssumption DEF Counted
  <2> QED BY <2>1, <2>2
<1>5. ASSUME NEW k \in conns, NEW a, EndRequest(k, a), k \in Reading \/ k \in Running
      PROVE  Counted(s)'
  <2>1. k.phase # "queued"
    BY <1>5 DEF Reading, Running
  <2> QED BY <1>1, <1>5, <2>1, Left
<1>6. ASSUME NEW k \in conns, Accept(k) PROVE Counted(s)'
  BY <1>1, <1>6, Entered
<1>7. ASSUME NEW k \in conns, ReadWhole(k) PROVE Counted(s)'
  <2> DEFINE l == [k EXCEPT !.phase = "running"]
  <2>1. k \in Conn /\ k.phase = "reading" /\ conns' = (conns \ {k}) \cup {l} /\ UNCHANGED count
    BY <1>1, <1>7 DEF ReadWhole, Reading, ConnInv
  <2>2. l.server = k.server /\ l.phase # "queued" /\ Key(l) = Key(k)
    BY <2>1 DEF Conn, Key
  <2> HIDE DEF l
  <2> QED BY <1>1, <2>1, <2>2, Replaced
<1>8. ASSUME NEW k \in conns, Abandon(k) PROVE Counted(s)'
  <2> DEFINE l == [k EXCEPT !.awaited = FALSE]
  <2>1. k \in Conn /\ conns' = (conns \ {k}) \cup {l} /\ UNCHANGED count
    BY <1>1, <1>8 DEF Abandon, ConnInv
  <2>2. l.server = k.server /\ l.phase = k.phase /\ Key(l) = Key(k)
    BY <2>1 DEF Conn, Key
  <2> HIDE DEF l
  <2>3. CASE k.phase = "queued"
    <3>1. \A m : m.server = s /\ m.phase # "queued" => (m \in conns' <=> m \in conns)
      BY <2>1, <2>2, <2>3
    <3> QED BY <1>1, <2>1, <3>1, CountSame
  <2>4. CASE k.phase # "queued"
    BY <1>1, <2>1, <2>2, <2>4, Replaced
  <2> QED BY <2>3, <2>4
<1>9. ASSUME NEW c, NEW t, NEW r, Request(c, t, r), UNCHANGED count PROVE Counted(s)'
  BY <1>1, <1>9, Queues DEF Request
<1>10. CASE Next
  <2>1. ASSUME Serve PROVE Counted(s)'
    BY <1>3, <1>5, <1>6, <1>7, <2>1 DEF Serve, ServerSteps, AcceptorStops, ReadFails, Handle,
       HandleFails
  <2>2. ASSUME Environment PROVE Counted(s)'
    <3>1. ASSUME NEW z \in Stallers, NEW t \in Sessions, Stall(z, t) PROVE Counted(s)'
      BY <1>1, <3>1, Queues DEF Stall
    <3> QED BY <1>2, <1>3, <1>4, <1>8, <2>2, <3>1 DEF Environment, Start, Stop, Kill, ServerFails,
       AcceptorFails, TakeId, OthersChange, Recovered, TellToStop, serverVars, NoAnswer
  <2>3. ASSUME NEW t \in Sessions, Join(t) \/ Exit(t) PROVE Counted(s)'
    BY <1>2, <2>3 DEF Join, Exit, serverVars
  <2>4. ASSUME NEW c \in Commands, Command(c) PROVE Counted(s)'
    BY <1>2, <1>9, <2>4 DEF Command, Begin, Visit, Hear, Check, Resolve, Created, Delete, Deleted,
       Finish, serverVars, unread
  <2> QED BY <1>10, <2>1, <2>2, <2>3, <2>4 DEF Next
<1>11. CASE UNCHANGED vars
  BY <1>2, <1>11 DEF vars, serverVars
<1> QED BY <1>10, <1>11

-----------------------------------------------------------------------------
(* A server lives no longer than its wrapper, and queues nothing when it is     *)
(* closed.                                                                 *)

LEMMA LivesStep == ASSUME IInv, [Next]_vars, NEW s \in Sessions PROVE Lives(s)'
<1>1. ConnInv /\ ServerTypes /\ WrapperTypes /\ \A t \in Sessions : Lives(t)
  BY DEF IInv, ServerInv
<1>2. \A k \in conns : k \in Conn /\ k.server \in Sessions
  BY <1>1 DEF ConnInv, Conn
<1> DEFINE Queue == \A k \in conns : k.server = s /\ k.phase = "queued" => listening[s]
           Tied == /\ listening[s] <=> acceptor[s] \in {"looping", "last"}
                   /\ acceptor[s] = "none" <=> wrapper[s] = "new"
                   /\ wrapper[s] \in {"joined", "exited", "killed"} =>
                        acceptor[s] = "ended" /\ count[s] = 0
<1>3. Queue /\ Tied /\ (Queue' /\ Tied' => Lives(s)')
  BY <1>1 DEF Lives, At, Queued
<1>4. ASSUME UNCHANGED <<wrapper, listening, acceptor, count, conns>> PROVE Queue' /\ Tied'
  BY <1>3, <1>4
<1>5. ASSUME NEW t \in Sessions, AcceptorEnds(t), UNCHANGED wrapper, acceptor[t] # "none"
      PROVE  Queue' /\ Tied'
  <2>1. Queue'
    BY <1>1, <1>3, <1>5 DEF AcceptorEnds, At, Queued, ServerTypes
  <2>2. Tied'
    BY <1>1, <1>3, <1>5 DEF AcceptorEnds, ServerTypes
  <2> QED BY <2>1, <2>2
<1>6. ASSUME NEW k \in conns, NEW a, EndRequest(k, a), UNCHANGED wrapper PROVE Queue' /\ Tied'
  <2>1. Queue'
    BY <1>3, <1>6 DEF EndRequest
  <2>2. count[s] = 0 => count'[s] = 0
    BY <1>1, <1>2, <1>6 DEF EndRequest, ServerTypes
  <2>3. Tied'
    BY <1>3, <1>6, <2>2 DEF EndRequest
  <2> QED BY <2>1, <2>3
<1>7. ASSUME NEW k \in conns, Accept(k), UNCHANGED wrapper PROVE Queue' /\ Tied'
  <2>1. k.server \in Sessions /\ acceptor[k.server] \in {"looping", "last"}
    BY <1>2, <1>7 DEF Accept
  <2>2. Queue'
    <3>1. \A m \in conns' : m \in conns \/ m = [k EXCEPT !.phase = "reading"]
      BY <1>7 DEF Accept
    <3>2. [k EXCEPT !.phase = "reading"].phase = "reading"
      BY <1>2 DEF Conn
    <3> QED BY <1>3, <1>7, <3>1, <3>2 DEF Accept
  <2>3. acceptor' = [acceptor EXCEPT ![k.server] = "looping"] /\ UNCHANGED listening
    BY <1>7 DEF Accept
  <2>4. s # k.server => count'[s] = count[s]
    BY <1>1, <1>7 DEF Accept, ServerTypes
  <2>5. Tied'
    BY <1>1, <1>3, <1>7, <2>1, <2>3, <2>4 DEF ServerTypes
  <2> QED BY <2>2, <2>5
<1>8. ASSUME NEW k \in conns, ReadWhole(k), UNCHANGED wrapper PROVE Queue' /\ Tied'
  <2>1. [k EXCEPT !.phase = "running"].phase = "running"
    BY <1>2 DEF Conn
  <2>2. \A m \in conns' : m \in conns \/ m = [k EXCEPT !.phase = "running"]
    BY <1>8 DEF ReadWhole
  <2> QED BY <1>3, <1>8, <2>1, <2>2 DEF ReadWhole
<1>9. ASSUME NEW t \in Sessions, Kill(t) PROVE Queue' /\ Tied'
  <2>1. Queue'
    BY <1>1, <1>3, <1>9 DEF Kill, Crash, At, ServerTypes
  <2>2. Tied'
    BY <1>1, <1>3, <1>9 DEF Kill, Crash, ServerTypes, WrapperTypes
  <2> QED BY <2>1, <2>2
<1>10. ASSUME NEW t \in Sessions, Start(t) PROVE Queue' /\ Tied'
  BY <1>1, <1>3, <1>10 DEF Start, Listen, ServerTypes, WrapperTypes
<1>11. ASSUME NEW t \in Sessions, Stop(t) PROVE Queue' /\ Tied'
  <2>1. \E position \in {"looping", "last"} :
          acceptor' = [acceptor EXCEPT ![t] = IF @ = "ended" THEN @ ELSE position]
    BY <1>11 DEF Stop, TellToStop
  <2>2. wrapper[t] = "running" /\ wrapper' = [wrapper EXCEPT ![t] = "stopping"]
          /\ UNCHANGED <<listening, count, conns>>
    BY <1>11 DEF Stop, TellToStop
  <2> QED BY <1>1, <1>3, <2>1, <2>2 DEF Lives, ServerTypes, WrapperTypes
<1>12. ASSUME NEW t \in Sessions, Join(t) \/ Exit(t) PROVE Queue' /\ Tied'
  BY <1>1, <1>3, <1>12 DEF Join, Exit, Joinable, serverVars, WrapperTypes
<1>13. ASSUME NEW k \in conns, Abandon(k), UNCHANGED wrapper PROVE Queue' /\ Tied'
  <2>1. /\ [k EXCEPT !.awaited = FALSE].server = k.server
        /\ [k EXCEPT !.awaited = FALSE].phase = k.phase
    BY <1>2 DEF Conn
  <2>2. \A m \in conns' : m \in conns \/ m = [k EXCEPT !.awaited = FALSE]
    BY <1>13 DEF Abandon
  <2> QED BY <1>3, <1>13, <2>1, <2>2 DEF Abandon
<1>14. ASSUME NEW c, NEW t, NEW token, NEW r, NEW whole, Connect(c, t, token, r, whole),
              listening[t], UNCHANGED <<wrapper, listening, acceptor, count>>
       PROVE  Queue' /\ Tied'
  <2> DEFINE l == [client |-> c, server |-> t, token |-> token, request |-> r,
                   whole |-> whole, awaited |-> whole, phase |-> "queued"]
  <2>1. conns' = conns \cup {l} /\ l.server = t
    BY <1>14 DEF Connect
  <2> HIDE DEF l
  <2> QED BY <1>3, <1>14, <2>1
<1>15. ASSUME NEW c, NEW t, NEW r, Request(c, t, r),
              UNCHANGED <<wrapper, listening, acceptor, count>>
       PROVE  Queue' /\ Tied'
  BY <1>14, <1>15 DEF Request, ListensAt
<1> HIDE DEF Queue, Tied
<1>16. ASSUME Next PROVE Queue' /\ Tied'
  <2>1. ASSUME Serve PROVE Queue' /\ Tied'
    BY <1>5, <1>6, <1>7, <1>8, <2>1 DEF Serve, ServerSteps, AcceptorStops, ReadFails, Handle,
       HandleFails, wrapperVars
  <2>2. ASSUME Environment PROVE Queue' /\ Tied'
    <3>1. ASSUME NEW z \in Stallers, NEW t \in Sessions, Stall(z, t) PROVE Queue' /\ Tied'
      BY <1>14, <3>1 DEF Stall, wrapperVars
    <3>2. ASSUME NEW c \in Commands, NoAnswer(c) PROVE Queue' /\ Tied'
      BY <1>13, <3>2 DEF NoAnswer, wrapperVars
    <3>3. ASSUME NEW t \in Sessions, ServerFails(t) PROVE Queue' /\ Tied'
      BY <1>5, <3>3 DEF ServerFails, AcceptorFails, wrapperVars
    <3> QED BY <1>4, <1>9, <1>10, <1>11, <2>2, <3>1, <3>2, <3>3 DEF Environment, TakeId,
         OthersChange, Recovered, serverVars
  <2>3. ASSUME NEW c \in Commands, Command(c) PROVE Queue' /\ Tied'
    BY <1>4, <1>15, <2>3 DEF Command, Begin, Visit, Hear, Check, Resolve, Created, Delete, Deleted,
       Finish, serverVars, unread, wrapperVars
  <2> QED BY <1>12, <1>16, <2>1, <2>2, <2>3 DEF Next
<1>17. ASSUME UNCHANGED vars PROVE Queue' /\ Tied'
  BY <1>4, <1>17 DEF vars, serverVars, wrapperVars
<1>18. Queue' /\ Tied'
  BY <1>16, <1>17
<1> QED BY <1>3, <1>18

LEMMA FilesStep == ASSUME IInv, [Next]_vars, NEW s \in Sessions PROVE Files(s)'
<1>1. ConnInv /\ ServerInv /\ WrapperTypes /\ Files(s)
  BY DEF IInv, ServerInv
<1>2. ASSUME UNCHANGED wrapperVars PROVE Files(s)'
  BY <1>1, <1>2 DEF Files, wrapperVars
<1>3. ASSUME NEW k \in conns, Handle(k) PROVE Files(s)'
  <2>1. k \in Running
    BY <1>3 DEF Handle
  <2>2. DOMAIN forwards'[s] \subseteq 1..last'[s]
    BY <1>1, <1>3, <2>1, HandleKeeps DEF Files
  <2> QED BY <1>1, <1>3, <2>2 DEF Handle, Files
<1>4. ASSUME NEW t \in Sessions, Start(t) PROVE Files(s)'
  <2>1. PICK a \in Addresses[t] : address' = [address EXCEPT ![t] = a]
    BY <1>4 DEF Start
  <2>2. address'[s] \in Addresses[s] \cup {Nowhere}
    BY <1>1, <2>1 DEF Files, WrapperTypes
  <2> QED BY <1>1, <1>4, <2>2 DEF Start, Files, WrapperTypes
<1>5. ASSUME NEW t \in Sessions, Stop(t) \/ Exit(t) \/ TakeId(t) \/ Recovered(t)
      PROVE  Files(s)'
  BY <1>1, <1>5 DEF Stop, Exit, TakeId, Recovered, Files, WrapperTypes
<1>6. ASSUME NEW t \in Sessions, Join(t) \/ Kill(t) PROVE Files(s)'
  <2>1. DOMAIN NoForwards = {}
    BY DEF NoForwards
  <2>2. DOMAIN forwards'[s] \subseteq 1..last'[s]
    <3>1. forwards'[s] = NoForwards \/ forwards'[s] = forwards[s]
      BY <1>1, <1>6 DEF Join, Kill, WrapperTypes
    <3> QED BY <1>1, <1>6, <2>1, <3>1 DEF Join, Kill, Files
  <2> QED BY <1>1, <1>6, <2>2 DEF Join, Kill, Files, WrapperTypes
<1>7. ASSUME NEW t \in Sessions, OthersChange(t) PROVE Files(s)'
  <2>1. DOMAIN forwards'[s] \subseteq DOMAIN forwards[s]
    BY <1>1, <1>7, OthersKeep
  <2> QED BY <1>1, <1>7, <2>1 DEF OthersChange, Files
<1>8. ASSUME NEW c \in Commands, Check(c) PROVE Files(s)'
  BY <1>1, <1>8 DEF Check, Files, WrapperTypes
<1>9. CASE Next
  <2>1. ASSUME Serve PROVE Files(s)'
    BY <1>2, <1>3, <2>1 DEF Serve, HandleFails
  <2>2. ASSUME Environment PROVE Files(s)'
    BY <1>2, <1>4, <1>5, <1>6, <1>7, <2>2 DEF Environment, ServerFails, Stall, NoAnswer
  <2>3. ASSUME NEW c \in Commands, Command(c) PROVE Files(s)'
    BY <1>2, <1>8, <2>3 DEF Command, Begin, Visit, Hear, Resolve, Created, Delete, Deleted, Finish
  <2> QED BY <1>5, <1>6, <1>9, <2>1, <2>2, <2>3 DEF Next
<1>10. CASE UNCHANGED vars
  BY <1>2, <1>10 DEF vars
<1> QED BY <1>9, <1>10

-----------------------------------------------------------------------------
(* Commands know what they asked for, and whom.                            *)

Ok(c) == Sends(c) /\ Awaits(c) /\ Hears(c) /\ Prunes(c) /\ Closes(c)

Same(c) ==
    /\ command' = command
    /\ pc'[c] = pc[c] /\ todo'[c] = todo[c] /\ at'[c] = at[c] /\ found'[c] = found[c]
    /\ left'[c] = left[c] /\ tried'[c] = tried[c] /\ stale'[c] = stale[c]

Aging ==
    /\ taken \subseteq taken'
    /\ \A s \in Sessions : wrapper[s] = "killed" =>
                             wrapper'[s] = "killed" /\ (file'[s] => file[s])

LEMMA AgingStep == ASSUME WrapperTypes, [Next]_vars PROVE Aging
<1>1. ASSUME UNCHANGED wrapperVars PROVE Aging
  BY <1>1 DEF Aging, wrapperVars
<1>2. ASSUME NEW k \in conns, Handle(k) PROVE Aging
  BY <1>2 DEF Handle, Aging
<1>3. ASSUME NEW s \in Sessions, Start(s) \/ Stop(s) \/ Kill(s) \/ Join(s) \/ Exit(s) PROVE Aging
  BY <1>3 DEF Start, Stop, Kill, Join, Exit, Alive, Aging, WrapperTypes
<1>4. ASSUME NEW s \in Sessions, TakeId(s) \/ OthersChange(s) \/ Recovered(s) PROVE Aging
  BY <1>4 DEF TakeId, OthersChange, Recovered, Aging
<1>5. ASSUME NEW c \in Commands, Check(c) PROVE Aging
  <2>1. \A s \in Sessions : file'[s] => file[s]
    BY <1>5 DEF Check, WrapperTypes
  <2> QED BY <1>5, <2>1 DEF Check, Aging
<1>6. CASE Next
  <2>1. ASSUME Serve PROVE Aging
    BY <1>1, <1>2, <2>1 DEF Serve, HandleFails
  <2>2. ASSUME Environment PROVE Aging
    BY <1>1, <1>3, <1>4, <2>2 DEF Environment, ServerFails, Stall, NoAnswer
  <2>3. ASSUME NEW c \in Commands, Command(c) PROVE Aging
    BY <1>1, <1>5, <2>3 DEF Command, Begin, Visit, Hear, Resolve, Created, Delete, Deleted, Finish
  <2> QED BY <1>3, <1>6, <2>1, <2>2, <2>3 DEF Next
<1> QED BY <1>1, <1>6 DEF vars

\* The connections of a client are those it had, but for what the server did with them.
Kept(c) ==
    \A l \in conns' : l.client = c /\ l.whole =>
        \E k \in conns : Key(k) = Key(l) /\ (l.awaited => k.awaited)

LEMMA KeptFacts ==
    ASSUME ConnInv, ConnInv', NEW c, Kept(c)
    PROVE  /\ \A l \in Sent(c)' : \E k \in Sent(c) : k.token = l.token /\ k.request = l.request
           /\ \A l \in Waits(c)' : \E k \in Waits(c) : Key(k) = Key(l) /\ k.token = l.token
                                                        /\ k.request = l.request
<1>1. \A l \in conns' : l.client = c /\ l.whole =>
        \E k \in conns : /\ Key(k) = Key(l) /\ (l.awaited => k.awaited)
                         /\ k.client = c /\ k.whole /\ k.token = l.token /\ k.request = l.request
  BY DEF Kept, Key
<1>2. \A l \in conns' : l.awaited => l.whole
  BY DEF ConnInv, Honest
<1> QED BY <1>1, <1>2 DEF Sent, Waits, Of

\* A command that does nothing stays as it was, whether it is answered or not.
LEMMA Stays ==
    ASSUME IInv, ConnInv', Aging, NEW c \in Commands, Same(c), Kept(c),
           \/ reply'[c] = reply[c]
           \/ /\ Waits(c) # {} /\ Waits(c)' = {}
              /\ pc[c] = "listing" /\ reply'[c].kind = "ok" =>
                   at[c] \notin stale[c] /\ reply'[c].forwards \in Tables
    PROVE  Ok(c)'
<1>1. Ok(c) /\ ConnInv /\ stale[c] \subseteq Sessions
  BY DEF IInv, CommandInv, Ok, CommandTypes
<1>2. Sends(c)'
  <2>1. \A l \in Sent(c)' : \E k \in Sent(c) : k.token = l.token /\ k.request = l.request
    BY <1>1, KeptFacts
  <2>2. \A l \in Sent(c)' :
          /\ l.request.op = "list" => pc[c] # "idle" /\ l.token \notin todo[c]
          /\ l.request.op = "delete" => <<l.token, l.request.id>> \in tried[c]
          /\ l.request.op = "create" => pc[c] \in {"creating", "done"}
    BY <1>1, <2>1 DEF Ok, Sends
  <2> QED BY <2>2 DEF Sends, Same
<1>3. Waits(c) # {} => pc[c] \in Waiting /\ reply[c] = NoReply
  BY <1>1 DEF Ok, Awaits
<1>4. Waits(c)' # {} => Waits(c) # {}
  BY <1>1, KeptFacts
<1>5. Awaits(c)'
  <2>1. \A k, l \in Waits(c)' : k = l
    <3> SUFFICES ASSUME NEW k \in Waits(c)', NEW l \in Waits(c)' PROVE k = l
      OBVIOUS
    <3>1. PICK m \in Waits(c) : Key(m) = Key(k)
      BY <1>1, KeptFacts
    <3>2. PICK n \in Waits(c) : Key(n) = Key(l)
      BY <1>1, KeptFacts
    <3>3. m = n
      BY <1>1 DEF Ok, Awaits
    <3>4. Key(k)' = Key(k) /\ Key(l)' = Key(l)
      BY DEF Key
    <3> QED BY <3>1, <3>2, <3>3, <3>4 DEF ConnInv, Waits, Of, Key
  <2>2. pc'[c] \notin Waiting => Waits(c)' = {} /\ reply'[c] = NoReply
    BY <1>1, <1>3, <1>4 DEF Ok, Awaits, Same
  <2>3. reply'[c] # NoReply => Waits(c)' = {}
    BY <1>1, <1>3, <1>4 DEF Ok, Awaits
  <2> QED BY <2>1, <2>2, <2>3 DEF Awaits
<1>6. Hears(c)'
  <2>1. pc[c] = "listing" => \A l \in Waits(c)' : l.request.op = "list" /\ l.token = at[c]
    BY <1>1, KeptFacts DEF Ok, Hears
  <2> QED BY <1>1, <2>1 DEF Ok, Hears, Same
<1>7. Prunes(c)'
  <2>1. \A s \in stale[c] : Looks(c, s)'
    BY <1>1 DEF Ok, Prunes, Looks, Same, Aging
  <2> QED BY <1>1, <2>1 DEF Ok, Prunes, Same
<1>8. Closes(c)'
  <2>1. ToDelete(c)' = ToDelete(c)
    BY DEF Same, ToDelete, Selected, Matches, All
  <2>2. All(found[c])' = All(found[c])
    BY DEF Same, All
  <2> QED BY <1>1, <2>1, <2>2 DEF Ok, Closes, Same
<1> QED BY <1>2, <1>5, <1>6, <1>7, <1>8 DEF Ok

\* Some connections end, and those who wait for them are told: what they hear as a list
\* is one of the session that they asked.
LEMMA EndsFor ==
    ASSUME IInv, ConnInv', Aging, NEW c \in Commands, Same(c), NEW E \in SUBSET conns, NEW a,
           conns' = conns \ E, reply' = Replied(E, a),
           a.kind = "ok" => \A k \in E :
             wrapper[k.token] # "killed" /\ (k.request.op = "list" => a.forwards \in Tables)
    PROVE  Ok(c)'
<1>1. c \in Clients /\ Ok(c)
  BY ManagementAssumption DEF IInv, CommandInv, Ok
<1>2. Kept(c)
  BY DEF Kept
<1>3. CASE \E k \in E : k.client = c /\ k.awaited
  <2>1. PICK k \in E : k.client = c /\ k.awaited
    BY <1>3
  <2>2. reply'[c] = a /\ k \in Waits(c)
    BY <1>1, <2>1 DEF Replied, Waits, Of
  <2>3. \A l \in Waits(c)' : l \in Waits(c) /\ l \notin E
    BY DEF Waits, Of
  <2>4. Waits(c)' = {}
    BY <1>1, <2>1, <2>2, <2>3 DEF Ok, Awaits
  <2>5. ASSUME pc[c] = "listing", a.kind = "ok"
        PROVE  at[c] \notin stale[c] /\ a.forwards \in Tables
    <3>1. k.request.op = "list" /\ k.token = at[c]
      BY <1>1, <2>2, <2>5 DEF Ok, Hears
    <3>2. wrapper[at[c]] # "killed"
      BY <2>1, <2>5, <3>1
    <3> QED BY <1>1, <2>1, <2>5, <3>1, <3>2 DEF Ok, Prunes, Looks
  <2> QED BY <1>2, <2>2, <2>4, <2>5, Stays
<1>4. CASE ~\E k \in E : k.client = c /\ k.awaited
  <2>1. reply'[c] = reply[c]
    BY <1>1, <1>4 DEF Replied
  <2> QED BY <1>2, <2>1, Stays
<1> QED BY <1>3, <1>4

LEMMA EndFor ==
    ASSUME IInv, ConnInv', Aging, NEW c \in Commands, Same(c), NEW k \in conns, NEW a,
           EndRequest(k, a),
           a.kind = "ok" =>
             wrapper[k.token] # "killed" /\ (k.request.op = "list" => a.forwards \in Tables)
    PROVE  Ok(c)'
BY EndsFor DEF EndRequest

LEMMA MoveFor ==
    ASSUME IInv, ConnInv', Aging, NEW c \in Commands, Same(c), NEW k \in conns, NEW p,
           conns' = (conns \ {k}) \cup {[k EXCEPT !.phase = p]}, UNCHANGED reply
    PROVE  Ok(c)'
<1>1. k \in Conn
  BY DEF IInv, ConnInv
<1>2. Key([k EXCEPT !.phase = p]) = Key(k) /\ [k EXCEPT !.phase = p].awaited = k.awaited
  BY <1>1 DEF Conn, Key
<1>3. Kept(c)
  BY <1>2 DEF Kept
<1> QED BY <1>3, Stays

\* No server of a killed wrapper has a request.
LEMMA NoneKilled == ASSUME IInv, NEW k \in conns PROVE k.server \in Sessions /\ wrapper[k.server] # "killed"
<1> DEFINE s == k.server
<1>1. s \in Sessions /\ ConnInv /\ Counted(s) /\ Lives(s) /\ k \in At(s)
  BY DEF IInv, ConnInv, Conn, ServerInv, At
<1>2. SUFFICES ASSUME wrapper[s] = "killed" PROVE FALSE
  BY <1>1
<1>3. acceptor[s] = "ended" /\ count[s] = 0 /\ ~listening[s]
  BY <1>1, <1>2 DEF Lives
<1>4. k.phase # "queued"
  BY <1>1, <1>3 DEF Lives, Queued, At
<1>5. k \in Busy(s) /\ IsFiniteSet(Busy(s))
  BY <1>1, <1>4, BusyFacts
<1>6. Cardinality(Busy(s)) # 0
  BY <1>5, FS_EmptySet
<1> QED BY <1>1, <1>3, <1>6 DEF Counted

LEMMA ServesFor ==
    ASSUME IInv, ConnInv', Aging, Serve, NEW c \in Commands
    PROVE  Ok(c)'
<1>1. UNCHANGED commandVars
  BY DEF Serve, Handle, HandleFails
<1>2. Same(c)
  BY <1>1 DEF commandVars, Same
<1>3. \A kind \in Kinds : Answer(kind).kind = kind
  BY Answers
<1>4. Answer("reset").kind # "ok" /\ Answer("busy").kind # "ok" /\ Answer("failed").kind # "ok"
  BY <1>3 DEF Kinds
<1>5. ASSUME NEW s \in Sessions, AcceptorStops(s) PROVE Ok(c)'
  <2>1. At(s) \cap Queued \in SUBSET conns
    BY DEF At
  <2> QED BY <1>2, <1>4, <1>5, <2>1, EndsFor DEF AcceptorStops, AcceptorEnds
<1>6. ASSUME NEW k \in conns, Accept(k) PROVE Ok(c)'
  <2>1. CASE count[k.server] < Limit
    BY <1>2, <1>6, <2>1, MoveFor DEF Accept
  <2>2. CASE ~(count[k.server] < Limit)
    <3>1. conns' = conns \ {k} /\ reply' = Replied({k}, Answer("busy"))
      BY <1>6, <2>2 DEF Accept
    <3>2. {k} \in SUBSET conns
      OBVIOUS
    <3> QED BY <1>2, <1>4, <3>1, <3>2, EndsFor
  <2> QED BY <2>1, <2>2
<1>7. ASSUME NEW k \in conns, ReadWhole(k) PROVE Ok(c)'
  BY <1>2, <1>7, MoveFor DEF ReadWhole
<1>8. ASSUME NEW k \in conns, ReadFails(k) \/ HandleFails(k) PROVE Ok(c)'
  BY <1>2, <1>4, <1>8, EndFor DEF ReadFails, HandleFails
<1>9. ASSUME NEW k \in conns, Handle(k) PROVE Ok(c)'
  <2>1. k \in Running /\ WrapperTypes /\ ConnInv /\ ServerInv
    BY <1>9 DEF Handle, IInv
  <2>2. PICK e \in Effects(k) : EndRequest(k, e[2])
    BY <1>9 DEF Handle
  <2>3. /\ e[2].kind = "ok" => k.token = k.server
        /\ e[2].kind = "ok" /\ k.request.op = "list" => e[2].forwards \in Tables
    BY <2>1, EffectFacts
  <2>4. wrapper[k.server] # "killed"
    BY NoneKilled
  <2> QED BY <1>2, <2>2, <2>3, <2>4, EndFor
<1> QED BY <1>5, <1>6, <1>7, <1>8, <1>9 DEF Serve, ServerSteps

LEMMA EnvironmentFor ==
    ASSUME IInv, ConnInv', Aging, NEW c \in Commands,
           Environment \/ \E s \in Sessions : Join(s) \/ Exit(s)
    PROVE  Ok(c)'
<1>1. UNCHANGED commandVars
  BY DEF Environment, Start, Stop, Kill, ServerFails, TakeId, OthersChange, Recovered, Stall,
         NoAnswer, Join, Exit
<1>2. Same(c) /\ c \in Clients
  BY <1>1, ManagementAssumption DEF commandVars, Same
<1>3. Answer("reset").kind # "ok" /\ Answer("late").kind # "ok"
  BY Answers DEF Kinds
<1>4. ASSUME UNCHANGED <<conns, reply>> PROVE Ok(c)'
  <2>1. Kept(c)
    BY <1>4 DEF Kept
  <2> QED BY <1>2, <1>4, <2>1, Stays
<1>5. ASSUME NEW s \in Sessions, ServerFails(s) PROVE Ok(c)'
  <2>1. At(s) \cap Queued \in SUBSET conns
    BY DEF At
  <2> QED BY <1>2, <1>3, <1>5, <2>1, EndsFor DEF ServerFails, AcceptorFails, AcceptorEnds
<1>6. ASSUME NEW s \in Sessions, Kill(s) PROVE Ok(c)'
  <2>1. At(s) \in SUBSET conns
    BY DEF At
  <2> QED BY <1>2, <1>3, <1>6, <2>1, EndsFor DEF Kill, Crash
<1>7. ASSUME NEW z \in Stallers, NEW s \in Sessions, Stall(z, s) PROVE Ok(c)'
  <2>1. Kept(c)
    BY <1>7 DEF Stall, Connect, Kept
  <2> QED BY <1>2, <1>7, <2>1, Stays DEF Stall, Connect
<1>8. ASSUME NEW d \in Commands, NEW k \in conns, k.client = d, Abandon(k) PROVE Ok(c)'
  <2> DEFINE l == [k EXCEPT !.awaited = FALSE]
  <2>1. k \in Conn /\ ConnInv /\ ServerTypes /\ Ok(c)
    BY DEF IInv, ConnInv, CommandInv, Ok
  <2>2. Key(l) = Key(k) /\ ~l.awaited /\ conns' = (conns \ {k}) \cup {l} /\ k.awaited
    BY <1>8, <2>1 DEF Key, Conn, Abandon
  <2>3. reply' = [reply EXCEPT ![d] = Answer("late")]
    BY <1>8 DEF Abandon
  <2> HIDE DEF l
  <2>4. Kept(c)
    BY <2>2 DEF Kept
  <2>5. CASE c # d
    BY <1>2, <2>1, <2>3, <2>4, <2>5, Stays DEF ServerTypes
  <2>6. CASE c = d
    <3>1. k \in Waits(c)
      BY <1>8, <2>2, <2>6 DEF Waits, Of
    <3>2. \A m \in Waits(c)' : m \in Waits(c) /\ m # k
      BY <2>2 DEF Waits, Of
    <3>3. Waits(c)' = {}
      BY <2>1, <3>1, <3>2 DEF Ok, Awaits
    <3>4. reply'[c] = Answer("late")
      BY <1>2, <2>1, <2>3, <2>6 DEF ServerTypes
    <3> QED BY <1>2, <1>3, <2>4, <3>1, <3>3, <3>4, Stays
  <2> QED BY <2>5, <2>6
<1>9. ASSUME NEW s \in Sessions,
             Start(s) \/ Stop(s) \/ TakeId(s) \/ OthersChange(s) \/ Recovered(s) \/ Join(s) \/ Exit(s)
      PROVE  Ok(c)'
  BY <1>4, <1>9 DEF Start, Stop, TakeId, OthersChange, Recovered, TellToStop, Join, Exit, serverVars
<1>10. ASSUME NEW d \in Commands, NoAnswer(d) PROVE Ok(c)'
  BY <1>8, <1>10 DEF NoAnswer
<1> QED BY <1>5, <1>6, <1>7, <1>9, <1>10 DEF Environment

\* What a command does is nothing to the others.
LEMMA Aside ==
    ASSUME IInv, ConnInv', Aging, NEW c \in Commands, NEW d \in Commands \ {c}, Command(c)
    PROVE  Ok(d)'
<1> DEFINE Unheard == /\ \A l \in conns' : l \in conns \/ l.client = c
                      /\ reply'[d] = reply[d]
<1>1. CommandTypes /\ ServerTypes /\ c \in Clients /\ d \in Clients
  BY ManagementAssumption DEF IInv
<1>2. ASSUME UNCHANGED <<conns, reply>> PROVE Unheard
  BY <1>2
<1>3. ASSUME NEW s, NEW r, Request(c, s, r) PROVE Unheard
  BY <1>3 DEF Request, Connect
<1>4. ASSUME Forget(c), UNCHANGED conns PROVE Unheard
  BY <1>1, <1>4 DEF Forget, ServerTypes
<1>5. CASE Begin(c)
  <2>1. Same(d) /\ Unheard
    BY <1>1, <1>2, <1>5 DEF Begin, Goto, Same, CommandTypes, serverVars
  <2> QED BY <2>1, Stays DEF Kept
<1>6. CASE Hear(c)
  <2>1. Same(d) /\ Unheard
    BY <1>1, <1>4, <1>6 DEF Hear, Same, CommandTypes, unread
  <2> QED BY <2>1, Stays DEF Kept
<1>7. CASE Check(c) \/ Finish(c)
  <2>1. Same(d) /\ Unheard
    BY <1>1, <1>2, <1>7 DEF Check, Finish, Goto, Same, CommandTypes, serverVars
  <2> QED BY <2>1, Stays DEF Kept
<1>8. CASE Created(c) \/ Deleted(c)
  <2>1. Same(d) /\ Unheard
    BY <1>1, <1>4, <1>8 DEF Created, Deleted, Same, CommandTypes, unread
  <2> QED BY <2>1, Stays DEF Kept
<1>9. CASE Resolve(c)
  <2>1. Same(d)
    BY <1>1, <1>9 DEF Resolve, Same, CommandTypes
  <2>2. Unheard
    BY <1>2, <1>3, <1>9 DEF Resolve
  <2> QED BY <2>1, <2>2, Stays DEF Kept
<1>10. ASSUME NEW s \in Sessions, Visit(c, s) PROVE Ok(d)'
  <2>1. Same(d)
    BY <1>1, <1>10 DEF Visit, Same, CommandTypes
  <2>2. Unheard
    BY <1>2, <1>3, <1>10 DEF Visit
  <2> QED BY <2>1, <2>2, Stays DEF Kept
<1>11. ASSUME NEW m \in left[c], Delete(c, m) PROVE Ok(d)'
  <2>1. Same(d)
    BY <1>1, <1>11 DEF Delete, Same, CommandTypes
  <2>2. Unheard
    BY <1>2, <1>3, <1>11 DEF Delete
  <2> QED BY <2>1, <2>2, Stays DEF Kept
<1> QED BY <1>5, <1>6, <1>7, <1>8, <1>9, <1>10, <1>11 DEF Command

\* What a command had heard of does not change while it acts.
LEMMA SameToDelete ==
    ASSUME NEW c, found'[c] = found[c], command' = command
    PROVE  ToDelete(c)' = ToDelete(c) /\ All(found[c])' = All(found[c])
BY DEF ToDelete, Selected, Matches, All

LEMMA BeginFor == ASSUME IInv, NEW c \in Commands, Begin(c) PROVE Ok(c)'
<1>1. Ok(c) /\ CommandTypes /\ ConnInv
  BY DEF IInv, CommandInv, Ok
<1>2. /\ pc[c] = "idle" /\ pc'[c] = "scanning" /\ todo'[c] = {s \in Sessions : file[s]}
      /\ stale'[c] = {s \in Sessions : file[s] /\ wrapper[s] = "killed"}
      /\ UNCHANGED <<serverVars, wrapperVars, command, at, found, left, errors, tried>>
  BY <1>1 DEF Begin, Goto, CommandTypes
<1>3. Sent(c)' = Sent(c) /\ Waits(c)' = Waits(c)
  BY <1>2 DEF Sent, Waits, Of, serverVars
<1>4. Sent(c) = {}
  BY <1>1, <1>2 DEF Ok, Sends, Closes, Sent, Of, ConnInv, Conn, Requests, Honest
<1>5. Sends(c)'
  BY <1>3, <1>4 DEF Sends
<1>6. Awaits(c)' /\ Hears(c)'
  BY <1>1, <1>2, <1>3 DEF Ok, Awaits, Hears, Waiting, serverVars
<1>7. Prunes(c)'
  BY <1>2 DEF Prunes, Looks, Looking, wrapperVars
<1>8. Closes(c)'
  BY <1>1, <1>2 DEF Ok, Closes, Looking
<1> QED BY <1>5, <1>6, <1>7, <1>8 DEF Ok

LEMMA HearFor == ASSUME IInv, NEW c \in Commands, Hear(c) PROVE Ok(c)'
<1>1. Ok(c) /\ CommandTypes /\ ServerTypes /\ c \in Clients
  BY ManagementAssumption DEF IInv, CommandInv, Ok
<1>2. /\ pc[c] = "listing" /\ reply[c] # NoReply /\ reply'[c] = NoReply
      /\ UNCHANGED <<conns, wrapperVars, command, todo, at, left, stale, tried>>
  BY <1>1 DEF Hear, Answered, Forget, ServerTypes, unread
<1>3. \/ reply[c].kind = "ok" /\ pc'[c] = "scanning"
      \/ reply[c].kind # "ok" /\ pc'[c] = "checking"
  BY <1>1 DEF Hear, Reachable, CommandTypes
<1>4. Waits(c) = {} /\ Waits(c)' = {} /\ Sent(c)' = Sent(c)
  BY <1>1, <1>2 DEF Ok, Awaits, Waits, Sent, Of
<1>5. Sends(c)'
  BY <1>1, <1>2, <1>3, <1>4 DEF Ok, Sends
<1>6. Awaits(c)' /\ Hears(c)'
  BY <1>1, <1>2, <1>3, <1>4 DEF Ok, Awaits, Hears, Waiting
<1>7. Prunes(c)'
  BY <1>1, <1>2, <1>3 DEF Ok, Prunes, Hears, Looks, Looking, wrapperVars
<1>8. Closes(c)'
  BY <1>1, <1>2, <1>3 DEF Ok, Closes, Looking
<1> QED BY <1>5, <1>6, <1>7, <1>8 DEF Ok

LEMMA CheckFor == ASSUME IInv, NEW c \in Commands, Check(c) PROVE Ok(c)'
<1>1. Ok(c) /\ CommandTypes /\ WrapperTypes
  BY DEF IInv, CommandInv, Ok
<1>2. /\ pc[c] = "checking" /\ pc'[c] = "scanning"
      /\ UNCHANGED <<serverVars, wrapper, taken, command, todo, at, found, left, stale, tried>>
  BY <1>1 DEF Check, Goto, CommandTypes
<1>3. Sent(c)' = Sent(c) /\ Waits(c)' = Waits(c)
  BY <1>2 DEF Sent, Waits, Of, serverVars
<1>4. Sends(c)' /\ Awaits(c)' /\ Hears(c)'
  BY <1>1, <1>2, <1>3 DEF Ok, Sends, Awaits, Hears, Waiting, serverVars
<1>5. \A s \in Sessions :
        /\ file'[s] => file[s]
        /\ s = at[c] /\ wrapper[s] = "killed" /\ s \notin taken => ~file'[s]
  BY <1>1 DEF Check, WrapperTypes, IsDead, Alive
<1>6. Prunes(c)'
  BY <1>1, <1>2, <1>5 DEF Ok, Prunes, Looks, Looking, CommandTypes
<1>7. Closes(c)'
  <2>1. ToDelete(c)' = ToDelete(c) /\ All(found[c])' = All(found[c])
    BY <1>2, SameToDelete
  <2> QED BY <1>1, <1>2, <2>1 DEF Ok, Closes, Looking
<1> QED BY <1>4, <1>6, <1>7 DEF Ok

LEMMA AnsweredFor == ASSUME IInv, NEW c \in Commands, Created(c) \/ Deleted(c) PROVE Ok(c)'
<1>1. Ok(c) /\ CommandTypes /\ ServerTypes /\ c \in Clients
  BY ManagementAssumption DEF IInv, CommandInv, Ok
<1>2. /\ \/ pc[c] = "creating" /\ pc'[c] = "done"
         \/ pc[c] = "deleting" /\ pc'[c] = "acting"
      /\ reply[c] # NoReply /\ reply'[c] = NoReply
      /\ UNCHANGED <<conns, wrapperVars, command, todo, at, found, left, stale, tried>>
  BY <1>1 DEF Created, Deleted, Answered, AfterError, Forget, CommandTypes, ServerTypes, unread
<1>3. Waits(c) = {} /\ Waits(c)' = {} /\ Sent(c)' = Sent(c)
  BY <1>1, <1>2 DEF Ok, Awaits, Waits, Sent, Of
<1>4. Sends(c)'
  BY <1>1, <1>2, <1>3 DEF Ok, Sends
<1>5. Awaits(c)' /\ Hears(c)'
  BY <1>1, <1>2, <1>3 DEF Ok, Awaits, Hears, Waiting
<1>6. Prunes(c)'
  BY <1>1, <1>2 DEF Ok, Prunes, Looks, Looking, wrapperVars
<1>7. Closes(c)'
  <2>1. ToDelete(c)' = ToDelete(c) /\ All(found[c])' = All(found[c])
    BY <1>2, SameToDelete
  <2> QED BY <1>1, <1>2, <2>1 DEF Ok, Closes, Looking
<1> QED BY <1>4, <1>5, <1>6, <1>7 DEF Ok

LEMMA FinishFor == ASSUME IInv, NEW c \in Commands, Finish(c) PROVE Ok(c)'
<1>1. Ok(c) /\ CommandTypes
  BY DEF IInv, CommandInv, Ok
<1>2. /\ pc[c] = "acting" /\ pc'[c] = "done" /\ left[c] = {}
      /\ UNCHANGED <<serverVars, wrapperVars, command, todo, at, found, left, stale, tried>>
  BY <1>1 DEF Finish, CommandTypes
<1>3. Sent(c)' = Sent(c) /\ Waits(c)' = Waits(c)
  BY <1>2 DEF Sent, Waits, Of, serverVars
<1>4. Sends(c)' /\ Awaits(c)' /\ Hears(c)'
  BY <1>1, <1>2, <1>3 DEF Ok, Sends, Awaits, Hears, Waiting, serverVars
<1>5. Prunes(c)'
  BY <1>1, <1>2 DEF Ok, Prunes, Looks, Looking, wrapperVars
<1>6. Closes(c)'
  <2>1. ToDelete(c)' = ToDelete(c) /\ All(found[c])' = All(found[c])
    BY <1>2, SameToDelete
  <2>2. tried[c] = ToDelete(c)
    BY <1>1, <1>2 DEF Ok, Closes
  <2>3. command[c].op = "close all" => ToDelete(c) = All(found[c])
    BY <1>1, ToDeleteFacts DEF CommandTypes
  <2> QED BY <1>2, <2>1, <2>2, <2>3 DEF Closes, Looking
<1> QED BY <1>4, <1>5, <1>6 DEF Ok

\* A request is added to those of the command that makes it.
LEMMA Asked ==
    ASSUME NEW c, NEW s, NEW r, Request(c, s, r)
    PROVE  \E l : /\ l.token = s /\ l.request = r
                  /\ Sent(c)' = Sent(c) \cup {l} /\ Waits(c)' = Waits(c) \cup {l}
                  /\ UNCHANGED reply
<1>1. PICK t \in ListensAt(s) : Connect(c, t, s, r, TRUE)
  BY DEF Request
<1> DEFINE l == [client |-> c, server |-> t, token |-> s, request |-> r,
                 whole |-> TRUE, awaited |-> TRUE, phase |-> "queued"]
<1>2. conns' = conns \cup {l} /\ UNCHANGED reply
  BY <1>1 DEF Connect
<1>3. l.token = s /\ l.request = r /\ l.client = c /\ l.whole /\ l.awaited
  OBVIOUS
<1> HIDE DEF l
<1>4. \A k : (k \in Sent(c)' <=> k \in Sent(c) \/ k = l) /\ (k \in Waits(c)' <=> k \in Waits(c) \/ k = l)
  BY <1>2, <1>3 DEF Sent, Waits, Of
<1>5. Sent(c)' = Sent(c) \cup {l}
  BY <1>4
<1>6. Waits(c)' = Waits(c) \cup {l}
  BY <1>4
<1> QED BY <1>2, <1>3, <1>5, <1>6

LEMMA VisitFor == ASSUME IInv, NEW c \in Commands, NEW s \in Sessions, Visit(c, s) PROVE Ok(c)'
<1>1. Ok(c) /\ CommandTypes /\ WrapperTypes /\ stale[c] \subseteq Sessions
  BY DEF IInv, CommandInv, Ok, CommandTypes
<1>2. /\ pc[c] = "scanning" /\ s \in todo[c] /\ todo'[c] = todo[c] \ {s}
      /\ UNCHANGED <<wrapperVars, command, found, left, stale, tried>>
  BY <1>1 DEF Visit, CommandTypes
<1>3. Waits(c) = {} /\ reply[c] = NoReply
  BY <1>1, <1>2 DEF Ok, Awaits, Waiting
<1>4. pc'[c] \in {"scanning", "checking", "listing"} => Closes(c)'
  <2>1. ToDelete(c)' = ToDelete(c) /\ All(found[c])' = All(found[c])
    BY <1>2, SameToDelete
  <2> QED BY <1>1, <1>2, <2>1 DEF Ok, Closes, Looking
<1>5. CASE ~file[s]
  <2>1. UNCHANGED <<pc, at, conns, reply>>
    BY <1>5 DEF Visit
  <2>2. Sent(c)' = Sent(c) /\ Waits(c)' = Waits(c)
    BY <2>1 DEF Sent, Waits, Of
  <2>3. Sends(c)' /\ Awaits(c)' /\ Hears(c)'
    BY <1>1, <1>2, <2>1, <2>2 DEF Ok, Sends, Awaits, Hears
  <2>4. Prunes(c)'
    BY <1>1, <1>2, <1>5, <2>1 DEF Ok, Prunes, Looks, wrapperVars
  <2> QED BY <1>2, <1>4, <2>1, <2>3, <2>4 DEF Ok
<1>6. CASE file[s]
  <2>1. /\ at'[c] = s
        /\ \/ pc'[c] = "checking" /\ UNCHANGED <<conns, reply>>
           \/ pc'[c] = "listing" /\ Request(c, s, [op |-> "list", id |-> 0])
    BY <1>1, <1>6 DEF Visit, CommandTypes
  <2>2. Prunes(c)' /\ Closes(c)'
    BY <1>1, <1>2, <1>4, <2>1 DEF Ok, Prunes, Looks, Looking, wrapperVars
  <2>3. CASE pc'[c] = "checking" /\ UNCHANGED <<conns, reply>>
    <3>1. Sent(c)' = Sent(c) /\ Waits(c)' = Waits(c)
      BY <2>3 DEF Sent, Waits, Of
    <3>2. Sends(c)' /\ Awaits(c)' /\ Hears(c)'
      BY <1>1, <1>2, <1>3, <2>1, <2>3, <3>1 DEF Ok, Sends, Awaits, Hears
    <3> QED BY <2>2, <3>2 DEF Ok
  <2>4. CASE pc'[c] = "listing" /\ Request(c, s, [op |-> "list", id |-> 0])
    <3>1. PICK l : /\ l.token = s /\ l.request = [op |-> "list", id |-> 0]
                   /\ Sent(c)' = Sent(c) \cup {l} /\ Waits(c)' = Waits(c) \cup {l}
                   /\ UNCHANGED reply
      BY <2>4, Asked
    <3>2. l.request.op = "list"
      BY <3>1
    <3>3. Sends(c)'
      BY <1>1, <1>2, <2>4, <3>1, <3>2 DEF Ok, Sends
    <3>4. Awaits(c)'
      BY <1>3, <2>4, <3>1 DEF Awaits, Waiting
    <3>5. Hears(c)'
      BY <1>3, <2>1, <2>4, <3>1, <3>2, NoReplyFacts DEF Hears
    <3> QED BY <2>2, <3>3, <3>4, <3>5 DEF Ok
  <2> QED BY <2>1, <2>3, <2>4
<1> QED BY <1>5, <1>6, <1>1 DEF WrapperTypes

LEMMA ResolveFor == ASSUME IInv, NEW c \in Commands, Resolve(c) PROVE Ok(c)'
<1>1. Ok(c) /\ CommandTypes /\ found[c] \in Founds
  BY DEF IInv, CommandInv, Ok, CommandTypes
<1>2. /\ pc[c] = "scanning" /\ todo[c] = {} /\ left'[c] = ToDelete(c)
      /\ UNCHANGED <<wrapperVars, command, todo, found, stale, tried>>
  BY <1>1 DEF Resolve, CommandTypes
<1>3. Waits(c) = {} /\ reply[c] = NoReply /\ tried[c] = {}
  BY <1>1, <1>2 DEF Ok, Awaits, Waiting, Closes, Looking
<1>4. \/ pc'[c] = "acting" /\ UNCHANGED <<conns, reply>>
      \/ /\ pc'[c] = "done" /\ UNCHANGED <<conns, reply>>
         /\ command[c].op \notin {"close", "close all"}
      \/ /\ pc'[c] = "creating" /\ command[c].op = "forward"
         /\ \E s \in ForHost(c) : Request(c, s, [op |-> "create", id |-> 11])
  BY <1>1 DEF Resolve, CommandTypes
<1>5. Prunes(c)'
  BY <1>1, <1>2, <1>4 DEF Ok, Prunes, Looks, Looking, wrapperVars
<1>6. Closes(c)'
  <2>1. ToDelete(c)' = ToDelete(c) /\ All(found[c])' = All(found[c])
    BY <1>2, SameToDelete
  <2>2. command[c].op \notin {"close", "close all"} => ToDelete(c) = {}
    BY <1>1, ToDeleteFacts
  <2> QED BY <1>2, <1>3, <1>4, <2>1, <2>2 DEF Closes, Looking
<1>7. CASE pc'[c] \in {"acting", "done"} /\ UNCHANGED <<conns, reply>>
  <2>1. Sent(c)' = Sent(c) /\ Waits(c)' = Waits(c)
    BY <1>7 DEF Sent, Waits, Of
  <2>2. Sends(c)' /\ Awaits(c)' /\ Hears(c)'
    BY <1>1, <1>2, <1>3, <1>7, <2>1 DEF Ok, Sends, Awaits, Hears
  <2> QED BY <1>5, <1>6, <2>2 DEF Ok
<1>8. CASE /\ pc'[c] = "creating"
           /\ \E s \in ForHost(c) : Request(c, s, [op |-> "create", id |-> 11])
  <2>1. PICK s \in ForHost(c) : Request(c, s, [op |-> "create", id |-> 11])
    BY <1>8
  <2>2. PICK l : /\ l.token = s /\ l.request = [op |-> "create", id |-> 11]
                 /\ Sent(c)' = Sent(c) \cup {l} /\ Waits(c)' = Waits(c) \cup {l}
                 /\ UNCHANGED reply
    BY <2>1, Asked
  <2>3. l.request.op = "create"
    BY <2>2
  <2>4. Sends(c)'
    BY <1>1, <1>2, <1>8, <2>2, <2>3 DEF Ok, Sends
  <2>5. Awaits(c)' /\ Hears(c)'
    BY <1>3, <1>8, <2>2 DEF Awaits, Waiting, Hears
  <2> QED BY <1>5, <1>6, <2>4, <2>5 DEF Ok
<1> QED BY <1>4, <1>7, <1>8

LEMMA DeleteFor == ASSUME IInv, NEW c \in Commands, NEW m \in left[c], Delete(c, m) PROVE Ok(c)'
<1>1. Ok(c) /\ CommandTypes /\ m \in Sessions \X Nat
  BY DEF IInv, CommandInv, Ok, CommandTypes
<1>2. /\ pc[c] = "acting" /\ left'[c] = left[c] \ {m} /\ tried'[c] = tried[c] \cup {m}
      /\ UNCHANGED <<wrapperVars, command, todo, found, stale>>
  BY <1>1 DEF Delete, CommandTypes
<1>3. Waits(c) = {} /\ reply[c] = NoReply
  BY <1>1, <1>2 DEF Ok, Awaits, Waiting
<1>4. \/ pc'[c] = "acting" /\ UNCHANGED <<conns, reply>>
      \/ pc'[c] = "deleting" /\ Request(c, m[1], [op |-> "delete", id |-> m[2]])
  BY <1>1, <1>2 DEF Delete, CommandTypes
<1>5. Prunes(c)'
  BY <1>1, <1>2, <1>4 DEF Ok, Prunes, Looks, Looking, wrapperVars
<1>6. Closes(c)'
  <2>1. ToDelete(c)' = ToDelete(c) /\ All(found[c])' = All(found[c])
    BY <1>2, SameToDelete
  <2>2. left'[c] \cup tried'[c] = left[c] \cup tried[c] /\ left'[c] \cap tried'[c] = {}
    BY <1>1, <1>2 DEF Ok, Closes
  <2> QED BY <1>1, <1>2, <1>4, <2>1, <2>2 DEF Ok, Closes, Looking
<1>7. CASE pc'[c] = "acting" /\ UNCHANGED <<conns, reply>>
  <2>1. Sent(c)' = Sent(c) /\ Waits(c)' = Waits(c)
    BY <1>7 DEF Sent, Waits, Of
  <2>2. Sends(c)' /\ Awaits(c)' /\ Hears(c)'
    BY <1>1, <1>2, <1>3, <1>7, <2>1 DEF Ok, Sends, Awaits, Hears
  <2> QED BY <1>5, <1>6, <2>2 DEF Ok
<1>8. CASE pc'[c] = "deleting" /\ Request(c, m[1], [op |-> "delete", id |-> m[2]])
  <2>1. PICK l : /\ l.token = m[1] /\ l.request = [op |-> "delete", id |-> m[2]]
                 /\ Sent(c)' = Sent(c) \cup {l} /\ Waits(c)' = Waits(c) \cup {l}
                 /\ UNCHANGED reply
    BY <1>8, Asked
  <2>2. l.request.op = "delete" /\ <<l.token, l.request.id>> = m
    BY <1>1, <2>1
  <2>3. Sends(c)'
    BY <1>1, <1>2, <1>8, <2>1, <2>2 DEF Ok, Sends
  <2>4. Awaits(c)' /\ Hears(c)'
    BY <1>3, <1>8, <2>1 DEF Awaits, Waiting, Hears
  <2> QED BY <1>5, <1>6, <2>3, <2>4 DEF Ok
<1> QED BY <1>4, <1>7, <1>8

LEMMA CommandStep == ASSUME IInv, [Next]_vars PROVE CommandInv'
<1>1. ConnInv' /\ Aging
  BY ConnStep, AgingStep DEF IInv
<1>2. ASSUME NEW c \in Commands PROVE Ok(c)'
  <2>1. CASE Serve
    BY <1>1, <2>1, ServesFor
  <2>2. CASE Environment \/ \E s \in Sessions : Join(s) \/ Exit(s)
    BY <1>1, <2>2, EnvironmentFor
  <2>3. ASSUME NEW d \in Commands \ {c}, Command(d) PROVE Ok(c)'
    BY <1>1, <2>3, Aside
  <2>4. CASE Command(c)
    BY <2>4, BeginFor, HearFor, CheckFor, ResolveFor, AnsweredFor, FinishFor, VisitFor, DeleteFor
       DEF Command
  <2>5. CASE UNCHANGED vars
    <3>1. Same(c) /\ Kept(c) /\ UNCHANGED reply
      BY <2>5 DEF vars, commandVars, serverVars, Same, Kept
    <3> QED BY <1>1, <3>1, Stays
  <2> QED BY <2>1, <2>2, <2>3, <2>4, <2>5 DEF Next
<1> QED BY <1>2 DEF Ok, CommandInv

-----------------------------------------------------------------------------
(* The theorems.                                                           *)

\* IInv holds of every behaviour, whatever fails, ends or is taken meanwhile.
THEOREM Invariance == Spec => []IInv
<1>1. IInv /\ [Next]_vars => IInv'
  BY WrapperTypesStep, ServerTypesStep, CommandTypesStep, ConnStep, CountedStep, LivesStep,
     FilesStep, CommandStep DEF IInv, ServerInv
<1> QED BY <1>1, InitIInv, PTL DEF Spec

LEMMA Joined == ASSUME IInv PROVE NothingAfterJoin
<1> SUFFICES ASSUME NEW s \in Sessions, wrapper[s] \in {"joined", "exited"}, NEW k \in At(s)
             PROVE  FALSE
  BY DEF NothingAfterJoin
<1>1. ConnInv /\ Counted(s) /\ Lives(s) /\ k \in conns /\ k.server = s
  BY DEF IInv, ServerInv, At
<1>2. acceptor[s] = "ended" /\ count[s] = 0 /\ ~listening[s]
  BY <1>1 DEF Lives
<1>3. k.phase # "queued"
  BY <1>1, <1>2 DEF Lives, Queued, At
<1>4. k \in Busy(s) /\ IsFiniteSet(Busy(s))
  BY <1>1, <1>3, BusyFacts
<1>5. Cardinality(Busy(s)) # 0
  BY <1>4, FS_EmptySet
<1> QED BY <1>1, <1>2, <1>5 DEF Counted

LEMMA Typed == ASSUME IInv PROVE TypeOK
<1>1. WrapperTypes /\ ServerTypes /\ CommandTypes /\ ServerInv
  BY DEF IInv
<1>2. \A s \in Sessions : count[s] = Cardinality(At(s) \ Queued) /\ count[s] \in 0..Limit
  <2> SUFFICES ASSUME NEW s \in Sessions
               PROVE  count[s] = Cardinality(At(s) \ Queued) /\ count[s] \in 0..Limit
    OBVIOUS
  <2>1. Counted(s)
    BY <1>1 DEF ServerInv
  <2>2. count[s] \in Nat
    BY <1>1 DEF ServerTypes
  <2> QED BY <2>1, <2>2, ServerAssumption DEF Counted, Busy
<1>3. count \in [Sessions -> 0..Limit]
  BY <1>1, <1>2 DEF ServerTypes
<1>4. \A c \in Commands : DOMAIN found[c] \subseteq Sessions /\ errors[c] \in Nat
  BY <1>1, FoundFacts DEF CommandTypes
<1>5. pc \in [Commands -> {"idle", "scanning", "listing", "checking", "acting",
                            "deleting", "creating", "done"}]
  BY <1>1 DEF CommandTypes, Positions, Waiting, Looking
<1> QED BY <1>1, <1>2, <1>3, <1>4, <1>5 DEF TypeOK, WrapperTypes, Phases, ServerTypes, ServerInv, Files

\* A server counts exactly the requests that have a thread, never more than the limit, and has
\* none left once its wrapper has joined it, with any number of clients.
THEOREM Server == Spec => []ServerIsSound
<1>1. IInv => ServerIsSound
  BY Typed, Joined DEF ServerIsSound
<1> QED BY <1>1, Invariance, PTL

LEMMA KeepsTheLiving ==
    ASSUME IInv, Next, NEW s \in Sessions, NEW c \in Commands,
           pc[c] = "checking", pc'[c] # pc[c], file[s], ~file'[s]
    PROVE  wrapper[s] \in {"killed", "exited"}
<1>1. WrapperTypes /\ CommandTypes /\ Files(s)
  BY DEF IInv, ServerInv
<1>2. pc' # pc
  OBVIOUS
<1>3. PICK d \in Commands : Command(d)
  BY <1>2 DEF Next, Serve, Environment, Handle, HandleFails, Start, Stop, Kill, ServerFails, TakeId,
     OthersChange, Recovered, Stall, NoAnswer, Join, Exit, commandVars
<1>4. file' # file
  OBVIOUS
<1>5. Check(d)
  BY <1>3, <1>4 DEF Command, Begin, Visit, Hear, Resolve, Created, Delete, Deleted, Finish, wrapperVars
<1>6. s = at[d] /\ IsDead(s)
  BY <1>1, <1>5 DEF Check, WrapperTypes
<1> QED BY <1>1, <1>6 DEF IsDead, Alive, WrapperTypes, Phases, Files

\* Commands remove the state files of the dead, all of them but those whose process id another
\* process has, and no file of a wrapper that lives, for any number of sessions and commands.
THEOREM Pruning == Spec => PruneIsExact
<1> DEFINE Keeps == \A s \in Sessions : \A c \in Commands :
              pc[c] = "checking" /\ pc'[c] # pc[c] /\ file[s] /\ ~file'[s] =>
                wrapper[s] \in {"killed", "exited"}
<1>1. IInv => DeadFilesGo
  BY DEF IInv, CommandInv, Prunes, Looks, Looking, DeadFilesGo, CommandTypes
<1>2. IInv /\ [Next]_vars => [Keeps]_vars
  BY KeepsTheLiving
<1> QED BY <1>1, <1>2, Invariance, PTL DEF Spec, PruneIsExact, LiveFileKept

\* The only step that ends a request and changes the forwards is that of its handler.
LEMMA ByItsHandler ==
    ASSUME IInv, Next, NEW k \in Running, wrapper' = wrapper, conns' = conns \ {k},
           forwards'[k.server] # forwards[k.server]
    PROVE  Handle(k)
<1>1. WrapperTypes /\ k \in conns
  BY DEF IInv, Running
<1>2. forwards' # forwards /\ conns' # conns
  BY <1>1
<1>3. \A m \in conns : Handle(m) => m = k
  BY <1>1 DEF Handle, EndRequest
<1>4. \A s \in Sessions : ~Join(s) /\ ~Kill(s) /\ ~OthersChange(s)
  BY <1>1, <1>2 DEF Join, Kill, Alive, OthersChange, WrapperTypes, serverVars
<1>5. \A s \in Sessions : ~Start(s) /\ ~Stop(s) /\ ~ServerFails(s) /\ ~TakeId(s) /\ ~Recovered(s) /\ ~Exit(s)
  BY <1>2 DEF Start, Stop, ServerFails, TakeId, Recovered, Exit, wrapperVars
<1>6. /\ \A z \in Stallers, s \in Sessions : ~Stall(z, s)
      /\ \A c \in Commands : ~NoAnswer(c)
      /\ \A m \in conns : ~HandleFails(m)
      /\ ~(ServerSteps /\ UNCHANGED <<wrapperVars, commandVars, faults>>)
  BY <1>2 DEF Stall, NoAnswer, HandleFails, wrapperVars
<1>7. ASSUME NEW c \in Commands PROVE ~Command(c)
  <2>1. ~Begin(c) /\ ~Hear(c) /\ ~Check(c) /\ ~Resolve(c)
    BY <1>2 DEF Begin, Hear, Check, Resolve, wrapperVars
  <2>2. ~Created(c) /\ ~Deleted(c) /\ ~Finish(c)
    BY <1>2 DEF Created, Deleted, Finish, wrapperVars
  <2>3. \A s \in Sessions : ~Visit(c, s)
    BY <1>2 DEF Visit, wrapperVars
  <2>4. \A m \in left[c] : ~Delete(c, m)
    BY <1>2 DEF Delete, wrapperVars
  <2> QED BY <2>1, <2>2, <2>3, <2>4 DEF Command
<1> QED BY <1>3, <1>4, <1>5, <1>6, <1>7 DEF Next, Serve, Environment

LEMMA ClosesWhatWasAsked ==
    ASSUME IInv, Next, NEW k \in Running, wrapper' = wrapper, conns' = conns \ {k},
           k.client \in Commands, k.request.op = "delete",
           forwards'[k.server] # forwards[k.server]
    PROVE  /\ <<k.server, k.request.id>> \in All(found[k.client])
           /\ k.token = k.server
           /\ command[k.client].op = "close" =>
                Matches(found[k.client], command[k.client].name) = {<<k.server, k.request.id>>}
<1> DEFINE c == k.client
           m == <<k.server, k.request.id>>
<1>1. WrapperTypes /\ ConnInv /\ ServerInv /\ Ok(c) /\ found[c] \in Founds /\ k \in conns
  BY DEF IInv, CommandInv, Ok, CommandTypes, Running
<1>2. k.server \in Sessions /\ k.whole
  BY <1>1 DEF ConnInv, Conn, Honest
<1>3. Handle(k)
  BY ByItsHandler
<1>4. PICK e \in Effects(k) : forwards' = [forwards EXCEPT ![k.server] = e[1]]
  BY <1>3 DEF Handle
<1>5. e[1] # forwards[k.server]
  BY <1>1, <1>2, <1>4 DEF WrapperTypes
<1>6. k.token = k.server
  BY <1>1, <1>5, EffectFacts
<1>7. k \in Sent(c)
  BY <1>1, <1>2 DEF Sent, Of
<1>8. m \in tried[c]
  BY <1>1, <1>6, <1>7 DEF Ok, Sends
<1>9. m \in ToDelete(c)
  BY <1>1, <1>8 DEF Ok, Closes
<1> QED BY <1>1, <1>6, <1>9, ToDeleteFacts

\* `close` and `close --all` delete what was asked for, in the session where it was heard of, and
\* nothing else, and `close --all` tries everything, for any number of sessions and commands.
THEOREM Closing == Spec => CloseSucceeds
<1> DEFINE Exact == \A k \in Running :
          wrapper' = wrapper /\ conns' = conns \ {k} /\ k.client \in Commands /\ k.request.op = "delete"
            /\ forwards'[k.server] # forwards[k.server] =>
              LET c == k.client
                  m == <<k.server, k.request.id>>
              IN  /\ m \in All(found[c])
                  /\ k.token = k.server
                  /\ command[c].op = "close" => Matches(found[c], command[c].name) = {m}
<1>1. IInv => CloseAllTriesAll
  BY DEF IInv, CommandInv, Closes, CloseAllTriesAll
<1>2. IInv /\ [Next]_vars => [Exact]_vars
  BY ClosesWhatWasAsked
<1> QED BY <1>1, <1>2, Invariance, PTL DEF Spec, CloseSucceeds, CloseIsExact
=============================================================================
