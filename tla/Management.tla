----------------------------- MODULE Management -----------------------------
(***************************************************************************)
(* The commands hfwd list, watch, close, close --all and forward            *)
(* (management.rs), run beside the wrappers of one machine.  They know the   *)
(* sessions from the state files that wrappers leave in a directory: address  *)
(* and token of a companion, and the process that owns it.  They ask every     *)
(* companion for its forwards, remove the files of sessions that neither       *)
(* answer nor live, and act on what they heard.                              *)
(*                                                                         *)
(* Wrappers start, recover, stop or are killed meanwhile.  A killed one's     *)
(* file stays; its address can become that of another companion, and its      *)
(* process id that of another process.                                       *)
(***************************************************************************)
EXTENDS CompanionServer

CONSTANTS
    Commands,   \* runs of hfwd's management commands
    Stallers,   \* clients that never finish their requests
    Addresses,  \* where the companion of each session can listen
    Target,     \* the host of each session
    Starts,     \* the forwards that sessions start with
    Invocations,\* what the commands are asked to do
    MaxId,      \* the highest forward id
    MaxEnds,    \* sessions that end
    MaxFaults   \* disturbances: changes of forwards by others, recoveries, answers
                \* that come too late, refused changes, failing servers, reused ids

Ports == {11, 12}

\* Ids count from one in every session.
ASSUME ManagementAssumption ==
    /\ Clients = Commands \cup Stallers
    /\ {MaxId, MaxEnds, MaxFaults} \subseteq Nat
    /\ Starts \subseteq [Sessions -> UNION {[1..n -> Ports] : n \in 0..MaxId}]

VARIABLES
    wrapper,    \* what each session's wrapper is doing
    file,       \* whether its state file is there
    address,    \* where its companion listens, or listened
    forwards,   \* its registry: local ports by id
    recovering, \* `reconnecting`
    taken,      \* process ids of dead wrappers that other processes have
    last,       \* the last forward id that each gave out
    command,    \* what each command is about
    pc,         \* how far it is
    todo,       \* files it has still to look at
    at,         \* the session it is at
    found,      \* what the sessions that answered have
    left,       \* forwards that it has still to delete
    errors,     \* deletions that failed
    stale,      \* files of wrappers that were dead when it began: a ghost
    tried,      \* deletions it has tried: a ghost
    faults

wrapperVars == <<wrapper, file, address, forwards, recovering, taken, last>>
commandVars == <<command, pc, todo, at, found, left, errors, stale, tried>>
vars == <<serverVars, wrapperVars, commandVars, faults>>
unread == <<listening, acceptor, stop, count, conns>>

With(f, x, v) == [y \in DOMAIN f \cup {x} |-> IF y = x THEN v ELSE f[y]]
Without(f, x) == [y \in DOMAIN f \ {x} |-> f[y]]

Nowhere == "nowhere"
NoSession == "no session"
NoForwards == <<>>

Alive(s) == wrapper[s] \in {"running", "stopping", "joined"}

Init ==
    /\ wrapper = [s \in Sessions |-> "new"]
    /\ InitServer
    /\ file = [s \in Sessions |-> FALSE]
    /\ address = [s \in Sessions |-> Nowhere]
    /\ forwards \in Starts
    /\ recovering = [s \in Sessions |-> FALSE]
    /\ taken = {}
    /\ last = [s \in Sessions |-> Cardinality(DOMAIN forwards[s])]
    /\ command \in [Commands -> Invocations]
    /\ pc = [c \in Commands |-> "idle"]
    /\ todo = [c \in Commands |-> {}]
    /\ at = [c \in Commands |-> NoSession]
    /\ found = [c \in Commands |-> <<>>]
    /\ left = [c \in Commands |-> {}]
    /\ errors = [c \in Commands |-> 0]
    /\ stale = [c \in Commands |-> {}]
    /\ tried = [c \in Commands |-> {}]
    /\ faults = 0

(* ------------------------------- wrappers ------------------------------- *)

\* The address is bound first, the file published next, then the server accepts.
Start(s) ==
    /\ wrapper[s] = "new"
    /\ wrapper' = [wrapper EXCEPT ![s] = "running"]
    /\ \E a \in Addresses[s] :
          /\ \A t \in Sessions : listening[t] => address[t] # a
          /\ address' = [address EXCEPT ![s] = a]
    /\ file' = [file EXCEPT ![s] = TRUE]
    /\ Listen(s)
    /\ UNCHANGED <<stop, count, conns, reply, forwards, recovering, taken, last,
                   commandVars, faults>>

MayEnd(s) ==
    Cardinality({t \in Sessions \ {s} : wrapper[t] \notin {"new", "running"}}) < MaxEnds

Stop(s) ==
    /\ wrapper[s] = "running" /\ MayEnd(s)
    /\ wrapper' = [wrapper EXCEPT ![s] = "stopping"]
    /\ TellToStop(s)
    /\ UNCHANGED <<file, address, forwards, recovering, taken, last, commandVars, faults>>

\* After the join the forwards are closed.
Join(s) ==
    /\ wrapper[s] = "stopping" /\ Joinable(s)
    /\ wrapper' = [wrapper EXCEPT ![s] = "joined"]
    /\ forwards' = [forwards EXCEPT ![s] = NoForwards]
    /\ UNCHANGED <<serverVars, file, address, recovering, taken, last, commandVars, faults>>

Exit(s) ==
    /\ wrapper[s] = "joined"
    /\ wrapper' = [wrapper EXCEPT ![s] = "exited"]
    /\ file' = [file EXCEPT ![s] = FALSE]
    /\ UNCHANGED <<serverVars, address, forwards, recovering, taken, last, commandVars, faults>>

Kill(s) ==
    /\ Alive(s) /\ MayEnd(s)
    /\ wrapper' = [wrapper EXCEPT ![s] = "killed"]
    /\ forwards' = [forwards EXCEPT ![s] = NoForwards]
    /\ Crash(s)
    /\ UNCHANGED <<file, address, recovering, taken, last, commandVars, faults>>

\* accept(2) fails, and the thread ends while the wrapper lives.
ServerFails(s) ==
    /\ wrapper[s] = "running"
    /\ faults < MaxFaults /\ faults' = faults + 1
    /\ AcceptorFails(s)
    /\ UNCHANGED <<wrapperVars, commandVars>>

TakeId(s) ==
    /\ wrapper[s] = "killed" /\ s \notin taken
    /\ faults < MaxFaults /\ faults' = faults + 1
    /\ taken' = taken \cup {s}
    /\ UNCHANGED <<serverVars, wrapper, file, address, forwards, recovering, last, commandVars>>

OnOtherPort(f, i) == [f EXCEPT ![i] = 23 - @]

\* The watcher, the dashboards and recoveries.
OthersChange(s) ==
    /\ wrapper[s] = "running"
    /\ faults < MaxFaults /\ faults' = faults + 1
    /\ \/ \E i \in DOMAIN forwards[s] :
             /\ forwards' \in {[forwards EXCEPT ![s] = Without(@, i)],
                               [forwards EXCEPT ![s] = OnOtherPort(@, i)]}
             /\ UNCHANGED recovering
       \/ recovering' = [recovering EXCEPT ![s] = TRUE] /\ UNCHANGED forwards
    /\ UNCHANGED <<serverVars, wrapper, file, address, taken, last, commandVars>>

Recovered(s) ==
    /\ recovering[s]
    /\ recovering' = [recovering EXCEPT ![s] = FALSE]
    /\ UNCHANGED <<serverVars, wrapper, file, address, forwards, taken, last, commandVars, faults>>

Stall(z, s) ==
    /\ listening[s]
    /\ \A k \in conns : k.client # z
    /\ Connect(z, s, NoSession, [op |-> "none", id |-> 0], FALSE)
    /\ UNCHANGED <<listening, acceptor, stop, count, wrapperVars, commandVars, faults>>

(* ------------------------------- handlers ------------------------------- *)

AuthorizedFaulty(k) == TRUE
\* A token is the secret of one session.
Authorized(k) == k.token = k.server

\* What a request may change, each with its answer; the last is a failing SSH call
\* or disk.
Effects(k) ==
    LET s == k.server  id == k.request.id
    IN  CASE ~Authorized(k) -> {<<forwards[s], Answer("unauthorized")>>}
          [] Authorized(k) /\ recovering[s] -> {<<forwards[s], Answer("recovering")>>}
          [] OTHER ->
             CASE k.request.op = "list" ->
                    {<<forwards[s], [kind |-> "ok", forwards |-> forwards[s]]>>}
               [] k.request.op = "delete" ->
                    IF id \in DOMAIN forwards[s] THEN {<<Without(forwards[s], id), Answer("ok")>>}
                                                 ELSE {<<forwards[s], Answer("not found")>>}
               [] k.request.op = "create" ->
                    IF last[s] = MaxId THEN {<<forwards[s], Answer("refused")>>}
                    ELSE {<<With(forwards[s], last[s] + 1, id), Answer("ok")>>}

Handle(k) ==
    /\ k \in Running
    /\ \E effect \in Effects(k) :
          /\ forwards' = [forwards EXCEPT ![k.server] = effect[1]]
          /\ last' = [last EXCEPT ![k.server] = IF DOMAIN effect[1] \subseteq 1..@ THEN @ ELSE @ + 1]
          /\ EndRequest(k, effect[2])
    /\ UNCHANGED <<wrapper, file, address, recovering, taken, commandVars, faults>>

HandleFails(k) ==
    /\ k \in Running
    /\ faults < MaxFaults /\ faults' = faults + 1
    /\ EndRequest(k, Answer("failed"))
    /\ UNCHANGED <<wrapperVars, commandVars>>

(* ------------------------------- commands ------------------------------- *)

Goto(c, from, to) == pc[c] = from /\ pc' = [pc EXCEPT ![c] = to]

\* A request goes to whoever listens at the session's address.
ListensAt(s) == {t \in Sessions : listening[t] /\ address[t] = address[s]}

Request(c, s, request) ==
    \E t \in ListensAt(s) : Connect(c, t, s, request, TRUE)

Answered(c) == reply[c] # NoReply

\* Nothing listens, or two seconds pass.
NoAnswer(c) ==
    /\ pc[c] \in {"listing", "deleting", "creating"}
    /\ faults < MaxFaults /\ faults' = faults + 1
    /\ \E k \in conns : k.client = c /\ Abandon(k)
    /\ UNCHANGED <<wrapperVars, commandVars>>

Begin(c) ==
    /\ Goto(c, "idle", "scanning")
    /\ todo' = [todo EXCEPT ![c] = {s \in Sessions : file[s]}]
    /\ stale' = [stale EXCEPT ![c] = {s \in Sessions : file[s] /\ wrapper[s] = "killed"}]
    /\ UNCHANGED <<serverVars, wrapperVars, command, at, found, left, errors, tried, faults>>

\* A file that is gone by now is passed over.
Visit(c, s) ==
    /\ pc[c] = "scanning" /\ s \in todo[c]
    /\ todo' = [todo EXCEPT ![c] = @ \ {s}]
    /\ IF ~file[s] THEN UNCHANGED <<pc, at, conns, reply>>
       ELSE /\ at' = [at EXCEPT ![c] = s]
            /\ IF ListensAt(s) = {}
               THEN pc' = [pc EXCEPT ![c] = "checking"] /\ UNCHANGED <<conns, reply>>
               ELSE /\ pc' = [pc EXCEPT ![c] = "listing"]
                    /\ Request(c, s, [op |-> "list", id |-> 0])
    /\ UNCHANGED <<listening, acceptor, stop, count, wrapperVars, command, found, left, errors,
                   stale, tried, faults>>

ReachableFaulty(answer) == answer.kind \in {"ok", "unauthorized"}
Reachable(answer) == answer.kind = "ok"

Hear(c) ==
    /\ pc[c] = "listing" /\ Answered(c)
    /\ IF reply[c].kind = "ok"
       THEN /\ pc' = [pc EXCEPT ![c] = "scanning"]
            /\ found' = [found EXCEPT ![c] = With(@, at[c], reply[c].forwards)]
       ELSE /\ pc' = [pc EXCEPT ![c] = IF Reachable(reply[c]) THEN "scanning" ELSE "checking"]
            /\ UNCHANGED found
    /\ Forget(c)
    /\ UNCHANGED <<unread, wrapperVars, command, todo, at, left, errors, stale, tried, faults>>

IsDeadFaulty(s) == ListensAt(s) = {}
\* process_is_alive: some process has the id.
IsDead(s) == ~Alive(s) /\ s \notin taken

\* The file of a session is written under a name of its own, by the process whose id
\* it holds: once that is dead nobody writes it again.
Check(c) ==
    /\ Goto(c, "checking", "scanning")
    /\ file' = [file EXCEPT ![at[c]] = @ /\ ~IsDead(at[c])]
    /\ UNCHANGED <<serverVars, wrapper, address, forwards, recovering, taken, last, command, todo,
                   at, found, left, errors, stale, tried, faults>>

\* resolve_close_forward: an id, or a local port, of exactly one forward.
All(f) == UNION {{<<s, i>> : i \in DOMAIN f[s]} : s \in DOMAIN f}
Matches(f, name) == {m \in All(f) : m[2] = name \/ f[m[1]][m[2]] = name}
SelectedFaulty(f, name) == IF Matches(f, name) = {} THEN {} ELSE {CHOOSE m \in Matches(f, name) : TRUE}
Selected(f, name) == IF Cardinality(Matches(f, name)) = 1 THEN Matches(f, name) ELSE {}

ToDelete(c) ==
    CASE command[c].op = "close" -> Selected(found[c], command[c].name)
      [] command[c].op = "close all" -> All(found[c])
      [] OTHER -> {}

\* resolve_manual_session: exactly one session of the host.
ForHost(c) == {s \in DOMAIN found[c] : Target[s] = command[c].name}

Resolve(c) ==
    /\ pc[c] = "scanning" /\ todo[c] = {}
    /\ left' = [left EXCEPT ![c] = ToDelete(c)]
    /\ IF command[c].op = "forward" /\ Cardinality(ForHost(c)) = 1
       THEN \E s \in ForHost(c) :
              /\ at' = [at EXCEPT ![c] = s]
              /\ pc' = [pc EXCEPT ![c] = IF ListensAt(s) = {} THEN "done" ELSE "creating"]
              /\ IF ListensAt(s) = {} THEN UNCHANGED <<conns, reply>>
                                      ELSE Request(c, s, [op |-> "create", id |-> 11])
       ELSE /\ pc' = [pc EXCEPT ![c] = IF command[c].op \in {"close", "close all"} THEN "acting"
                                                                                 ELSE "done"]
            /\ UNCHANGED <<at, conns, reply>>
    /\ UNCHANGED <<listening, acceptor, stop, count, wrapperVars, command, todo, found, errors,
                   stale, tried, faults>>

Created(c) ==
    /\ pc[c] = "creating" /\ Answered(c)
    /\ pc' = [pc EXCEPT ![c] = "done"]
    /\ Forget(c)
    /\ UNCHANGED <<unread, wrapperVars, command, todo, at, found, left, errors, stale, tried, faults>>

Delete(c, m) ==
    /\ pc[c] = "acting" /\ m \in left[c]
    /\ left' = [left EXCEPT ![c] = @ \ {m}]
    /\ tried' = [tried EXCEPT ![c] = @ \cup {m}]
    /\ at' = [at EXCEPT ![c] = m[1]]
    /\ IF ListensAt(m[1]) = {}
       THEN /\ errors' = [errors EXCEPT ![c] = @ + 1]
            /\ UNCHANGED <<pc, conns, reply>>
       ELSE /\ pc' = [pc EXCEPT ![c] = "deleting"]
            /\ Request(c, m[1], [op |-> "delete", id |-> m[2]])
            /\ UNCHANGED errors
    /\ UNCHANGED <<listening, acceptor, stop, count, wrapperVars, command, todo, found, stale, faults>>

\* close --all notes an error and goes on.
AfterErrorFaulty == "done"
AfterError == "acting"

Deleted(c) ==
    /\ pc[c] = "deleting" /\ Answered(c)
    /\ errors' = [errors EXCEPT ![c] = IF reply[c].kind = "ok" THEN @ ELSE @ + 1]
    /\ pc' = [pc EXCEPT ![c] = IF reply[c].kind = "ok" THEN "acting" ELSE AfterError]
    /\ Forget(c)
    /\ UNCHANGED <<unread, wrapperVars, command, todo, at, found, left, stale, tried, faults>>

Finish(c) ==
    /\ pc[c] = "acting" /\ left[c] = {}
    /\ pc' = [pc EXCEPT ![c] = "done"]
    /\ UNCHANGED <<serverVars, wrapperVars, command, todo, at, found, left, errors, stale, tried, faults>>

(* ----------------------------- specification ---------------------------- *)

Serve ==
    \/ ServerSteps /\ UNCHANGED <<wrapperVars, commandVars, faults>>
    \/ \E k \in conns : Handle(k) \/ HandleFails(k)

Command(c) ==
    \/ Begin(c) \/ Hear(c) \/ Check(c) \/ Resolve(c) \/ Created(c) \/ Deleted(c)
    \/ Finish(c)
    \/ \E s \in Sessions : Visit(c, s)
    \/ \E m \in left[c] : Delete(c, m)

Environment ==
    \/ \E s \in Sessions : Start(s) \/ Stop(s) \/ Kill(s) \/ ServerFails(s) \/ TakeId(s) \/ OthersChange(s) \/ Recovered(s)
    \/ \E z \in Stallers, s \in Sessions : Stall(z, s)
    \/ \E c \in Commands : NoAnswer(c)

Next ==
    \/ Serve \/ Environment
    \/ \E s \in Sessions : Join(s) \/ Exit(s)
    \/ \E c \in Commands : Command(c)

\* Connections are accepted in their order, each request has a thread that runs and
\* whose waits are bounded, and a wrapper that was told to stop goes on.
Of(c) == {k \in conns : k.client = c}
Fairness ==
    /\ \A s \in Sessions :
          /\ WF_vars(AcceptorStops(s) /\ UNCHANGED <<wrapperVars, commandVars, faults>>)
          /\ WF_vars(Join(s) \/ Exit(s))
    /\ \A c \in Clients :
          WF_vars(\E k \in Of(c) :
                    \/ Handle(k)
                    \/ (Accept(k) \/ ReadWhole(k) \/ ReadFails(k))
                         /\ UNCHANGED <<wrapperVars, commandVars, faults>>)
    /\ \A c \in Commands : WF_vars(Command(c))

Spec == Init /\ [][Next]_vars /\ Fairness

(* ------------------------------ properties ------------------------------ *)

\* The variables keep their types, and a server counts exactly the requests that
\* have a thread: none is counted twice, forgotten, or beyond the limit.
TypeOK ==
    /\ wrapper \in [Sessions -> {"new", "running", "stopping", "joined", "exited", "killed"}]
    /\ acceptor \in [Sessions -> {"none", "looping", "last", "ended"}]
    /\ count \in [Sessions -> 0..Limit]
    /\ \A s \in Sessions : count[s] = Cardinality(At(s) \ Queued)
    /\ \A s \in Sessions : address[s] \in Addresses[s] \cup {Nowhere}
    /\ \A s \in Sessions : last[s] \in 0..MaxId /\ DOMAIN forwards[s] \subseteq 1..last[s]
    /\ pc \in [Commands -> {"idle", "scanning", "listing", "checking", "acting",
                            "deleting", "creating", "done"}]
    /\ \A c \in Commands : DOMAIN found[c] \subseteq Sessions /\ errors[c] \in Nat

\* Once a server is joined no request of it is being read or carried out: what the
\* wrapper then does to the registry and the files is the last that is done to them.
NothingAfterJoin ==
    \A s \in Sessions : wrapper[s] \in {"joined", "exited"} => At(s) = {}

\* No command removes the state file of a session whose wrapper lives, however busy,
\* recovering or near its end that is.
LiveFileKept ==
    [][\A s \in Sessions : \A c \in Commands :
          pc[c] = "checking" /\ pc'[c] # pc[c] /\ file[s] /\ ~file'[s] => wrapper[s] \in {"killed", "exited"}]_vars

\* A command that has looked at all files leaves none behind of the wrappers that were
\* dead when it began, unless another process has their id; that another companion
\* answers at their address does not keep them.
DeadFilesGo ==
    \A c \in Commands :
        pc[c] \in {"acting", "deleting", "creating", "done"} =>
            \A s \in stale[c] : ~file[s] \/ s \in taken

\* A forward that disappears by a request of a command is one that the command heard
\* of from that very session, even when the address of a dead session now belongs to
\* another; and `close` deletes it only if no other forward that it heard of has the
\* id or local port that was asked for.
CloseIsExact ==
    [][\A k \in Running :
          wrapper' = wrapper /\ conns' = conns \ {k} /\ k.client \in Commands /\ k.request.op = "delete"
            /\ forwards'[k.server] # forwards[k.server] =>
              LET c == k.client
                  m == <<k.server, k.request.id>>
              IN  /\ m \in All(found[c])
                  /\ k.token = k.server
                  /\ command[c].op = "close" => Matches(found[c], command[c].name) = {m}]_vars

\* `close --all` tries every forward it heard of, whatever became of the others.
CloseAllTriesAll ==
    \A c \in Commands :
        pc[c] = "done" /\ command[c].op = "close all" => tried[c] = All(found[c])

\* A server that is told to stop comes to its end, whatever its clients do, and its
\* wrapper exits.
ShutdownEnds ==
    \A s \in Sessions : (wrapper[s] = "stopping") ~> (wrapper[s] \in {"exited", "killed"})
\* A server knows its requests, all of them, and has none left once it is joined.
ServerIsSound == TypeOK /\ NothingAfterJoin

\* Commands prune the state files of the dead, all of them, and of nobody else.
PruneIsExact == []DeadFilesGo /\ LiveFileKept

\* A command closes what was asked for, all of it, and nothing else.
CloseSucceeds == []CloseAllTriesAll /\ CloseIsExact
=============================================================================
