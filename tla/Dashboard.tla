----------------------------- MODULE Dashboard -----------------------------
(***************************************************************************)
(* One dashboard of a session (dashboard_terminal.rs, dashboard_actions.rs): *)
(* a loop that draws what it last heard, takes one key or click at a time,   *)
(* sends what the user wants to the companion and asks again what there is.  *)
(*                                                                         *)
(* Everything that the dashboard acts on was read before: the forwards, the  *)
(* panes' places and the address of the companion.  Meanwhile the watcher,   *)
(* other dashboards and `hfwd` change the forwards, Herdr's panes move, the  *)
(* link is lost and comes back under another address, requests are answered  *)
(* late, and the session ends.                                              *)
(***************************************************************************)
EXTENDS DashboardTree

CONSTANTS
    Panes,       \* panes of Herdr, natural numbers other than 0
    Places,      \* what a snapshot may say of where the panes are
    Starts,      \* the forwards of the session when the dashboard opens
    Heights,     \* heights of the terminal
    MaxId,       \* the highest id that the companion gives out
    MaxChanges,  \* changes by others: to the forwards, or to the panes
    MaxFaults,   \* late answers, failing snapshots and losses of the link
    MaxRequests  \* requests of this dashboard

NoPane == 0  \* "manual"
Ids == 0..MaxId
Records == [id : 1..MaxId, automatic : BOOLEAN, enabled : BOOLEAN, pane : Panes \cup {NoPane}]

ASSUME DashboardAssumption ==
    /\ Panes \subseteq Nat \ {0} /\ Heights \subseteq Nat
    /\ {MaxId, MaxChanges, MaxFaults, MaxRequests} \subseteq Nat
    /\ \A known \in Places : \A p \in DOMAIN known : known[p] \in [space : Nat, tab : Nat]
    /\ \A start \in Starts :
          /\ DOMAIN start \subseteq 1..MaxId
          /\ \A i \in DOMAIN start : start[i] \in Records /\ start[i].id = i

VARIABLES
    registered,  \* the forwards of the companion, by id
    next,        \* the last id it gave out
    channel,     \* the address at which it can be reached, 0 if the link is down
    session,     \* the address in the session file, Gone when that is removed
    asked,       \* requests on their way to the companion
    placed,      \* where the panes of Herdr are
    pc,          \* where the dashboard's loop is
    config,      \* the address it uses
    got,         \* the answer to its last listing
    shown,       \* `forwards`: what it shows, in display order
    locations,   \* `locations`: where it believes the panes are
    selected, form, message, unavailable,  \* DashboardState
    aim,         \* what was selected when the user began what he does: a ghost
    failed,      \* the last refresh failed: a ghost
    changes, faults, requests

world == <<registered, next, channel, session, placed, changes>>
view  == <<shown, locations, selected, form, message, unavailable, aim>>
dashboardVars == <<world, view, asked, pc, config, got, failed, faults, requests>>

Gone == -1
NoForm == [kind |-> "none", id |-> 0]
Form(kind, id) == [kind |-> kind, id |-> id]
NoAim == [id |-> 0, automatic |-> FALSE, enabled |-> FALSE]

Forward(id, automatic, enabled, pane) ==
    [id |-> id, automatic |-> automatic, enabled |-> enabled, pane |-> pane]

Listing ==
    LET ids   == DOMAIN registered
        order == Sorted(ids, {p \in ids \X ids : p[1] < p[2]})
    IN  [k \in DOMAIN order |-> registered[order[k]]]

Empty == shown = <<>>
HasSelected == selected < Len(shown)
Selected == shown[selected + 1]

DashboardInit ==
    /\ registered \in Starts
    /\ next \in DOMAIN registered \cup {0} /\ \A i \in DOMAIN registered : i <= next
    /\ channel = 1 /\ session = 1
    /\ asked = <<>>
    /\ placed \in Places
    /\ pc = "starting" /\ config = 0
    /\ got = <<>> /\ shown = <<>> /\ locations = <<>>
    /\ selected = 0 /\ form = NoForm
    /\ message = "other" /\ unavailable = FALSE
    /\ aim = NoAim /\ failed = FALSE
    /\ changes = 0 /\ faults = 0 /\ requests = 0

(* ---------------------------- DashboardState ---------------------------- *)

ShowMessage == message' = "other" /\ unavailable' = FALSE
ShowUnavailable == message' = "unavailable" /\ unavailable' = TRUE
MarkAvailable ==
    /\ unavailable' = FALSE
    /\ message' = IF unavailable THEN "other" ELSE message

\* A message goes when the selection moves, unless it is the notice that nothing
\* could be read.
Select(index) ==
    /\ selected' = index
    /\ message' = IF selected # index /\ ~unavailable THEN "other" ELSE message
    /\ UNCHANGED unavailable

(* ------------------------------- the loop ------------------------------- *)

Step(from, to) == pc = from /\ pc' = to

ReadConfigFaulty == config' = IF config = 0 THEN session ELSE config
ReadConfig == config' = session

Start ==
    /\ IF session = Gone THEN Step("starting", "closed") /\ UNCHANGED config
                         ELSE Step("starting", "listing") /\ ReadConfig
    /\ UNCHANGED <<world, view, asked, got, failed, faults, requests>>

\* The end of the session is seen before anything else is drawn.
EndedFaulty == session = Gone /\ form = NoForm
Ended == session = Gone

Leave ==
    /\ Ended
    /\ Step("top", "closed")
    /\ UNCHANGED <<world, view, asked, config, got, failed, faults, requests>>

Draw ==
    /\ ~Ended
    /\ Step("top", "drawn")
    /\ Select(Least(selected, Monus(Len(shown), 1)))
    /\ UNCHANGED <<world, shown, locations, form, aim, asked, config, got, failed,
                   faults, requests>>

\* 200 milliseconds without a key, and 750 since the last refresh or not.
Idle(to) ==
    /\ Step("drawn", to)
    /\ UNCHANGED <<world, view, asked, config, got, failed, faults, requests>>
NotYetDue == Idle("top")
RefreshIsDue == Idle("reading")

ReadSession ==
    /\ IF session = Gone
       THEN /\ Step("reading", "top")
            /\ ShowUnavailable
            /\ failed' = TRUE
            /\ UNCHANGED config
       ELSE /\ Step("reading", "listing")
            /\ ReadConfig
            /\ UNCHANGED <<message, unavailable, failed>>
    /\ UNCHANGED <<world, shown, locations, selected, form, aim, asked, got, faults, requests>>

Reaches == channel # 0 /\ config = channel

List ==
    /\ Reaches
    /\ Step("listing", "locating")
    /\ got' = Listing
    /\ UNCHANGED <<world, view, asked, config, failed, faults, requests>>

ListFails ==
    /\ \/ ~Reaches /\ UNCHANGED faults
       \/ faults < MaxFaults /\ faults' = faults + 1
    /\ Step("listing", "top")
    /\ ShowUnavailable
    /\ failed' = TRUE
    /\ UNCHANGED <<world, shown, locations, selected, form, aim, asked, config, got,
                   requests>>

\* preserve_selected_forward: the same forward, or else the same line.
PreservedFaulty(current) == Least(selected, Monus(Len(current), 1))
Preserved(current) ==
    LET same == {k \in DOMAIN current : HasSelected /\ current[k].id = Selected.id}
    IN  IF same # {} THEN (CHOOSE k \in same : TRUE) - 1
                     ELSE Least(selected, Monus(Len(current), 1))

Refreshed(places) ==
    /\ pc = "locating"
    /\ pc' = "top"
    /\ locations' = places
    /\ shown' = ForDisplay(got, places)
    /\ selected' = Preserved(shown')
    /\ MarkAvailable
    /\ failed' = FALSE
    /\ got' = <<>>
    /\ UNCHANGED <<world, form, aim, asked, config, requests>>

Refresh == Refreshed(placed) /\ UNCHANGED faults
RefreshBlind ==  \* Herdr does not answer: the places are not known
    faults < MaxFaults /\ faults' = faults + 1 /\ Refreshed(<<>>)

(* ---------------------------- keys and clicks --------------------------- *)

\* After a key or a click the list is read again before anything is drawn.
AfterInputFaulty == "top"
AfterInput == "reading"

Input(inForm) ==
    /\ Step("drawn", AfterInput)
    /\ (form # NoForm) = inForm
    /\ UNCHANGED <<world, shown, locations, asked, config, got, failed, faults, requests>>

\* Keys, the wheel and g.  While help lies over the tree the mouse does nothing.
Move ==
    /\ Input(FALSE)
    /\ \E index \in {Monus(selected, 1), 0, Monus(Len(shown), 1)}
                      \cup (IF selected + 1 < Len(shown) THEN {selected + 1} ELSE {}) :
          Select(index)
    /\ UNCHANGED <<form, aim>>

Click(row, height) ==
    /\ Input(FALSE)
    /\ LET index == ForwardIndexAt(row, height, selected, shown, locations)
       IN  IF index # -1 THEN Select(index) ELSE UNCHANGED <<selected, message, unavailable>>
    /\ UNCHANGED <<form, aim>>

\* r; o and Enter on a forward: the browser and the pane's focus are elsewhere; p
\* without a forward; settings that cannot be read.
Report ==
    /\ Input(FALSE)
    /\ ShowMessage
    /\ UNCHANGED <<selected, form, aim>>

Escape ==
    /\ Input(FALSE)
    /\ message' = "other"
    /\ UNCHANGED <<selected, form, unavailable, aim>>

\* Esc or q, if it runs in Herdr's popup.
ClosePopup ==
    /\ form = NoForm
    /\ Step("drawn", "closed")
    /\ UNCHANGED <<world, view, asked, config, got, failed, faults, requests>>

Aim == [id |-> Selected.id, automatic |-> Selected.automatic, enabled |-> Selected.enabled]

OpenFormFaulty ==
    /\ Input(FALSE)
    /\ \/ HasSelected /\ form' = Form("retarget", selected) /\ aim' = Aim
       \/ form' = Form("create", 0) /\ aim' = NoAim
    /\ message' = "other"
    /\ UNCHANGED <<selected, unavailable>>
\* p takes what is selected now; a opens the form of a new forward.  h opens the
\* settings (Settings.tla), which keep the keys just as a form does that is left.
OpenForm ==
    /\ Input(FALSE)
    /\ \/ HasSelected /\ form' = Form("retarget", Selected.id) /\ aim' = Aim
       \/ form' = Form("create", 0) /\ aim' = NoAim
    /\ message' = "other"
    /\ UNCHANGED <<selected, unavailable>>

RemovableFaulty == HasSelected
Removable == HasSelected /\ ~Selected.automatic

\* d or Delete: the first press only asks.
AskRemoval ==
    /\ Input(FALSE)
    /\ HasSelected
    /\ IF Removable THEN form' = Form("remove", Selected.id) /\ aim' = Aim
                    ELSE UNCHANGED <<form, aim>>
    /\ ShowMessage
    /\ UNCHANGED selected

CancelForm ==
    /\ Input(TRUE)
    /\ form' = NoForm /\ aim' = NoAim
    /\ UNCHANGED <<selected, message, unavailable>>

\* Any key that leaves the form open; some of them report something.
TypeInForm ==
    /\ Input(TRUE)
    /\ \/ UNCHANGED <<message, unavailable>>
       \/ form.kind # "remove" /\ ShowMessage
    /\ UNCHANGED <<selected, form, aim>>

(* ------------------------------- requests ------------------------------- *)

\* A form is closed before its request is sent; a request that does not get
\* through is reported at once.
Send(request) ==
    /\ pc = "drawn"
    /\ requests < MaxRequests
    /\ requests' = requests + 1
    /\ IF Reaches
       THEN pc' = "asking" /\ asked' = Append(asked, request) /\ UNCHANGED <<message, unavailable>>
       ELSE pc' = AfterInput /\ UNCHANGED asked /\ ShowMessage
    /\ form' = NoForm /\ aim' = NoAim
    /\ UNCHANGED <<world, shown, locations, selected, config, got, failed, faults>>

\* want: the state to be set; for: what the user meant.
Request(op, id, want, for) == [op |-> op, id |-> id, want |-> want, aim |-> for]

Toggle ==
    /\ form = NoForm /\ HasSelected
    /\ Send(Request("toggle", Selected.id, ~Selected.enabled, Aim))

ToRemoveFaulty == IF HasSelected THEN Selected.id ELSE form.id
ToRemove == form.id

ConfirmRemoval ==
    /\ form.kind = "remove"
    /\ Send(Request("remove", ToRemove, FALSE, aim))

Retarget ==
    /\ form.kind = "retarget"
    /\ Send(Request("retarget", form.id, FALSE, aim))

\* The new forward belongs to the pane of what is selected by now.
Create ==
    /\ form.kind = "create"
    /\ Send(Request("create", IF HasSelected THEN Selected.pane ELSE NoPane, TRUE, aim))

Without(f, id) == [i \in DOMAIN f \ {id} |-> f[i]]
With(f, forward) == [i \in DOMAIN f \cup {forward.id} |-> IF i = forward.id THEN forward ELSE f[i]]

\* What the companion sets on a toggle is what the request says.
ToggledFaulty(f, r) == [f EXCEPT !.enabled = ~@]
Toggled(f, r) == [f EXCEPT !.enabled = r.want]

\* The companion may fail; an id it does not know changes nothing, and neither
\* does another local port here.
Outcomes(r) ==
    {registered}
      \cup (IF r.op = "create"
            THEN IF next < MaxId THEN {With(registered, Forward(next + 1, FALSE, TRUE, r.id))} ELSE {}
            ELSE IF r.id \notin DOMAIN registered THEN {}
            ELSE CASE r.op = "toggle" -> {With(registered, Toggled(registered[r.id], r))}
                   [] r.op = "remove" -> {Without(registered, r.id)}
                   [] OTHER -> {})

Handle(n) ==
    /\ n \in DOMAIN asked
    /\ registered' \in Outcomes(asked[n])
    /\ next' = IF DOMAIN registered' \subseteq DOMAIN registered THEN next ELSE next + 1
    /\ asked' = RemoveAt(asked, n)
    /\ IF pc = "asking" /\ n = Len(asked)  \* it is the one that is waited for
       THEN pc' = AfterInput /\ ShowMessage
       ELSE UNCHANGED <<pc, message, unavailable>>
    /\ UNCHANGED <<channel, session, placed, changes, shown, locations, selected, form,
                   aim, config, got, failed, faults, requests>>

\* Two seconds without an answer; the request may still be carried out.
AnswerIsLate ==
    /\ Step("asking", AfterInput)
    /\ \/ ~Reaches /\ UNCHANGED faults
       \/ faults < MaxFaults /\ faults' = faults + 1
    /\ ShowMessage
    /\ UNCHANGED <<world, shown, locations, selected, form, aim, asked, config, got, failed, requests>>

(* ------------------------------- the others ----------------------------- *)

Elsewhere == UNCHANGED <<view, asked, pc, config, got, failed, requests>>

\* The watcher, other dashboards and hfwd.
OthersChange ==
    /\ changes < MaxChanges /\ changes' = changes + 1
    /\ session # Gone
    /\ \/ \E i \in DOMAIN registered : registered' = Without(registered, i) /\ UNCHANGED next
       \/ \E i \in DOMAIN registered :
            registered' = [registered EXCEPT ![i].enabled = ~@] /\ UNCHANGED next
       \/ \E p \in Panes :
            /\ next < MaxId /\ next' = next + 1
            /\ registered' = With(registered, Forward(next + 1, TRUE, TRUE, p))
    /\ Elsewhere
    /\ UNCHANGED <<channel, session, placed, faults>>

PanesMove ==
    /\ changes < MaxChanges /\ changes' = changes + 1
    /\ placed' \in Places \ {placed}
    /\ Elsewhere
    /\ UNCHANGED <<registered, next, channel, session, faults>>

LoseLink ==
    /\ faults < MaxFaults /\ faults' = faults + 1
    /\ channel # 0
    /\ channel' = 0
    /\ Elsewhere
    /\ UNCHANGED <<registered, next, session, placed, changes>>

\* A recovery publishes its address before requests are taken again.
Recover ==
    /\ channel = 0 /\ session # Gone
    /\ session' = session + 1 /\ channel' = session'
    /\ Elsewhere
    /\ UNCHANGED <<registered, next, placed, changes, faults>>

EndSession ==
    /\ session # Gone
    /\ session' = Gone /\ channel' = 0
    /\ Elsewhere
    /\ UNCHANGED <<registered, next, placed, changes, faults>>

(* ----------------------------- specification ---------------------------- *)

Loop == Start \/ Leave \/ Draw \/ ReadSession \/ List \/ ListFails \/ Refresh \/ RefreshBlind
          \/ AnswerIsLate

User ==
    \/ Move \/ Report \/ Escape \/ ClosePopup \/ OpenForm \/ AskRemoval
    \/ CancelForm \/ TypeInForm \/ Toggle \/ ConfirmRemoval \/ Retarget \/ Create
    \/ \E height \in Heights : \E row \in 0..height : Click(row, height)

Others == OthersChange \/ PanesMove \/ LoseLink \/ Recover \/ EndSession

DashboardNext ==
    \/ Loop \/ NotYetDue \/ RefreshIsDue \/ User \/ Others
    \/ \E n \in DOMAIN asked : Handle(n)

\* The loop goes on and its clock runs; the companion answers or the dashboard
\* gives up.  Nothing is assumed of the user and of the others.
DashboardFairness ==
    /\ WF_dashboardVars(Loop \/ \E n \in DOMAIN asked : Handle(n))
    /\ SF_dashboardVars(RefreshIsDue)

DashboardSpec == DashboardInit /\ [][DashboardNext]_dashboardVars /\ DashboardFairness

(* ------------------------------ properties ------------------------------ *)

\* The variables keep their types: a form about a forward holds an id, and what is
\* drawn has its selection inside the list.
DashboardTypeOK ==
    /\ DOMAIN registered \subseteq 1..MaxId
    /\ \A i \in DOMAIN registered : registered[i] \in Records /\ registered[i].id = i
    /\ next \in Ids /\ channel \in 0..MaxFaults + 1 /\ session \in {Gone} \cup 1..MaxFaults + 1
    /\ shown \in Seq(Records) /\ got \in Seq(Records)
    /\ placed \in Places /\ locations \in Places \cup {<<>>}
    /\ pc \in {"starting", "listing", "locating", "top", "drawn", "reading", "asking", "closed"}
    /\ form \in [kind : {"none", "create"}, id : {0}]
                  \cup [kind : {"remove", "retarget"}, id : Ids \ {0}]
    /\ message \in {"other", "unavailable"}
    /\ {unavailable, failed} \subseteq BOOLEAN
    /\ selected \in 0..MaxId
    /\ pc = "drawn" => selected <= Monus(Len(shown), 1)

\* A list that could not be read again is never drawn as if it were current: the
\* dashboard says that it is unavailable exactly while its last attempt failed, and
\* the notice is on the screen whatever the user pressed in between.
StaleIsMarked ==
    pc = "drawn" =>
        /\ unavailable = failed
        /\ unavailable <=> message = "unavailable"

\* What a click selects is what is drawn at its row, for every height of the
\* terminal and however far the tree is scrolled.
ClickHitsWhatIsDrawn ==
    pc = "drawn" =>
        \A height \in Heights : \A row \in 0..height :
            LET screen == Screen(shown, locations, selected, height)
            IN  ForwardIndexAt(row, height, selected, shown, locations)
                  = IF row \in DOMAIN screen THEN screen[row].index ELSE -1

\* The selected forward is on the screen, with both lines where two fit.
SelectionIsVisible ==
    pc = "drawn" /\ ~Empty =>
        \A height \in Heights :
            LET screen == Screen(shown, locations, selected, height)
                rows   == {r \in DOMAIN screen : screen[r].index = selected}
            IN  Cardinality(rows) = Least(2, Monus(height, 5))

\* Every Space, tab and pane with automatic forwards is headed once, and custom
\* forwards come in one section of their own.
HeadedOnce ==
    LET lines == TreeLines(shown, locations)
        count(kind) == Cardinality({n \in DOMAIN lines : lines[n].kind = kind})
        auto   == {f \in ToSet(shown) : f.automatic}
    IN  pc = "drawn" =>
          /\ count("space") = Cardinality({SpaceOf(f, locations) : f \in auto})
          /\ count("tab") = Cardinality({<<SpaceOf(f, locations), TabOf(f, locations)>> : f \in auto})
          /\ count("pane") = Cardinality({f.pane : f \in auto})
          /\ count("manual") = IF ToSet(shown) = auto THEN 0 ELSE 1

\* A forward is removed from a dashboard only if it was the selected one when the
\* user first pressed d, and was shown as a custom forward then, whatever the list
\* has become while the dashboard asked.
RemovalIsDeliberate ==
    [][\A n \in DOMAIN asked' \ DOMAIN asked :
          asked'[n].op = "remove" =>
              asked'[n].id = asked'[n].aim.id /\ ~asked'[n].aim.automatic]_dashboardVars

\* A toggle leaves the forward in the state opposite to the one the user saw, or as
\* it was: what others did to it meanwhile does not turn it round.
ToggleIsAsSeen ==
    [][\A n \in DOMAIN asked :
          asked' = RemoveAt(asked, n) /\ asked[n].op = "toggle" /\ registered' # registered =>
              registered'[asked[n].id].enabled # asked[n].aim.enabled]_dashboardVars

\* A refresh moves the selection along with its forward, unless that is gone.
SelectionFollows ==
    [][pc = "locating" /\ pc' = "top" /\ HasSelected
         /\ (\E f \in ToSet(shown') : f.id = Selected.id)
       => Selected'.id = Selected.id]_dashboardVars

\* When the session ends, its dashboard closes, whatever it is doing.
DashboardEnds == (session = Gone) ~> (pc = "closed")

Current == pc = "drawn" /\ ~unavailable /\ shown = ForDisplay(Listing, locations)

\* Unless it closes or the link stays down, the dashboard comes to show what there
\* is, again and again, also after recoveries and with a form open.
KeepsUp == []<>(pc = "closed" \/ channel = 0 \/ Current)
\* The list on the screen is a list of forwards, and is not taken for current when it is not.
ListIsSound == DashboardTypeOK /\ StaleIsMarked

\* The screen and the mouse agree, the selection is in view, and nothing is headed twice.
ScreenIsSound == ClickHitsWhatIsDrawn /\ SelectionIsVisible /\ HeadedOnce

\* Keys act on the forward that the user saw, whatever has become of the list meanwhile.
ActsAsSeen == RemovalIsDeliberate /\ ToggleIsAsSeen /\ SelectionFollows
=============================================================================
