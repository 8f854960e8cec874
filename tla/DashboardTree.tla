--------------------------- MODULE DashboardTree ---------------------------
(***************************************************************************)
(* What the dashboard puts on the screen (dashboard_render.rs): the order   *)
(* of the forwards, the tree of Spaces, tabs and panes above them, the part *)
(* of it that fits, and the forward under a click.                          *)
(*                                                                         *)
(* A forward is a record [id, automatic, enabled, pane].  Locations map the *)
(* panes that Herdr's snapshot knows to a Space and a tab; ids and numbers   *)
(* of Spaces and tabs are one natural number.  Indexes count from 0, as in   *)
(* the source: forward i is forwards[i + 1].                                *)
(***************************************************************************)
EXTENDS Integers, Sequences, FiniteSets, SequencesExt

Far == 100  \* u64::MAX: where a pane that the snapshot does not know is put

Monus(a, b) == IF a > b THEN a - b ELSE 0
Least(a, b) == IF a < b THEN a ELSE b

SpaceOf(f, locations) == IF f.pane \in DOMAIN locations THEN locations[f.pane].space ELSE Far + f.pane
TabOf(f, locations)   == IF f.pane \in DOMAIN locations THEN locations[f.pane].tab ELSE Far + f.pane

(* -------------------------------- order -------------------------------- *)

\* Automatic forwards by Space, tab and pane, then the custom ones by id.  The sort
\* is stable: equal ones stay in the order they have.
RankFaulty(forwards, locations, i) ==
    LET f == forwards[i]
    IN  IF f.automatic THEN <<0, SpaceOf(f, locations), TabOf(f, locations), f.id, i>>
                       ELSE <<1, f.id, 0, 0, i>>
Rank(forwards, locations, i) ==
    LET f == forwards[i]
    IN  IF f.automatic THEN <<0, SpaceOf(f, locations), TabOf(f, locations), f.pane, i>>
                       ELSE <<1, f.id, 0, 0, i>>

Below(a, b) == \E k \in DOMAIN a : a[k] < b[k] /\ \A j \in 1..k - 1 : a[j] = b[j]

\* The elements of S as a sequence in the order R, a set of pairs: the k-th one has
\* k - 1 before it.
Before(x, S, R) == {y \in S : <<y, x>> \in R}
Sorted(S, R) ==
    LET before == [x \in S |-> Cardinality(Before(x, S, R))]
    IN  [k \in 1..Cardinality(S) |-> CHOOSE x \in S : before[x] = k - 1]

DisplayOrder(forwards, locations) ==
    {p \in (DOMAIN forwards) \X (DOMAIN forwards) :
        Below(Rank(forwards, locations, p[1]), Rank(forwards, locations, p[2]))}

ForDisplay(forwards, locations) ==
    LET order == Sorted(DOMAIN forwards, DisplayOrder(forwards, locations))
    IN  [k \in DOMAIN forwards |-> forwards[order[k]]]

(* --------------------------------- tree -------------------------------- *)

Line(kind, index) == [kind |-> kind, index |-> index]
Heading(kind) == Line(kind, -1)

\* Whether the forward at position k of a list in display order is the first one of
\* its Space, of its tab, of its pane; the first custom one.
StartsSpace(forwards, locations, k) ==
    k = 1 \/ SpaceOf(forwards[k], locations) # SpaceOf(forwards[k - 1], locations)
StartsTab(forwards, locations, k) ==
    \/ StartsSpace(forwards, locations, k)
    \/ TabOf(forwards[k], locations) # TabOf(forwards[k - 1], locations)
StartsPane(forwards, locations, k) ==
    StartsTab(forwards, locations, k) \/ forwards[k].pane # forwards[k - 1].pane
StartsCustom(forwards, k) == k = 1 \/ forwards[k - 1].automatic

\* The headings above that forward.
Headings(forwards, locations, k) ==
    LET space == StartsSpace(forwards, locations, k)
        tab   == StartsTab(forwards, locations, k)
        pane  == StartsPane(forwards, locations, k)
    IN  CASE forwards[k].automatic /\ space -> <<Heading("space"), Heading("tab"), Heading("pane")>>
          [] forwards[k].automatic /\ tab /\ ~space -> <<Heading("tab"), Heading("pane")>>
          [] forwards[k].automatic /\ pane /\ ~tab -> <<Heading("pane")>>
          [] ~forwards[k].automatic /\ k = 1 -> <<Heading("manual")>>
          [] ~forwards[k].automatic /\ k > 1 /\ StartsCustom(forwards, k) ->
                <<Heading("blank"), Heading("manual")>>
          [] OTHER -> <<>>

\* Every forward has two lines.
Group(forwards, locations, k) ==
    Headings(forwards, locations, k) \o <<Line("forward", k - 1), Line("forward", k - 1)>>

TreeLines(forwards, locations) ==
    FlattenSeq([k \in DOMAIN forwards |-> Group(forwards, locations, k)])

FirstLineOf(lines, index) ==
    LET at == {n \in DOMAIN lines : lines[n].index = index}
    IN  IF at = {} THEN 0 ELSE (CHOOSE n \in at : \A m \in at : n <= m) - 1

\* The lines from start on that fit, so that both lines of the selection do.
WindowStartFaulty(count, selectedLine, room) ==
    LET fits == Least(room, count)
    IN  Least(Monus(selectedLine + 1, fits), Monus(count, fits))
WindowStart(count, selectedLine, room) ==
    LET fits == Least(room, count)
    IN  Least(Monus(selectedLine + 2, fits), Monus(count, fits))

(* -------------------------------- screen ------------------------------- *)

TreeRow == 3  \* the first row of the tree

\* What each row of a terminal of some height shows of the tree; the last two
\* rows are the message and the shortcuts.
Screen(forwards, locations, selected, height) ==
    LET lines == TreeLines(forwards, locations)
        room  == Monus(height, 5)
        start == WindowStart(Len(lines), FirstLineOf(lines, selected), room)
        shown == {n \in 1..Least(room, Len(lines)) : start + n <= Len(lines)}
    IN  [row \in {TreeRow + n - 1 : n \in shown} |-> lines[start + (row - TreeRow) + 1]]

\* The index of the forward at a row, or -1.
ForwardIndexAtFaulty(row, height, selected, forwards, locations) ==
    LET lines == TreeLines(forwards, locations)
        n     == row - TreeRow
    IN  IF row < TreeRow \/ row >= Monus(height, 2) \/ n >= Len(lines)
        THEN -1 ELSE lines[n + 1].index
ForwardIndexAt(row, height, selected, forwards, locations) ==
    LET lines == TreeLines(forwards, locations)
        room  == Monus(height, 5)
        start == WindowStart(Len(lines), FirstLineOf(lines, selected), room)
        n     == start + (row - TreeRow)
    IN  IF row < TreeRow \/ row >= Monus(height, 2) \/ forwards = <<>> \/ room = 0
             \/ n >= start + Least(room, Len(lines))
        THEN -1 ELSE lines[n + 1].index
=============================================================================
