----------------------------- MODULE PlayerView -----------------------------
(***************************************************************************)
(* One player's tracking view (world/view.rs): the geometry of a view on   *)
(* wrapping coordinates, the ordered difference of two views, and the      *)
(* owner that hands the difference out event by event and takes on the new *)
(* view only when the last event has been acknowledged.                    *)
(*                                                                         *)
(* A chunk is a pair <<x, z>> of numbers of the width the code gives an    *)
(* i32, here -Half .. Half - 1. The two views of a ViewDifference are      *)
(* copies, so the iterator is the sequence of the changes still to come.   *)
(* The consumer, external, applies an event before it acknowledges it; an  *)
(* effect that is refused leaves the event where it is.                    *)
(***************************************************************************)
EXTENDS Integers, Sequences, FiniteSetsExt, Queues

CONSTANTS
  Half,                \* 2^31
  MIN_VIEW_DISTANCE,
  MAX_VIEW_DISTANCE,
  ServerDistances,     \* distances the server may be configured with
  ClientDistances,     \* distances a client may ask for
  ViewCenters,         \* chunks a player may be at
  NoView               \* TrackingView::EMPTY

(* i32 coordinates, chunks, views and the events of an update.             *)
World == (-Half .. Half - 1) \X (-Half .. Half - 1)
Views == [center : World, distance : Int] \cup {NoView}
ViewEvents == [kind : {"SetCenter", "Enter", "Leave"}, at : World]
Transitions == [next : Views, events : Seq(ViewEvents)]

ASSUME ViewAssumption ==
  /\ {Half, MIN_VIEW_DISTANCE, MAX_VIEW_DISTANCE} \subseteq Nat \ {0}
  /\ MIN_VIEW_DISTANCE <= MAX_VIEW_DISTANCE /\ 4 * MAX_VIEW_DISTANCE < 2 * Half
  /\ ServerDistances \cup ClientDistances \subseteq Int
  /\ ViewCenters \subseteq World
  /\ NoView \notin [center : World, distance : Int] \cup Transitions

VARIABLES
  distance,    \* the server's view distance
  current,     \* PlayerView.current
  transition,  \* PlayerView.transition: the next view, the pending event and
               \* the later ones; or NoView
  shown,       \* external: the chunks the consumer tracks
  shownAt      \* external: the centre the consumer was last given

viewVars == <<distance, current, transition, shown, shownAt>>

-----------------------------------------------------------------------------
(* View distances.                                                         *)
Clamp(v, low, high) == Max({low, Min({v, high})})
server(requested) == Clamp(requested, MIN_VIEW_DISTANCE, MAX_VIEW_DISTANCE)
effective(requested) == Clamp(requested, MIN_VIEW_DISTANCE, distance)

(* i32 arithmetic.                                                         *)
Wrapped(v) == ((v + Half) % (2 * Half)) - Half
WrappingAbs(v) == IF v = -Half THEN v ELSE Max({v, -v})

(* is_within_distance, with the border a tracked view includes.            *)
is_within_distance(center, d, chunk) ==
  LET axis(i) == Max({0, Wrapped(WrappingAbs(Wrapped(chunk[i] - center[i])) - 2)})
  IN  axis(1) * axis(1) + axis(2) * axis(2) < d * d

view_contains(view, chunk) ==
  view # NoView /\ is_within_distance(view.center, view.distance, chunk)

(* positioned refuses a centre whose scan would leave the numbers, or      *)
(* whose last increment would.                                             *)
positioned(center, d) ==
  \A i \in 1 .. 2 : center[i] - (d + 1) >= -Half /\ center[i] + (d + 1) < Half - 1

ViewsAt(d) ==
  {[center |-> c, distance |-> d] : c \in {c \in ViewCenters : positioned(c, d)}}

BoundsOf(view) ==
  [min |-> [i \in 1 .. 2 |-> view.center[i] - (view.distance + 1)],
   max |-> [i \in 1 .. 2 |-> view.center[i] + (view.distance + 1)]]

Intersects(a, b) == \A i \in 1 .. 2 : a.min[i] <= b.max[i] /\ b.min[i] <= a.max[i]

BoundsUnion(a, b) ==
  [min |-> [i \in 1 .. 2 |-> Min({a.min[i], b.min[i]})],
   max |-> [i \in 1 .. 2 |-> Max({a.max[i], b.max[i]})]]

(* The chunks in the order of the scan: z runs first.                      *)
Scan(b) ==
  LET width(i) == b.max[i] - b.min[i] + 1
  IN  [n \in 1 .. width(1) * width(2) |->
         <<b.min[1] + ((n - 1) \div width(2)), b.min[2] + ((n - 1) % width(2))>>]

-----------------------------------------------------------------------------
(* The difference of two views.                                            *)
Change(next, chunk) ==
  [kind |-> IF view_contains(next, chunk) THEN "Enter" ELSE "Leave", at |-> chunk]

Changes(previous, next, cells) ==
  LET differs == {c \in Elements(cells) : view_contains(previous, c) # view_contains(next, c)}
  IN  Retain([i \in DOMAIN cells |-> Change(next, cells[i])], {Change(next, c) : c \in differs})

ScanOf(view) == IF view = NoView THEN <<>> ELSE Scan(BoundsOf(view))

(* Leave, then Enter: each phase looks at its own view only.               *)
ApartDifference(previous, next) ==
  Changes(previous, NoView, ScanOf(previous)) \o Changes(NoView, next, ScanOf(next))

(* Mutant: two views that overlap are left and entered anew.               *)
DifferenceAlwaysApart(previous, next) ==
  IF previous = next THEN <<>> ELSE ApartDifference(previous, next)

ViewDifference(previous, next) ==
  IF previous = next THEN <<>>
  ELSE IF /\ NoView \notin {previous, next}
          /\ Intersects(BoundsOf(previous), BoundsOf(next))
       THEN Changes(previous, next, Scan(BoundsUnion(BoundsOf(previous), BoundsOf(next))))
       ELSE ApartDifference(previous, next)

-----------------------------------------------------------------------------
(* The owner.                                                              *)
ViewInit ==
  /\ distance \in {server(d) : d \in ServerDistances}
  /\ current = NoView
  /\ transition = NoView
  /\ shown = {}
  /\ shownAt = NoView

(* A changed centre is announced before any change of the view.            *)
SetCenter(next) ==
  IF next # NoView /\ (current = NoView \/ next.center # current.center)
  THEN <<[kind |-> "SetCenter", at |-> next.center]>> ELSE <<>>

begin_update(next) ==
  /\ transition = NoView
  /\ transition' = [next |-> next,
                    events |-> SetCenter(next) \o ViewDifference(current, next)]
  /\ UNCHANGED <<distance, current, shown, shownAt>>

(* External: the effect of the pending event.                              *)
Show(event) ==
  /\ shown' = CASE event.kind = "Enter" -> shown \cup {event.at}
                [] event.kind = "Leave" -> shown \ {event.at}
                [] OTHER -> shown
  /\ shownAt' = IF event.kind = "SetCenter" THEN event.at ELSE shownAt

acknowledge_event ==
  /\ transition # NoView
  /\ transition.events # <<>>
  /\ Show(Head(transition.events))
  /\ transition' = [transition EXCEPT !.events = Tail(@)]
  /\ UNCHANGED <<distance, current>>

finish_update ==
  /\ transition # NoView
  /\ transition.events = <<>>
  /\ current' = transition.next
  /\ transition' = NoView
  /\ UNCHANGED <<distance, shown, shownAt>>

ViewNext ==
  \/ \E d \in ClientDistances : \E v \in ViewsAt(effective(d)) : begin_update(v)
  \/ begin_update(NoView)
  \/ acknowledge_event
  \/ finish_update

ViewSpec == ViewInit /\ [][ViewNext]_viewVars

-----------------------------------------------------------------------------
(* The chunks of a view by its definition, without wrapping numbers.       *)
Tracked(view) ==
  IF view = NoView THEN {}
  ELSE LET over(i, c) == Max({0, Max({c[i] - view.center[i], view.center[i] - c[i]}) - 2})
       IN  {c \in World :
              over(1, c) * over(1, c) + over(2, c) * over(2, c)
                < view.distance * view.distance}

(* While an update is drained the consumer tracks every chunk that is in   *)
(* both views, none that is in neither, and is told each change once:      *)
(* never to enter a chunk it has, to leave one it lacks, or to enter one   *)
(* before it knows the new centre. When the update is finished it tracks   *)
(* exactly the view, though the changes were found by a scan of bounds     *)
(* with wrapping distances (begin_update, ViewDifference::next).           *)
ViewExact ==
  IF transition = NoView THEN shown = Tracked(current)
  ELSE LET event == Head(transition.events)
           next == transition.next
       IN  /\ Tracked(current) \cap Tracked(next) \subseteq shown
           /\ shown \subseteq Tracked(current) \cup Tracked(next)
           /\ transition.events # <<>> =>
                CASE event.kind = "Enter" -> /\ event.at \notin shown
                                             /\ shownAt = next.center
                  [] event.kind = "Leave" -> event.at \in shown
                  [] OTHER -> shown = Tracked(current)
           /\ transition.events = <<>> => shown = Tracked(next)
=============================================================================
