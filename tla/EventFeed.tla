----------------------------- MODULE EventFeed -----------------------------
(***************************************************************************)
(* What the path from a sensor event to the advertisement promises, with   *)
(* no task, timer, message or connection in it: events are accepted in the *)
(* order of their ids, never more than Capacity of them wait, and the one  *)
(* the advertisement shows is only ever replaced by a later one.  Events   *)
(* may be dropped, as a broadcast may; none is invented, repeated after a  *)
(* later one or shown out of order.  A reset starts afresh.                *)
(***************************************************************************)
EXTENDS FiniteSets, Integers

CONSTANTS EventIds,    \* the ids an event can carry
          Capacity     \* how many events wait at most

VARIABLES waiting,     \* ids accepted and not yet shown
          shown        \* id of the event in the advertisement, 0 before the first

feed == <<waiting, shown>>

Init == waiting = {} /\ shown = 0

\* A new event is later than everything that waits and than what is shown.
Accept == \E e \in EventIds :
  /\ Cardinality(waiting) < Capacity
  /\ \A w \in waiting \cup {shown} : e > w
  /\ waiting' = waiting \cup {e}
  /\ UNCHANGED shown

\* A waiting event replaces the shown one; the ones it overtakes are gone.
Show == \E e \in waiting :
  /\ shown' = e
  /\ waiting' = {w \in waiting : w > e}

\* Events that wait may be dropped.
Drop == waiting' \in SUBSET waiting /\ UNCHANGED shown

Reset == waiting' = {} /\ shown' = 0

Next == Accept \/ Show \/ Drop \/ Reset

Spec == Init /\ [][Next]_feed
=============================================================================
