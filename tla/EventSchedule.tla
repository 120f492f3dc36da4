--------------------------- MODULE EventSchedule ---------------------------
(***************************************************************************)
(* What the enqueue half of the consolidation queue promises of the event  *)
(* ledger: the events handed to consolidation are always a prefix of the   *)
(* ledger, the prefix only grows, and every event is eventually in it.     *)
(***************************************************************************)
EXTENDS Integers

CONSTANT Rows   \* row numbers an event may have

VARIABLES
  appended,     \* the ledger holds the rows 1..appended
  scheduled     \* rows that lie in some consolidation job

Init == appended = 0 /\ scheduled = {}

Append ==
  /\ appended' \in Rows /\ appended' > appended
  /\ UNCHANGED scheduled

Schedule ==
  /\ \E last \in 1..appended : last \notin scheduled /\ scheduled' = 1..last
  /\ UNCHANGED appended

Next == Append \/ Schedule

EverythingScheduled == \A r \in Rows : r <= appended ~> r \in scheduled

SafetySpec == Init /\ [][Next]_<<appended, scheduled>>

Spec == SafetySpec /\ EverythingScheduled
=============================================================================
