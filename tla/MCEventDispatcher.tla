------------------------- MODULE MCEventDispatcher -------------------------
(* The first observer is full after one Event, the second can be partly full. *)
EXTENDS EventDispatcher

CONSTANTS s1, s2, a, b

MCTwo == {s1, s2}
MCObservers == {a, b}
MCObserverOf == [s \in Subs |-> IF s = s2 THEN b ELSE a]
MCCapacity == [s \in Subs |-> IF s = s2 THEN 2 ELSE 1]
MCCapacityOne == [s \in Subs |-> 1]

=============================================================================
