------------------------- MODULE MCObserverDevtools -------------------------
(* One observer id: a subscription that reads as it likes, and devtools that *)
(* retain two Events.  Each has room for one.                                *)
EXTENDS ObserverDevtools

CONSTANTS plain, dev, a

MCSubs == {plain, dev}
MCObservers == {a}
MCObserverOf == [s \in Subs |-> a]
MCCapacity == [s \in Subs |-> 1]

=============================================================================
