------------------------ MODULE ObserverDevtoolsProofs ------------------------
(***************************************************************************)
(* What the devtools retain, for every limit, every dispatcher they are     *)
(* attached to and any number of Events.  The dispatcher's own invariants   *)
(* are carried over to its steps together with those of the devtools.       *)
(***************************************************************************)
EXTENDS ObserverDevtools, EventDispatcherProofs, WellFoundedInduction

(* The loop has handled a part of what the subscription was given, retains  *)
(* nothing twice, and everything while there is room.                       *)
Reading ==
  /\ handled \in Nat /\ handled <= Len(received[Dev])
  /\ events \in Seq(Nat \ {0})
  /\ \A i, j \in 1..Len(events) : events[i] = events[j] => i = j
  /\ endings \subseteq Handled
  /\ handled <= MaxEvents => Retained = Handled

DInv == IInv /\ Phases /\ Reading /\ RetainsTheEnd
-----------------------------------------------------------------------------
(* The dispatcher under the steps of the devtools                           *)

(* attach() subscribes and reads in one step; every other step of the       *)
(* devtools is one of the dispatcher, or none.                              *)
LEMMA StepOfDispatcher ==
  ASSUME [DevNext]_allVars
  PROVE  Attach \/ [Next]_vars
<1>1. CASE Others /\ UNCHANGED devtools
  BY <1>1 DEF Others, Next, Drain
<1>2. CASE HandleEvent
  BY <1>2, DevtoolsAssumption DEF HandleEvent, ReadOn, Next
<1>3. CASE Detach
  BY <1>3, DevtoolsAssumption DEF Detach, Next
<1>4. CASE AttachRefused \/ LoopBreaks \/ LoopDone \/ UNCHANGED allVars
  BY <1>4 DEF AttachRefused, LoopBreaks, LoopDone, allVars
<1> QED  BY <1>1, <1>2, <1>3, <1>4 DEF DevNext

LEMMA AttachKeeps ==
  ASSUME IInv, Phases, Attach
  PROVE  IInv' /\ Phases'
<1> USE DEF Attach, Open
<1>1. Dev \in Subs
  BY DevtoolsAssumption
<1>2. queue[Dev] = <<>> /\ received[Dev] = <<>>
  BY <1>1 DEF Phases
<1>3. Delivered \in Nat /\ Len(log) \in Nat
  BY DeliveredIsNat DEF IInv, Typed, TypeOK
<1>4. Cardinality({t \in Subs : phase[t] # "new"}) \in Nat
  <2>1. IsFiniteSet({t \in Subs : phase[t] # "new"})
    BY FS_Subset, DispatcherAssumption
  <2> QED  BY <2>1, FS_CardinalityType
<1>5. TypeOK'
  <2>1. subscriptions' \in SUBSET Subs /\ joined' \in [Subs -> Nat]
    BY <1>1, <1>4 DEF IInv, TypeOK
  <2>2. /\ phase' \in [Subs -> {"new", "open", "completed", "discarded"}]
        /\ waiting' \in [Subs -> BOOLEAN]
        /\ since' \in [Subs -> Nat] /\ readAt' \in [Subs -> Nat]
    BY <1>3 DEF IInv, TypeOK
  <2> QED  BY <2>1, <2>2 DEF IInv, TypeOK, core
<1>6. InOrder' /\ SinkHasEvent' /\ WaitsOnEmpty'
  BY <1>2 DEF IInv, TypeOK, InOrder, SinkHasEvent, WaitsOnEmpty, core
<1>7. ViewsAscending'
  BY DEF IInv, ViewsAscending, View, Delivered, core
<1>8. Phases'
  BY <1>1 DEF Phases, IInv, TypeOK
<1> QED  BY <1>5, <1>6, <1>7, <1>8 DEF IInv

LEMMA DispatcherKeeps ==
  ASSUME IInv, Phases, [DevNext]_allVars
  PROVE  IInv' /\ Phases'
<1>1. CASE Attach
  BY <1>1, AttachKeeps
<1>2. CASE Next
  BY <1>2, StepIInv, PhasesStep
<1>3. CASE UNCHANGED vars
  BY <1>3, StepIInv DEF Phases, vars, core, attached, buffers
<1> QED  BY <1>1, <1>2, <1>3, StepOfDispatcher

(* What a subscription has read stays read, and what was stamped stamped.   *)
LEMMA Grows ==
  ASSUME IInv, Phases, [DevNext]_allVars
  PROVE  /\ LogKept \/ LogSame
         /\ \/ received'[Dev] = received[Dev]
            \/ \E n \in Pos : received'[Dev] = Append(received[Dev], n)
<1>0. Dev \in Subs /\ Len(log) \in Nat
  BY DevtoolsAssumption DEF IInv, TypeOK
<1>1. CASE Attach \/ UNCHANGED vars
  BY <1>0, <1>1 DEF Attach, Open, LogSame, vars, core, buffers
<1>2. ASSUME NEW type \in {"progress", "critical"}, Emit(type)
      PROVE  LogKept /\ received' = received
  BY <1>2, EmitFacts DEF buffers
<1>3. CASE Complete \/ Publish \/ Rest
  BY <1>3, QuietFacts DEF Complete, Publish, Rest, buffers
<1>4. ASSUME NEW s \in Subs, Subscribe(s) \/ Await(s) \/ Return(s)
      PROVE  LogSame /\ received' = received
  BY <1>4, QuietFacts DEF Subscribe, Open, Await, Return
<1>5. ASSUME NEW s \in Subs, Take(s)
      PROVE  /\ LogSame
             /\ \/ received'[Dev] = received[Dev]
                \/ \E n \in Pos : received'[Dev] = Append(received[Dev], n)
  <2>1. received'[Dev] = IF Dev = s THEN Append(received[Dev], Head(queue[Dev])) ELSE received[Dev]
    BY <1>0, <1>5 DEF Take, IInv, TypeOK
  <2>2. queue[s] \in Seq(Pos) /\ queue[s] # <<>>
    BY <1>5 DEF Take, IInv, TypeOK, Pos
  <2>3. Head(queue[s]) \in Pos
    BY <2>2
  <2>4. LogSame
    BY <1>5, QuietFacts
  <2> QED  BY <2>1, <2>3, <2>4
<1>6. CASE Deliver
  <2> DEFINE n == Len(sinkLog)
  <2>1. n \in Pos /\ sinkLog[n] = n
    BY <1>6, DeliverFacts DEF IInv, InOrder, Pos
  <2>2. received'[Dev] = IF Got(Dev) = "handed-over" THEN Append(received[Dev], n) ELSE received[Dev]
    BY <1>0, <1>6, <2>1 DEF Deliver, Got, Current
  <2> QED  BY <1>6, <2>1, <2>2, DeliverReports
<1>7. CASE PrepareTerminal
  BY <1>7, PrepareFacts
<1> QED  BY <1>1, <1>2, <1>3, <1>4, <1>5, <1>6, <1>7, StepOfDispatcher DEF Next

(* The positions the devtools have read ascend and are in the log.          *)
LEMMA ReadPositions ==
  ASSUME IInv
  PROVE  /\ received[Dev] \in Seq(Pos) /\ Len(received[Dev]) \in Nat
         /\ \A i \in 1..Len(received[Dev]) : received[Dev][i] \in 1..Len(log)
         /\ \A i, j \in 1..Len(received[Dev]) : i < j => received[Dev][i] < received[Dev][j]
<1>1. Dev \in Subs
  BY DevtoolsAssumption
<1>2. /\ received[Dev] \in Seq(Pos) /\ Len(received[Dev]) \in Nat
      /\ 1..Len(received[Dev]) \subseteq 1..Len(View(Dev))
      /\ \A i \in 1..Len(received[Dev]) : received[Dev][i] = View(Dev)[i]
  BY <1>1, ReadIsPrefix DEF IInv
<1>3. \A i \in 1..Len(received[Dev]) : received[Dev][i] \in Pos
  BY <1>2, ElementOfSeq
<1>4. Ascending(View(Dev), Delivered)
  BY <1>1 DEF IInv, ViewsAscending
<1>5. Delivered \in Nat /\ Len(log) \in Nat /\ Delivered <= Len(log)
  BY DeliveredInLog DEF IInv, TypeOK
<1>6. \A i \in 1..Len(received[Dev]) : received[Dev][i] \in 1..Len(log)
  <2> SUFFICES ASSUME NEW i \in 1..Len(received[Dev])
               PROVE  received[Dev][i] \in 1..Len(log)
    OBVIOUS
  <2>1. received[Dev][i] <= Delivered
    BY <1>2, <1>4 DEF Ascending
  <2> QED  BY <1>3, <1>5, <2>1 DEF Pos
<1>7. \A i, j \in 1..Len(received[Dev]) : i < j => received[Dev][i] < received[Dev][j]
  BY <1>2, <1>4 DEF Ascending
<1> QED  BY <1>2, <1>6, <1>7


-----------------------------------------------------------------------------
(* What is retained                                                         *)

LEMMA LeastNatural ==
  ASSUME NEW S \in SUBSET Nat, S # {}
  PROVE  \E i \in S : \A j \in S : i <= j
<1> DEFINE R == OpToRel(<, Nat)
<1>1. IsWellFoundedOn(R, Nat)
  BY NatLessThanWellFounded, Zenon
<1>2. \A i, j \in Nat : i < j => <<i, j>> \in R
  BY DEF OpToRel
<1> HIDE DEF R
<1> SUFFICES ASSUME NEW i \in S, \A j \in S : ~(<<j, i>> \in R), NEW j \in S
             PROVE  i <= j
  BY <1>1, WFMin
<1>3. ~(j < i)
  BY <1>2
<1> QED  BY <1>3

(* What was handled stays, and is what it was.                              *)
LEMMA HandledStays ==
  ASSUME IInv, Phases, Reading, [DevNext]_allVars
  PROVE  /\ \A i \in 1..Len(received[Dev]) : received'[Dev][i] = received[Dev][i]
         /\ Len(received[Dev]) <= Len(received'[Dev]) /\ Len(received'[Dev]) \in Nat
         /\ \A i \in 1..handled : i \in 1..Len(received[Dev])
         /\ \A m \in 1..Len(log) : Progress(m)' = Progress(m)
<1>1. received[Dev] \in Seq(Pos) /\ Len(received[Dev]) \in Nat
  BY ReadPositions
<1>2. \A n \in Pos : /\ Len(Append(received[Dev], n)) = Len(received[Dev]) + 1
                     /\ \A i \in 1..Len(received[Dev]) : Append(received[Dev], n)[i] = received[Dev][i]
  BY <1>1
<1>3. /\ \A i \in 1..Len(received[Dev]) : received'[Dev][i] = received[Dev][i]
      /\ Len(received[Dev]) <= Len(received'[Dev]) /\ Len(received'[Dev]) \in Nat
  BY <1>1, <1>2, Grows
<1>4. \A m \in 1..Len(log) : log'[m] = log[m]
  BY Grows DEF LogKept, LogSame
<1> QED  BY <1>1, <1>3, <1>4 DEF Reading, Progress, Critical

LEMMA HandledInLog ==
  ASSUME IInv, Reading
  PROVE  Handled \subseteq 1..Len(log)
<1>1. \A i \in 1..handled : i \in 1..Len(received[Dev])
  BY ReadPositions DEF Reading
<1> QED  BY <1>1, ReadPositions DEF Handled

(* Steps that do not handle an Event.                                       *)
LEMMA OthersRetain ==
  ASSUME DInv, [DevNext]_allVars, UNCHANGED <<handled, events, endings>>
  PROVE  Reading' /\ RetainsTheEnd'
<1> USE DEF DInv
<1>1. Handled' = Handled
  BY HandledStays DEF Handled
<1>2. Retained' = Retained
  BY DEF Retained
<1>3. \A m \in Handled : Progress(m)' = Progress(m)
  BY HandledStays, HandledInLog
<1>4. Reading'
  BY <1>1, <1>2, HandledStays, ReadPositions DEF Reading
<1>5. Retained \subseteq Handled /\ endings \subseteq Handled
  BY DEF RetainsTheEnd, Reading
<1>6. RetainsTheEnd'
  BY <1>1, <1>2, <1>3, <1>5 DEF RetainsTheEnd
<1> QED  BY <1>4, <1>6

(* A sequence without repetition is as long as the set of its elements.     *)
LEMMA Distinct ==
  ASSUME NEW S, NEW s \in Seq(S), \A i, j \in 1..Len(s) : s[i] = s[j] => i = j
  PROVE  Len(s) = Cardinality({s[i] : i \in 1..Len(s)})
<1> DEFINE T == {s[i] : i \in 1..Len(s)}
<1>1. Len(s) \in Nat /\ s \in [1..Len(s) -> T] /\ DOMAIN s = 1..Len(s)
  BY LenProperties
<1>2. s \in Bijection(1..Len(s), T)
  BY <1>1 DEF Bijection, Injection, Surjection, IsInjective
<1> QED  BY <1>1, <1>2, FS_CountingElements DEF ExistsBijection

(* onEvent: the next Event is retained, and what it costs.                  *)
LEMMA HandleRetains ==
  ASSUME DInv, [DevNext]_allVars, HandleEvent
  PROVE  Reading' /\ RetainsTheEnd'
<1> USE DEF DInv
<1>0. PICK n : n = received[Dev][handled + 1]
  OBVIOUS
<1>1. PICK ending \in BOOLEAN : /\ events' = Retain(n, ending)
                                /\ endings' = IF ending THEN endings \cup {n} ELSE endings
  BY <1>0 DEF HandleEvent, IsTerminal
<1>2. /\ handled' = handled + 1 /\ handled \in Nat /\ handled + 1 \in 1..Len(received[Dev])
      /\ handled + 1 <= Len(received'[Dev])
  BY HandledStays, ReadPositions DEF HandleEvent, InHand, Reading
<1>3. n \in 1..Len(log) /\ \A m \in Handled : m < n /\ m \in Nat
  <2>1. n \in 1..Len(log)
    BY <1>0, <1>2, ReadPositions
  <2>2. ASSUME NEW i \in 1..handled
        PROVE  received[Dev][i] < n /\ received[Dev][i] \in 1..Len(log)
    <3>1. i \in 1..Len(received[Dev]) /\ i < handled + 1
      BY <1>2, ReadPositions
    <3> QED  BY <1>0, <1>2, <3>1, ReadPositions
  <2> QED  BY <2>1, <2>2 DEF Handled
<1>4. Handled' = Handled \cup {n}
  <2>1. \A i \in 1..handled + 1 : received'[Dev][i] = received[Dev][i]
    BY <1>2, HandledStays
  <2>2. \A i : i \in 1..handled + 1 <=> i \in 1..handled \/ i = handled + 1
    BY <1>2
  <2> QED  BY <1>0, <1>2, <2>1, <2>2 DEF Handled
<1>5. \A m \in Handled \cup {n} : Progress(m)' = Progress(m)
  BY <1>3, HandledStays, HandledInLog
<1>6. /\ events \in Seq(Pos) /\ Len(events) \in Nat /\ DOMAIN events = 1..Len(events)
      /\ Retained = {events[i] : i \in 1..Len(events)}
      /\ Retained \subseteq Handled /\ n \notin Retained /\ n \in Pos
      /\ endings \subseteq Handled
  <2>1. events \in Seq(Pos) /\ Retained \subseteq Handled /\ endings \subseteq Handled
    BY DEF Reading, RetainsTheEnd, Pos
  <2>2. Len(events) \in Nat /\ DOMAIN events = 1..Len(events)
    BY <2>1, LenProperties
  <2>3. Retained = {events[i] : i \in 1..Len(events)}
    BY <2>2 DEF Retained
  <2>4. n \in Pos /\ n \notin Handled
    BY <1>3 DEF Pos
  <2> QED  BY <2>1, <2>2, <2>3, <2>4
<1>7. endings' \subseteq Handled'
  BY <1>1, <1>4, <1>6
(* Where the room is, or what the Event takes the place of.                 *)
<1>8. CASE Len(events) < MaxEvents
  <2>1. events' = Append(events, n)
    BY <1>1, <1>8 DEF Retain
  <2>2. /\ events' \in Seq(Pos) /\ Len(events') = Len(events) + 1
        /\ \A i \in 1..Len(events) : events'[i] = events[i]
        /\ events'[Len(events) + 1] = n
        /\ DOMAIN events' = 1..Len(events) + 1
    BY <1>6, <2>1
  <2>3. \A i : i \in 1..Len(events) + 1 <=> i \in 1..Len(events) \/ i = Len(events) + 1
    BY <1>6
  <2>4. Retained' = Retained \cup {n}
    BY <1>6, <2>2, <2>3 DEF Retained
  <2>5. \A i, j \in 1..Len(events') : events'[i] = events'[j] => i = j
    <3>1. \A i, j \in 1..Len(events) : events[i] = events[j] => i = j
      BY DEF Reading
    <3>2. \A i \in 1..Len(events) : events'[i] # n
      BY <1>6, <2>2
    <3> QED  BY <2>2, <2>3, <3>1, <3>2
  <2>6. Len(events) = handled /\ Retained = Handled
    BY <1>2, <1>8, DevtoolsAssumption DEF Reading, RetainsTheEnd
  <2>7. Retained' = Handled'
    BY <1>4, <2>4, <2>6
  <2>8. Len(events') = IF handled' < MaxEvents THEN handled' ELSE MaxEvents
    BY <1>2, <1>8, <2>2, <2>6, DevtoolsAssumption
  <2>9. Len(events') = Cardinality(Retained')
    BY <2>2, <2>5, Distinct DEF Retained
  <2>10. Reading'
    <3>1. handled' \in Nat /\ handled' <= Len(received'[Dev])
      BY <1>2
    <3>2. events' \in Seq(Nat \ {0})
      BY <2>2 DEF Pos
    <3> QED  BY <1>7, <2>5, <2>7, <3>1, <3>2 DEF Reading
  <2>11. RetainsTheEnd'
    BY <1>7, <2>7, <2>8, <2>9 DEF RetainsTheEnd
  <2> QED  BY <2>10, <2>11
<1>9. CASE ~(Len(events) < MaxEvents)
  <2>1. Len(events) = MaxEvents /\ ~(handled < MaxEvents) /\ 1 \in 1..Len(events)
    BY <1>2, <1>6, <1>9, DevtoolsAssumption DEF RetainsTheEnd
  (* Nothing of it, or one at place `at'.                                   *)
  <2>2. ASSUME NEW at \in 1..Len(events), events' = Splice(at, n)
        PROVE  /\ events' \in Seq(Pos) /\ Len(events') = Len(events)
               /\ \A i, j \in 1..Len(events') : events'[i] = events'[j] => i = j
               /\ Retained' = (Retained \ {events[at]}) \cup {n}
    <3>1. /\ events' \in Seq(Pos) /\ Len(events') = Len(events)
          /\ \A j \in 1..Len(events) : events'[j] = IF j = at THEN n ELSE events[j]
          /\ DOMAIN events' = 1..Len(events)
      BY <1>6, <2>2, ExceptSeq DEF Splice
    <3>2. \A i, j \in 1..Len(events) : events[i] = events[j] => i = j
      BY DEF Reading
    <3>3. Retained' = {events'[i] : i \in 1..Len(events)}
      BY <3>1 DEF Retained
    <3> QED  BY <1>6, <3>1, <3>2, <3>3
  <2>3. ASSUME /\ events' \in Seq(Pos) /\ Len(events') = Len(events)
               /\ \A i, j \in 1..Len(events') : events'[i] = events'[j] => i = j
               /\ Retained' \subseteq Handled'
        PROVE  /\ Reading'
               /\ Retained' \subseteq Handled' /\ Len(events') = Cardinality(Retained')
               /\ Len(events') = IF handled' < MaxEvents THEN handled' ELSE MaxEvents
    <3>1. ~(handled' <= MaxEvents) /\ ~(handled' < MaxEvents)
      BY <1>2, <2>1, DevtoolsAssumption
    <3>2. Len(events') = Cardinality(Retained')
      <4>1. Retained' = {events'[i] : i \in 1..Len(events')}
        BY <2>3, LenProperties DEF Retained
      <4> QED  BY <2>3, <4>1, Distinct
    <3> QED  BY <1>2, <1>7, <2>1, <2>3, <3>1, <3>2 DEF Reading, Pos
  <2>4. CASE ending
    <3>1. events' = Splice(1, n)
      BY <1>1, <1>9, <2>4 DEF Retain
    <3>2. Retained' = (Retained \ {events[1]}) \cup {n} /\ Retained' \subseteq Handled'
      BY <1>4, <1>6, <2>1, <2>2, <3>1
    <3>3. endings' = endings \cup {n}
      BY <1>1, <2>4
    <3>4. \A m \in endings' : (\A k \in endings' : k <= m) => m \in Retained'
      <4> SUFFICES ASSUME NEW m \in endings', n <= m
                   PROVE  m = n
        BY <3>2, <3>3
      <4>1. m = n \/ m \in Handled
        BY <1>6, <3>3
      <4> QED  BY <1>3, <1>6, <4>1 DEF Pos
    <3>5. \A m \in Handled' \ Retained' : \E k \in endings' : k > m
      BY <1>3, <1>4, <3>2, <3>3
    <3> QED  BY <2>1, <2>2, <2>3, <3>1, <3>2, <3>4, <3>5 DEF RetainsTheEnd
  <2>5. CASE ~ending
    <3> DEFINE progress == {i \in DOMAIN events : Progress(events[i])}
               first == CHOOSE i \in progress : \A j \in progress : i <= j
    <3>1. endings' = endings
      BY <1>1, <2>5
    <3>2. \A m \in Handled \ Retained :
            Progress(m) \/ (\E k \in endings : k > m) \/ progress = {}
      BY DEF RetainsTheEnd, Retained
    <3>3. \A m \in endings : ~Progress(m) /\ (\A k \in endings : k <= m) => m \in Retained
      BY DEF RetainsTheEnd
    <3>4. CASE progress # {}
      <4>1. first \in progress
        <5>1. progress \in SUBSET Nat
          BY <1>6
        <5> QED  BY <3>4, <5>1, LeastNatural
      <4>2. events' = Splice(first, n)
        BY <1>1, <1>9, <2>5, <3>4 DEF Retain
      <4> HIDE DEF first
      <4>3. first \in 1..Len(events) /\ Progress(events[first])
        BY <1>6, <4>1
      <4>4. Retained' = (Retained \ {events[first]}) \cup {n} /\ Retained' \subseteq Handled'
        BY <1>4, <1>6, <2>2, <4>2, <4>3
      <4>5. \A m \in endings' :
              ~Progress(m)' /\ (\A k \in endings' : k <= m) => m \in Retained'
        BY <1>5, <1>6, <3>1, <3>3, <4>3, <4>4
      <4>6. \A m \in Handled' \ Retained' : Progress(m)' \/ (\E k \in endings' : k > m)
        BY <1>4, <1>5, <1>6, <3>1, <3>2, <3>4, <4>3, <4>4
      <4> QED  BY <2>2, <2>3, <4>2, <4>3, <4>4, <4>5, <4>6 DEF RetainsTheEnd
    <3>5. CASE progress = {}
      <4>1. events' = events
        BY <1>1, <1>9, <2>5, <3>5 DEF Retain
      <4>2. Retained' = Retained /\ Retained' \subseteq Handled'
        BY <1>4, <1>6, <4>1 DEF Retained
      <4>3. \A m \in Retained' : ~Progress(m)'
        BY <1>5, <1>6, <3>5, <4>2
      <4>4. \A m \in endings' :
              ~Progress(m)' /\ (\A k \in endings' : k <= m) => m \in Retained'
        BY <1>5, <1>6, <3>1, <3>3, <4>2
      <4> QED  BY <1>6, <2>3, <4>1, <4>2, <4>3, <4>4 DEF RetainsTheEnd, Reading
    <3> QED  BY <3>4, <3>5
  <2> QED  BY <2>4, <2>5
<1> QED  BY <1>8, <1>9

-----------------------------------------------------------------------------
(* The invariant                                                            *)

LEMMA DevInitially == DevInit => DInv
<1> SUFFICES ASSUME DevInit
             PROVE  DInv
  OBVIOUS
<1>1. IInv /\ Phases
  BY InitIInv, InitDelivery DEF DevInit, Delivery
<1>2. /\ handled = 0 /\ events = <<>> /\ endings = {} /\ Len(received[Dev]) \in Nat
      /\ Len(events) = 0 /\ DOMAIN events = {}
  BY <1>1, ReadPositions DEF DevInit
<1>3. Handled = {} /\ Retained = {}
  BY <1>2 DEF Handled, Retained
<1>4. Reading
  BY <1>2, <1>3 DEF Reading
<1>5. RetainsTheEnd
  BY <1>2, <1>3, FS_EmptySet, DevtoolsAssumption DEF RetainsTheEnd
<1> QED  BY <1>1, <1>4, <1>5 DEF DInv

LEMMA DevtoolsInvariant == DevSpec => []DInv
<1>1. ASSUME DInv, [DevNext]_allVars
      PROVE  DInv'
  <2>1. IInv' /\ Phases'
    BY <1>1, DispatcherKeeps DEF DInv
  <2>2. HandleEvent \/ UNCHANGED <<handled, events, endings>>
    BY <1>1 DEF DevNext, Attach, AttachRefused, LoopBreaks, LoopDone, Detach, devtools, allVars
  <2>3. Reading' /\ RetainsTheEnd'
    BY <1>1, <2>2, OthersRetain, HandleRetains
  <2> QED  BY <2>1, <2>3 DEF DInv
<1> QED  BY <1>1, DevInitially, PTL DEF DevSpec

(* onEvent: within any limit the devtools keep the end of the Run once they  *)
(* have seen it, as many Events as they may, and give up a critical one only *)
(* for a later ending or among critical ones.                               *)
THEOREM TheEndIsRetained == DevSpec => []RetainsTheEnd
<1>1. DInv => RetainsTheEnd
  BY DEF DInv
<1> QED  BY <1>1, DevtoolsInvariant, PTL

=============================================================================
