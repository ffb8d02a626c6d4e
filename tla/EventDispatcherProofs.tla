----------------------- MODULE EventDispatcherProofs -----------------------
(***************************************************************************)
(* What holds of the dispatcher for every set of subscriptions, every       *)
(* choice of capacities and any number of Events.                           *)
(***************************************************************************)
EXTENDS EventDispatcher, SequenceTheorems, FiniteSetTheorems, TLAPS

(* SinkSeesLogInOrder, element by element.                                 *)
InOrder ==
  /\ Len(sinkLog) + Len(pending) = Len(log)
  /\ \A i \in 1..Len(sinkLog) : sinkLog[i] = i
  /\ \A i \in 1..Len(pending) : pending[i] = Len(sinkLog) + i

(* The sink is running only on an Event it was given.                      *)
SinkHasEvent == pc = "sink" => sinkLog # <<>>

(* A reader is never parked behind a queued Event.                         *)
WaitsOnEmpty == \A s \in Subs : waiting[s] => queue[s] = <<>>

Ascending(v, m) ==
  /\ \A i, j \in 1..Len(v) : i < j => v[i] < v[j]
  /\ \A i \in 1..Len(v) : v[i] <= m
ViewsAscending == \A s \in Subs : Ascending(View(s), Delivered)

(* TypeOK alone is not inductive: Deliver reads log[Last(sinkLog)], which   *)
(* is an Event only because the sink log counts the log.  ViewsInOrder is   *)
(* not either: a hand-over appends behind the queue unless that is empty.   *)
IInv == TypeOK /\ InOrder /\ SinkHasEvent /\ WaitsOnEmpty /\ ViewsAscending

-----------------------------------------------------------------------------
(* Sequences of positions                                                  *)

Pos == Nat \ {0}

LEMMA AscendingAppend ==
  ASSUME NEW v \in Seq(Pos), NEW m \in Nat, NEW n \in Pos, Ascending(v, m), m < n
  PROVE  Ascending(Append(v, n), n)
BY AppendProperties DEF Ascending, Pos

LEMMA AscendingPrefix ==
  ASSUME NEW r \in Seq(Pos), NEW q \in Seq(Pos), NEW m \in Nat, Ascending(r \o q, m)
  PROVE  Ascending(r, m)
<1>1. Len(r) <= Len(r \o q) /\ \A i \in 1..Len(r) : (r \o q)[i] = r[i]
  OBVIOUS
<1>2. Len(r) \in Nat /\ Len(r \o q) \in Nat
  OBVIOUS
<1>3. 1..Len(r) \subseteq 1..Len(r \o q)
  BY <1>1, <1>2
<1>4. QED BY <1>1, <1>3 DEF Ascending

LEMMA AscendingWeaken ==
  ASSUME NEW v \in Seq(Pos), NEW m \in Nat, NEW k \in Nat, Ascending(v, m), m <= k
  PROVE  Ascending(v, k)
<1>1. \A i \in 1..Len(v) : v[i] \in Nat
  BY DEF Pos
<1>2. QED BY <1>1 DEF Ascending

LEMMA ConcatAppend ==
  ASSUME NEW r \in Seq(Pos), NEW q \in Seq(Pos), NEW n \in Pos
  PROVE  r \o Append(q, n) = Append(r \o q, n)
OBVIOUS

LEMMA MoveHead ==
  ASSUME NEW r \in Seq(Pos), NEW q \in Seq(Pos), q # <<>>
  PROVE  /\ Append(r, Head(q)) \o Tail(q) = r \o q
         /\ Head(q) \in Pos
         /\ Tail(q) \in Seq(Pos)
         /\ Len(Tail(q)) = Len(q) - 1
<1>1. Head(q) \in Pos /\ Tail(q) \in Seq(Pos) /\ Len(Tail(q)) = Len(q) - 1
  BY HeadTailProperties
<1>2. Append(r, Head(q)) \o Tail(q) = r \o q
  BY <1>1
<1>3. QED BY <1>1, <1>2

-----------------------------------------------------------------------------
(* Stamping extends the log and the pending list alike.                    *)

LEMMA CountingOn ==
  ASSUME NEW k \in Nat, NEW n \in Nat, NEW p \in Seq(Pos),
         \A i \in 1..Len(p) : p[i] = k + i
  PROVE  LET q == p \o Positions(k + Len(p), n) IN
           /\ q \in Seq(Pos)
           /\ Len(q) = Len(p) + n
           /\ \A i \in 1..Len(q) : q[i] = k + i
<1> DEFINE new == Positions(k + Len(p), n)
           q == p \o new
<1>1. Len(p) \in Nat
  OBVIOUS
<1>2. new \in Seq(Pos) /\ Len(new) = n /\ \A i \in 1..n : new[i] = k + Len(p) + i
  BY <1>1 DEF Positions, Pos
<1> HIDE DEF new
<1>3. q \in Seq(Pos) /\ Len(q) = Len(p) + n
  BY <1>2, ConcatProperties
<1>4. ASSUME NEW i \in 1..Len(q) PROVE q[i] = k + i
  <2>1. CASE i <= Len(p)
    <3>1. q[i] = p[i]
      BY <2>1, <1>2, <1>3, ConcatProperties
    <3>2. QED BY <3>1, <2>1, <1>1
  <2>2. CASE i > Len(p)
    <3>1. q[i] = new[i - Len(p)]
      BY <2>2, <1>1, <1>2, <1>3, ConcatProperties
    <3>2. i - Len(p) \in 1..n
      BY <2>2, <1>1, <1>3
    <3>3. QED BY <3>1, <3>2, <1>1, <1>2, <2>2
  <2>3. QED BY <2>1, <2>2, <1>1, <1>3
<1>5. QED BY <1>3, <1>4 DEF new

LEMMA StampKeepsOrder ==
  ASSUME TypeOK, InOrder, NEW es \in Seq(Event), Stamp(es), sinkLog' = sinkLog
  PROVE  /\ log' \in Seq(Event)
         /\ pending' \in Seq(Pos)
         /\ InOrder'
         /\ Len(log') = Len(log) + Len(es)
<1>1. /\ Len(es) \in Nat
      /\ Len(log) \in Nat
      /\ Len(sinkLog) \in Nat
      /\ Len(pending) \in Nat
      /\ pending \in Seq(Pos)
  BY DEF TypeOK, Pos
<1>2. log' \in Seq(Event) /\ Len(log') = Len(log) + Len(es)
  BY ConcatProperties DEF Stamp, TypeOK
<1>3. pending' = pending \o Positions(Len(sinkLog) + Len(pending), Len(es))
  BY DEF Stamp, InOrder
<1>4. \A i \in 1..Len(pending) : pending[i] = Len(sinkLog) + i
  BY DEF InOrder
<1>5. /\ pending' \in Seq(Pos)
      /\ Len(pending') = Len(pending) + Len(es)
      /\ \A i \in 1..Len(pending') : pending'[i] = Len(sinkLog) + i
  <2> DEFINE k == Len(sinkLog)
             n == Len(es)
  <2>1. k \in Nat /\ n \in Nat /\ pending \in Seq(Pos)
    BY <1>1
  <2>2. pending' = pending \o Positions(k + Len(pending), n)
    BY <1>3
  <2>3. \A i \in 1..Len(pending) : pending[i] = k + i
    BY <1>4
  <2> HIDE DEF k, n
  <2>4. pending' \in Seq(Pos) /\ Len(pending') = Len(pending) + n
        /\ \A i \in 1..Len(pending') : pending'[i] = k + i
    BY <2>1, <2>2, <2>3, CountingOn
  <2> QED  BY <2>4 DEF k, n
<1>6. Len(sinkLog') + Len(pending') = Len(log')
  <2>1. Len(sinkLog) + Len(pending) = Len(log) /\ Len(sinkLog') = Len(sinkLog)
    BY DEF InOrder
  <2>2. Len(sinkLog) + (Len(pending) + Len(es)) = Len(log) + Len(es)
    BY <1>1, <2>1
  <2>3. Len(pending') = Len(pending) + Len(es)
    BY <1>5
  <2>4. Len(log') = Len(log) + Len(es)
    BY <1>2
  <2>5. QED BY <2>1, <2>2, <2>3, <2>4
<1>7. \A i \in 1..Len(sinkLog') : sinkLog'[i] = i
  BY DEF InOrder
<1>8. \A i \in 1..Len(pending') : pending'[i] = Len(sinkLog') + i
  BY <1>5
<1>9. QED BY <1>2, <1>5, <1>6, <1>7, <1>8 DEF InOrder

(* The reports of a set of subscriptions, in their insertion order.        *)
LEMMA ReportsAreEvents ==
  ASSUME NEW S \in SUBSET Subs, NEW order \in InsertionOrders(S),
         NEW reports, DOMAIN reports = 1..Cardinality(S),
         reports = [i \in 1..Cardinality(S) |-> reports[i]],
         \A i \in 1..Cardinality(S) :
           \E type \in EventTypes : reports[i] = About(type, order[i])
  PROVE  reports \in Seq(Event) /\ Len(reports) = Cardinality(S)
<1>1. Cardinality(S) \in Nat
  BY FS_Subset, FS_CardinalityType, DispatcherAssumption
<1>2. \A i \in 1..Cardinality(S) : reports[i] \in Event
  BY DispatcherAssumption DEF InsertionOrders, About, Event
<1>3. QED BY <1>1, <1>2

-----------------------------------------------------------------------------
THEOREM InitIInv == Init => IInv
<1> SUFFICES ASSUME Init PROVE IInv
  OBVIOUS
<1> USE DEF Init
<1>1. TypeOK
  <2>1. /\ accepting \in BOOLEAN
        /\ completionStatus \in BOOLEAN
        /\ pc \in {"idle", "drain", "sink"}
        /\ subscriptions \in SUBSET Subs
        /\ joined \in [Subs -> Nat]
        /\ phase \in [Subs -> {"new", "open", "completed", "discarded"}]
        /\ waiting \in [Subs -> BOOLEAN]
        /\ dropReported \in [Subs -> BOOLEAN]
        /\ since \in [Subs -> Nat]
        /\ readAt \in [Subs -> Nat]
        /\ skipped \in [Subs -> SUBSET (Nat \ {0})]
    OBVIOUS
  <2>2. pending \in Seq(Nat \ {0}) /\ log \in Seq(Event) /\ sinkLog \in Seq(Nat \ {0})
    OBVIOUS
  <2>3. queue \in [Subs -> Seq(Nat \ {0})] /\ received \in [Subs -> Seq(Nat \ {0})]
    OBVIOUS
  <2>4. \A s \in Subs : Len(queue[s]) <= Capacity[s]
    BY DispatcherAssumption
  <2>5. QED BY <2>1, <2>2, <2>3, <2>4 DEF TypeOK
<1>2. InOrder /\ SinkHasEvent /\ WaitsOnEmpty
  BY DEF InOrder, SinkHasEvent, WaitsOnEmpty
<1>3. ViewsAscending
  BY DEF ViewsAscending, Ascending, View
<1>4. QED BY <1>1, <1>2, <1>3 DEF IInv

-----------------------------------------------------------------------------
(* One lemma per action                                                    *)

Typed == TypeOK /\ SinkHasEvent

LEMMA DeliveredIsNat == ASSUME Typed PROVE Delivered \in Nat
  <1>1. Len(sinkLog) \in Nat /\ (sinkLog # <<>> => Len(sinkLog) > 0)
    BY DEF Typed, TypeOK
  <1>2. QED BY <1>1 DEF Typed, SinkHasEvent, Delivered

(* The part of the type invariant about the buffers of the subscriptions.   *)
BuffersTyped ==
  /\ phase \in [Subs -> {"new", "open", "completed", "discarded"}]
  /\ queue \in [Subs -> Seq(Nat \ {0})]
  /\ waiting \in [Subs -> BOOLEAN]
  /\ dropReported \in [Subs -> BOOLEAN]
  /\ received \in [Subs -> Seq(Nat \ {0})]
  /\ since \in [Subs -> Nat]
  /\ readAt \in [Subs -> Nat]
  /\ skipped \in [Subs -> SUBSET (Nat \ {0})]
  /\ \A s \in Subs : Len(queue[s]) <= Capacity[s]

LEMMA BuffersFrame ==
  ASSUME TypeOK, UNCHANGED buffers
  PROVE  BuffersTyped'
BY DEF TypeOK, BuffersTyped, buffers

LEMMA ViewsFrame ==
  ASSUME ViewsAscending, UNCHANGED buffers, Delivered' = Delivered
  PROVE  ViewsAscending'
BY DEF ViewsAscending, View, buffers

LEMMA EmitStep ==
  ASSUME IInv, NEW type \in {"progress", "critical"}, Emit(type)
  PROVE  IInv'
<1> USE DEF Emit
<1>1. <<Plain(type)>> \in Seq(Event)
  BY DEF Plain, Event, EventTypes
<1>2. log' \in Seq(Event) /\ pending' \in Seq(Pos) /\ InOrder'
  BY <1>1, StampKeepsOrder DEF IInv
<1>3. TypeOK'
  <2>1. BuffersTyped'
    BY BuffersFrame DEF IInv
  <2>2. pc' \in {"idle", "drain", "sink"}
    BY DEF EnterDrain, IInv, TypeOK
  <2>3. QED BY <1>2, <2>1, <2>2 DEF IInv, TypeOK, BuffersTyped, attached, Pos
<1>4. SinkHasEvent'
  BY DEF EnterDrain, IInv, SinkHasEvent
<1>5. WaitsOnEmpty'
  BY DEF IInv, WaitsOnEmpty, buffers
<1>6. ViewsAscending'
  <2>1. Delivered' = Delivered
    BY DEF EnterDrain, Delivered
  <2>2. QED BY <2>1, ViewsFrame DEF IInv
<1>7. QED BY <1>2, <1>3, <1>4, <1>5, <1>6 DEF IInv

LEMMA CompleteStep ==
  ASSUME IInv, Complete
  PROVE  IInv'
<1> USE DEF Complete
<1>1. TypeOK'
  <2>1. BuffersTyped'
    BY BuffersFrame DEF IInv
  <2>2. pc' \in {"idle", "drain", "sink"}
    BY DEF EnterDrain, IInv, TypeOK
  <2>3. QED BY <2>1, <2>2 DEF IInv, TypeOK, BuffersTyped, attached
<1>2. InOrder' /\ SinkHasEvent' /\ WaitsOnEmpty'
  BY DEF EnterDrain, IInv, InOrder, SinkHasEvent, WaitsOnEmpty, buffers
<1>3. ViewsAscending'
  <2>1. Delivered' = Delivered
    BY DEF EnterDrain, Delivered
  <2>2. QED BY <2>1, ViewsFrame DEF IInv
<1>4. QED BY <1>1, <1>2, <1>3 DEF IInv

LEMMA SubscribeStep ==
  ASSUME IInv, NEW s \in Subs, Subscribe(s)
  PROVE  IInv'
<1> USE DEF Subscribe, Open
<1>1. Delivered \in Nat
  BY DeliveredIsNat DEF IInv, Typed
<1>2. Cardinality({t \in Subs : phase[t] # "new"}) \in Nat
  <2>1. IsFiniteSet({t \in Subs : phase[t] # "new"})
    BY FS_Subset, DispatcherAssumption
  <2>2. QED BY <2>1, FS_CardinalityType
<1>3. TypeOK'
  <2>1. subscriptions' \in SUBSET Subs /\ joined' \in [Subs -> Nat]
    BY <1>2 DEF IInv, TypeOK
  <2>2. phase' \in [Subs -> {"new", "open", "completed", "discarded"}]
    BY DEF IInv, TypeOK
  <2>3. since' \in [Subs -> Nat] /\ readAt' \in [Subs -> Nat]
    <3>1. Len(log) \in Nat
      BY DEF IInv, TypeOK
    <3>2. QED BY <1>1, <3>1 DEF IInv, TypeOK
  <2>4. QED BY <2>1, <2>2, <2>3 DEF IInv, TypeOK, core
<1>4. InOrder' /\ SinkHasEvent' /\ WaitsOnEmpty'
  BY DEF IInv, InOrder, SinkHasEvent, WaitsOnEmpty, core
<1>5. ViewsAscending'
  BY DEF IInv, ViewsAscending, View, Delivered, core
<1>6. QED BY <1>3, <1>4, <1>5 DEF IInv

LEMMA TakeStep ==
  ASSUME IInv, NEW s \in Subs, Take(s)
  PROVE  IInv'
<1> USE DEF Take
<1>1. received[s] \in Seq(Pos) /\ queue[s] \in Seq(Pos) /\ queue[s] # <<>>
  BY DEF IInv, TypeOK, Pos
<1>2. /\ Append(received[s], Head(queue[s])) \o Tail(queue[s]) = View(s)
      /\ Head(queue[s]) \in Pos
      /\ Tail(queue[s]) \in Seq(Pos)
      /\ Len(Tail(queue[s])) = Len(queue[s]) - 1
  BY <1>1, MoveHead DEF View
<1>3. TypeOK'
  <2>1. queue' \in [Subs -> Seq(Nat \ {0})]
    BY <1>2 DEF IInv, TypeOK, Pos
  <2>2. received' \in [Subs -> Seq(Nat \ {0})]
    <3>1. Append(received[s], Head(queue[s])) \in Seq(Nat \ {0})
      BY <1>1, <1>2, AppendProperties DEF Pos
    <3>2. QED BY <3>1 DEF IInv, TypeOK
  <2>3. \A t \in Subs : Len(queue'[t]) <= Capacity[t]
    <3>1. ASSUME NEW t \in Subs, t # s PROVE Len(queue'[t]) <= Capacity[t]
      BY <3>1 DEF IInv, TypeOK
    <3>2. Len(queue'[s]) <= Capacity[s]
      <4>1. queue'[s] = Tail(queue[s]) /\ Len(queue[s]) <= Capacity[s]
        BY DEF IInv, TypeOK
      <4>2. Len(queue[s]) \in Nat /\ Capacity[s] \in Nat
        BY <1>1, DispatcherAssumption
      <4>3. QED BY <4>1, <4>2, <1>2
    <3>3. QED BY <3>1, <3>2
  <2>4. /\ dropReported' \in [Subs -> BOOLEAN]
        /\ readAt' \in [Subs -> Nat]
        /\ skipped' \in [Subs -> SUBSET (Nat \ {0})]
    <3>1. Len(log) \in Nat
      BY DEF IInv, TypeOK
    <3>2. QED BY <3>1 DEF IInv, TypeOK
  <2>5. QED BY <2>1, <2>2, <2>3, <2>4 DEF IInv, TypeOK, core, attached
<1>4. InOrder' /\ SinkHasEvent'
  BY DEF IInv, InOrder, SinkHasEvent, core
<1>5. WaitsOnEmpty'
  BY DEF IInv, TypeOK, WaitsOnEmpty
<1>6. ViewsAscending'
  <2>1. Delivered' = Delivered
    BY DEF Delivered, core
  <2>2. \A t \in Subs : View(t)' = View(t)
    BY <1>2 DEF View, IInv, TypeOK
  <2>3. QED BY <2>1, <2>2 DEF IInv, ViewsAscending
<1>7. QED BY <1>3, <1>4, <1>5, <1>6 DEF IInv

LEMMA AwaitStep ==
  ASSUME IInv, NEW s \in Subs, Await(s)
  PROVE  IInv'
<1> USE DEF Await
<1>1. TypeOK'
  BY DEF IInv, TypeOK, core, attached
<1>2. InOrder' /\ SinkHasEvent' /\ WaitsOnEmpty'
  BY DEF IInv, TypeOK, InOrder, SinkHasEvent, WaitsOnEmpty, core
<1>3. ViewsAscending'
  BY DEF IInv, ViewsAscending, View, Delivered, core
<1>4. QED BY <1>1, <1>2, <1>3 DEF IInv

LEMMA ReturnStep ==
  ASSUME IInv, NEW s \in Subs, Return(s)
  PROVE  IInv'
<1> USE DEF Return
<1>1. TypeOK'
  <2>1. queue' \in [Subs -> Seq(Nat \ {0})]
    BY DEF IInv, TypeOK
  <2>2. ASSUME NEW t \in Subs, t # s PROVE Len(queue'[t]) <= Capacity[t]
    BY <2>2 DEF IInv, TypeOK
  <2>3. Len(queue'[s]) <= Capacity[s]
    <3>1. queue'[s] = <<>> /\ Capacity[s] \in Nat
      BY DispatcherAssumption DEF IInv, TypeOK
    <3>2. QED BY <3>1
  <2>4. QED BY <2>1, <2>2, <2>3 DEF IInv, TypeOK, core
<1>2. InOrder' /\ SinkHasEvent' /\ WaitsOnEmpty'
  BY DEF IInv, TypeOK, InOrder, SinkHasEvent, WaitsOnEmpty, core
<1>3. ViewsAscending'
  <2>1. Delivered' = Delivered
    BY DEF Delivered, core
  <2>2. ASSUME NEW t \in Subs, t # s PROVE Ascending(View(t)', Delivered')
    BY <2>1, <2>2 DEF IInv, TypeOK, ViewsAscending, View
  <2>3. Ascending(View(s)', Delivered')
    <3>1. received[s] \in Seq(Pos) /\ queue[s] \in Seq(Pos)
      BY DEF IInv, TypeOK, Pos
    <3>2. Delivered \in Nat
      BY DeliveredIsNat DEF IInv, Typed
    <3>3. Ascending(received[s], Delivered)
      BY <3>1, <3>2, AscendingPrefix DEF IInv, ViewsAscending, View
    <3>4. View(s)' = received[s]
      BY <3>1, ConcatEmptySeq DEF View, IInv, TypeOK
    <3>5. QED BY <3>3, <3>4, <2>1
  <2>4. QED BY <2>2, <2>3 DEF ViewsAscending
<1>4. QED BY <1>1, <1>2, <1>3 DEF IInv

LEMMA PublishStep ==
  ASSUME IInv, Publish
  PROVE  IInv'
<1> USE DEF Publish
<1>1. /\ pending \in Seq(Pos) /\ pending # <<>>
      /\ sinkLog \in Seq(Pos)
      /\ Len(sinkLog) \in Nat
      /\ Len(pending) \in Nat
  BY DEF IInv, TypeOK, Pos
<1>2. /\ Head(pending) = pending[1] /\ Head(pending) \in Pos
      /\ Tail(pending) \in Seq(Pos)
      /\ Len(Tail(pending)) = Len(pending) - 1
      /\ \A i \in 1..Len(Tail(pending)) : Tail(pending)[i] = pending[i + 1]
      /\ Len(pending) > 0
  BY <1>1, HeadTailProperties
<1>3. /\ sinkLog' \in Seq(Pos)
      /\ Len(sinkLog') = Len(sinkLog) + 1
      /\ \A i \in 1..Len(sinkLog) : sinkLog'[i] = sinkLog[i]
      /\ sinkLog'[Len(sinkLog) + 1] = Head(pending)
  BY <1>1, <1>2, AppendProperties
<1>4. TypeOK'
  <2>1. BuffersTyped'
    BY BuffersFrame DEF IInv
  <2>2. QED BY <1>2, <1>3, <2>1 DEF IInv, TypeOK, BuffersTyped, attached, Pos
<1>5. InOrder'
  <2>1. Len(sinkLog') + Len(pending') = Len(log')
    <3>1. Len(sinkLog) + Len(pending) = Len(log)
      BY DEF IInv, InOrder
    <3>2. Len(pending') = Len(pending) - 1
      BY <1>2
    <3>3. QED BY <3>1, <3>2, <1>1, <1>3
  <2>2. \A i \in 1..Len(sinkLog') : sinkLog'[i] = i
    <3>1. pending[1] = Len(sinkLog) + 1
      BY <1>1, <1>2 DEF IInv, InOrder
    <3>2. \A i \in 1..Len(sinkLog) : sinkLog[i] = i
      BY DEF IInv, InOrder
    <3>3. QED BY <3>1, <3>2, <1>1, <1>2, <1>3
  <2>3. \A i \in 1..Len(pending') : pending'[i] = Len(sinkLog') + i
    <3>1. ASSUME NEW i \in 1..Len(pending') PROVE pending'[i] = Len(sinkLog') + i
      <4>1. i + 1 \in 1..Len(pending)
        BY <1>1, <1>2
      <4>2. pending[i + 1] = Len(sinkLog) + (i + 1)
        BY <4>1 DEF IInv, InOrder
      <4>3. QED BY <4>2, <1>1, <1>2, <1>3
    <3>2. QED BY <3>1
  <2>4. QED BY <2>1, <2>2, <2>3 DEF InOrder
<1>6. SinkHasEvent'
  BY <1>1, <1>3 DEF SinkHasEvent
<1>7. WaitsOnEmpty'
  BY DEF IInv, WaitsOnEmpty, buffers
<1>8. ViewsAscending'
  <2>1. Delivered' = Delivered
    BY <1>1, <1>3 DEF Delivered
  <2>2. QED BY <2>1, ViewsFrame DEF IInv
<1>9. QED BY <1>4, <1>5, <1>6, <1>7, <1>8 DEF IInv

LEMMA RestStep ==
  ASSUME IInv, Rest
  PROVE  IInv'
<1> USE DEF Rest
<1>1. TypeOK'
  <2>1. BuffersTyped'
    BY BuffersFrame DEF IInv
  <2>2. QED BY <2>1 DEF IInv, TypeOK, BuffersTyped, attached
<1>2. InOrder' /\ SinkHasEvent' /\ WaitsOnEmpty'
  BY DEF IInv, InOrder, SinkHasEvent, WaitsOnEmpty, buffers
<1>3. ViewsAscending'
  <2>1. Delivered' = Delivered
    BY DEF Delivered
  <2>2. QED BY <2>1, ViewsFrame DEF IInv
<1>4. QED BY <1>1, <1>2, <1>3 DEF IInv

LEMMA PrepareTerminalStep ==
  ASSUME IInv, PrepareTerminal
  PROVE  IInv'
<1> DEFINE lagging == {s \in subscriptions : ~CanAcceptCritical(s)}
<1>1. PICK order \in InsertionOrders(lagging) :
        Stamp(Append([i \in 1..Cardinality(lagging) |-> About("detached", order[i])],
                     Plain("completed")))
  BY DEF PrepareTerminal
<1>2. lagging \in SUBSET Subs
  BY DEF IInv, TypeOK
<1>3. /\ subscriptions' = subscriptions \ lagging
      /\ phase' = [s \in Subs |-> IF s \in lagging THEN "discarded" ELSE phase[s]]
      /\ queue' = [s \in Subs |-> IF s \in lagging THEN <<>> ELSE queue[s]]
      /\ waiting' = [s \in Subs |-> waiting[s] /\ s \notin lagging]
      /\ pc = "drain" /\ completionStatus' = FALSE
      /\ UNCHANGED <<accepting, pc, sinkLog, joined, dropReported, received,
                     since, readAt, skipped>>
  BY DEF PrepareTerminal
<1> HIDE DEF lagging
<1>4. /\ log' \in Seq(Event) /\ pending' \in Seq(Pos) /\ InOrder'
  <2> DEFINE reports == [i \in 1..Cardinality(lagging) |-> About("detached", order[i])]
  <2>1. reports \in Seq(Event)
    BY <1>1, <1>2, ReportsAreEvents DEF EventTypes
  <2>2. Plain("completed") \in Event
    BY DEF Plain, Event, EventTypes
  <2>3. Append(reports, Plain("completed")) \in Seq(Event)
    BY <2>1, <2>2, AppendProperties
  <2>4. QED BY <1>1, <1>3, <2>3, StampKeepsOrder DEF IInv
<1>5. TypeOK'
  <2>1. /\ phase' \in [Subs -> {"new", "open", "completed", "discarded"}]
        /\ waiting' \in [Subs -> BOOLEAN]
    BY <1>3 DEF IInv, TypeOK
  <2>2. queue' \in [Subs -> Seq(Nat \ {0})]
    BY <1>3 DEF IInv, TypeOK
  <2>3. \A s \in Subs : Len(queue'[s]) <= Capacity[s]
    BY <1>3, DispatcherAssumption DEF IInv, TypeOK
  <2>4. QED BY <1>3, <1>4, <2>1, <2>2, <2>3 DEF IInv, TypeOK, Pos
<1>6. SinkHasEvent' /\ WaitsOnEmpty'
  BY <1>3 DEF IInv, TypeOK, SinkHasEvent, WaitsOnEmpty
<1>7. ViewsAscending'
  <2>1. Delivered' = Delivered
    BY <1>3 DEF Delivered
  <2>2. ASSUME NEW s \in Subs PROVE Ascending(View(s)', Delivered')
    <3>1. received[s] \in Seq(Pos) /\ queue[s] \in Seq(Pos)
      BY DEF IInv, TypeOK, Pos
    <3>2. Delivered \in Nat
      BY DeliveredIsNat DEF IInv, Typed
    <3>3. Ascending(received[s] \o queue[s], Delivered)
      BY DEF IInv, ViewsAscending, View
    <3>4. CASE s \in lagging
      <4>1. View(s)' = received[s]
        BY <1>3, <3>1, <3>4, ConcatEmptySeq DEF View, IInv, TypeOK
      <4>2. QED BY <4>1, <3>1, <3>2, <3>3, <2>1, AscendingPrefix
    <3>5. CASE s \notin lagging
      BY <1>3, <3>3, <3>5, <2>1 DEF View
    <3>6. QED BY <3>4, <3>5
  <2>3. QED BY <2>2 DEF ViewsAscending
<1>8. QED BY <1>4, <1>5, <1>6, <1>7 DEF IInv

LEMMA DeliverStep ==
  ASSUME IInv, Deliver
  PROVE  IInv'
<1> DEFINE n == sinkLog[Len(sinkLog)]
           e == log[n]
           Got(s) == IF s \in subscriptions /\ ~Excluded(s, e) THEN Outcome(s, e) ELSE "none"
           Lost(s) == Got(s) = "detached"
           Ends(s) == e.type = "completed" /\ s \in subscriptions
           unable == {s \in subscriptions : Got(s) \in {"progress-dropped", "detached"}}
<1>1. PICK order \in InsertionOrders(unable) :
        Stamp([i \in 1..Cardinality(unable) |-> About(Got(order[i]), order[i])])
  BY DEF Deliver
<1>2. /\ pc = "sink" /\ pc' = "drain"
      /\ subscriptions' \in SUBSET subscriptions
      /\ phase' = [s \in Subs |-> IF Lost(s) THEN "discarded"
                                  ELSE IF Ends(s) THEN "completed" ELSE phase[s]]
      /\ queue' = [s \in Subs |-> IF Lost(s) THEN <<>>
                                  ELSE IF Got(s) = "queued" THEN Append(queue[s], n)
                                  ELSE queue[s]]
      /\ waiting' = [s \in Subs |-> waiting[s] /\ Got(s) # "handed-over" /\ ~Lost(s) /\ ~Ends(s)]
      /\ received' = [s \in Subs |-> IF Got(s) = "handed-over" THEN Append(received[s], n)
                                     ELSE received[s]]
      /\ dropReported' = [s \in Subs |-> dropReported[s] \/ Got(s) = "progress-dropped"]
      /\ skipped' = [s \in Subs |-> IF Got(s) \in {"dropped", "progress-dropped"}
                                    THEN skipped[s] \cup {n} ELSE skipped[s]]
      /\ UNCHANGED <<accepting, completionStatus, sinkLog, joined, since, readAt>>
  BY DEF Deliver
<1>3. ASSUME NEW s \in Subs
      PROVE  /\ Got(s) = "handed-over" => waiting[s]
             /\ Got(s) = "queued" => Len(queue[s]) < Capacity[s] /\ ~waiting[s]
  BY DEF Outcome, HasRoom
<1>4. n = Len(sinkLog) /\ n \in Pos /\ Delivered = n - 1 /\ Delivered' = n
  <2>1. Len(sinkLog) \in Nat /\ Len(sinkLog) > 0
    BY <1>2 DEF IInv, TypeOK, SinkHasEvent
  <2>2. QED BY <2>1, <1>2 DEF IInv, InOrder, Delivered, Pos
<1>5. unable \in SUBSET Subs /\ \A s \in unable : Got(s) \in EventTypes
  BY DEF IInv, TypeOK, EventTypes
<1> DEFINE reports == [i \in 1..Cardinality(unable) |-> About(Got(order[i]), order[i])]
<1>6. log' \in Seq(Event) /\ pending' \in Seq(Pos) /\ InOrder'
  <2>1. \A i \in 1..Cardinality(unable) : order[i] \in unable
    BY <1>1 DEF InsertionOrders
  <2>2. \A i \in 1..Cardinality(unable) :
          \E type \in EventTypes : reports[i] = About(type, order[i])
    BY <2>1, <1>5
  <2>3. DOMAIN reports = 1..Cardinality(unable)
        /\ reports = [i \in 1..Cardinality(unable) |-> reports[i]]
    OBVIOUS
  <2> HIDE DEF reports, unable
  <2>4. reports \in Seq(Event)
    BY <1>1, <1>5, <2>2, <2>3, ReportsAreEvents
  <2>5. Stamp(reports)
    BY <1>1 DEF reports
  <2>6. QED BY <1>2, <2>4, <2>5, StampKeepsOrder DEF IInv
<1> HIDE DEF n, e, Got, unable, reports
<1>7. TypeOK'
  <2>1. subscriptions' \in SUBSET Subs
    BY <1>2 DEF IInv, TypeOK
  <2>2. /\ phase' \in [Subs -> {"new", "open", "completed", "discarded"}]
        /\ waiting' \in [Subs -> BOOLEAN]
        /\ dropReported' \in [Subs -> BOOLEAN]
    BY <1>2 DEF IInv, TypeOK
  <2>3. queue' \in [Subs -> Seq(Nat \ {0})] /\ received' \in [Subs -> Seq(Nat \ {0})]
    <3>1. \A s \in Subs : /\ Append(queue[s], n) \in Seq(Nat \ {0})
                          /\ Append(received[s], n) \in Seq(Nat \ {0})
      BY <1>4 DEF IInv, TypeOK, Pos
    <3>2. QED BY <1>2, <3>1 DEF IInv, TypeOK
  <2>4. skipped' \in [Subs -> SUBSET (Nat \ {0})]
    BY <1>2, <1>4 DEF IInv, TypeOK, Pos
  <2>5. ASSUME NEW s \in Subs PROVE Len(queue'[s]) <= Capacity[s]
    <3>1. /\ queue[s] \in Seq(Pos) /\ Len(queue[s]) \in Nat
          /\ Len(queue[s]) <= Capacity[s] /\ Capacity[s] \in Nat
      BY DispatcherAssumption DEF IInv, TypeOK, Pos
    <3>2. CASE Got(s) = "queued"
      <4>1. queue'[s] = Append(queue[s], n)
        BY <1>2, <3>2
      <4>2. Len(queue'[s]) = Len(queue[s]) + 1
        BY <4>1, <3>1, <1>4, AppendProperties
      <4>3. QED BY <4>2, <3>1, <3>2, <1>3
    <3>3. CASE Got(s) = "detached"
      <4>1. queue'[s] = <<>>
        BY <1>2, <3>3
      <4>2. QED BY <4>1, <3>1
    <3>4. CASE Got(s) # "queued" /\ Got(s) # "detached"
      <4>1. queue'[s] = queue[s]
        BY <1>2, <3>4
      <4>2. QED BY <4>1, <3>1
    <3>5. QED BY <3>2, <3>3, <3>4
  <2>6. QED BY <1>2, <1>6, <2>1, <2>2, <2>3, <2>4, <2>5 DEF IInv, TypeOK, Pos
<1>8. SinkHasEvent'
  BY <1>2 DEF SinkHasEvent
<1>9. WaitsOnEmpty'
  <2>1. ASSUME NEW s \in Subs, waiting'[s] PROVE queue'[s] = <<>>
    <3>1. waiting[s] /\ queue[s] = <<>>
      BY <1>2, <2>1 DEF IInv, WaitsOnEmpty
    <3>2. queue'[s] = queue[s] \/ queue'[s] = <<>>
      BY <1>2, <1>3, <3>1
    <3>3. QED BY <3>1, <3>2
  <2>2. QED BY <2>1 DEF WaitsOnEmpty
<1>10. ViewsAscending'
  <2>1. ASSUME NEW s \in Subs PROVE Ascending(View(s)', n)
    <3>1. received[s] \in Seq(Pos) /\ queue[s] \in Seq(Pos)
      BY DEF IInv, TypeOK, Pos
    <3>2. Delivered \in Nat /\ Delivered < n /\ n \in Nat
      BY <1>4, DeliveredIsNat DEF IInv, Typed, Pos
    <3>3. Ascending(received[s] \o queue[s], Delivered)
      BY DEF IInv, ViewsAscending, View
    <3>4. received[s] \o queue[s] \in Seq(Pos)
      BY <3>1, ConcatProperties
    <3>5. CASE Got(s) = "queued"
      <4>1. View(s)' = received[s] \o Append(queue[s], n)
        BY <1>2, <3>5 DEF View
      <4>2. View(s)' = Append(received[s] \o queue[s], n)
        BY <4>1, <3>1, <1>4, ConcatAppend
      <4>3. QED BY <4>2, <3>2, <3>3, <3>4, <1>4, AscendingAppend
    <3>6. CASE Got(s) = "handed-over"
      <4>1. queue[s] = <<>> /\ queue'[s] = <<>>
        BY <1>2, <1>3, <3>6 DEF IInv, WaitsOnEmpty
      <4>2. Append(received[s], n) \in Seq(Pos)
        BY <3>1, <1>4, AppendProperties
      <4>3. View(s)' = Append(received[s], n) \o <<>>
        BY <1>2, <3>6, <4>1 DEF View
      <4>4. View(s)' = Append(received[s], n)
        BY <4>2, <4>3, ConcatEmptySeq
      <4>5. received[s] \o queue[s] = received[s]
        BY <4>1, <3>1, ConcatEmptySeq
      <4>6. QED BY <4>4, <4>5, <3>1, <3>2, <3>3, <1>4, AscendingAppend
    <3>7. CASE Got(s) = "detached"
      <4>1. View(s)' = received[s] \o <<>>
        BY <1>2, <3>7 DEF View
      <4>2. View(s)' = received[s]
        BY <4>1, <3>1, ConcatEmptySeq
      <4>3. Ascending(received[s], Delivered)
        BY <3>1, <3>2, <3>3, AscendingPrefix
      <4>4. QED BY <4>2, <4>3, <3>1, <3>2, AscendingWeaken
    <3>8. CASE Got(s) \notin {"queued", "handed-over", "detached"}
      <4>1. View(s)' = received[s] \o queue[s]
        BY <1>2, <3>8 DEF View
      <4>2. Delivered <= n
        BY <3>2
      <4>3. Ascending(received[s] \o queue[s], n)
        BY <4>2, <3>2, <3>3, <3>4, AscendingWeaken
      <4>4. QED BY <4>1, <4>3
    <3>9. QED BY <3>5, <3>6, <3>7, <3>8
  <2>2. QED BY <2>1, <1>4 DEF ViewsAscending
<1>11. QED BY <1>6, <1>7, <1>8, <1>9, <1>10 DEF IInv

-----------------------------------------------------------------------------
LEMMA StepIInv == IInv /\ [Next]_vars => IInv'
<1> SUFFICES ASSUME IInv, [Next]_vars PROVE IInv'
  OBVIOUS
<1>1. ASSUME NEW type \in {"progress", "critical"}, Emit(type) PROVE IInv'
  BY <1>1, EmitStep
<1>2. CASE Complete
  BY <1>2, CompleteStep
<1>3. ASSUME NEW s \in Subs, Subscribe(s) PROVE IInv'
  BY <1>3, SubscribeStep
<1>4. ASSUME NEW s \in Subs, Take(s) PROVE IInv'
  BY <1>4, TakeStep
<1>5. ASSUME NEW s \in Subs, Await(s) PROVE IInv'
  BY <1>5, AwaitStep
<1>6. ASSUME NEW s \in Subs, Return(s) PROVE IInv'
  BY <1>6, ReturnStep
<1>7. CASE Publish
  BY <1>7, PublishStep
<1>8. CASE Deliver
  BY <1>8, DeliverStep
<1>9. CASE PrepareTerminal
  BY <1>9, PrepareTerminalStep
<1>10. CASE Rest
  BY <1>10, RestStep
<1>11. CASE UNCHANGED vars
  BY <1>11 DEF IInv, TypeOK, InOrder, SinkHasEvent, WaitsOnEmpty, ViewsAscending, Ascending,
               View, Delivered, vars, core, attached, buffers
<1>12. QED BY <1>1, <1>2, <1>3, <1>4, <1>5, <1>6, <1>7, <1>8, <1>9, <1>10, <1>11 DEF Next

LEMMA Inductive == Spec => []IInv
<1>1. Init => IInv
  BY InitIInv
<1>2. IInv /\ [Next]_vars => IInv'
  BY StepIInv
<1>3. QED BY <1>1, <1>2, PTL DEF Spec

(* Every variable keeps its type and no queue outgrows its capacity.       *)
THEOREM TypeCorrect == Spec => []TypeOK
<1>1. IInv => TypeOK
  BY DEF IInv
<1>2. QED BY <1>1, Inductive, PTL

LEMMA InOrderSuffices == IInv => SinkSeesLogInOrder
<1> SUFFICES ASSUME IInv PROVE SinkSeesLogInOrder
  OBVIOUS
<1>1. sinkLog \in Seq(Pos) /\ pending \in Seq(Pos) /\ Len(log) \in Nat
  BY DEF IInv, TypeOK, Pos
<1>2. /\ sinkLog \o pending \in Seq(Pos)
      /\ Len(sinkLog \o pending) = Len(log)
      /\ \A i \in 1..Len(log) : (sinkLog \o pending)[i] = 0 + i
  <2>1. \A i \in 1..Len(sinkLog) : sinkLog[i] = 0 + i
    BY <1>1 DEF IInv, InOrder
  <2>2. /\ sinkLog \o pending \in Seq(Pos)
        /\ Len(sinkLog \o pending) = Len(sinkLog) + Len(pending)
        /\ \A i \in 1..Len(sinkLog) : (sinkLog \o pending)[i] = sinkLog[i]
        /\ \A i \in Len(sinkLog) + 1 .. Len(sinkLog) + Len(pending) :
             (sinkLog \o pending)[i] = pending[i - Len(sinkLog)]
    BY <1>1, ConcatProperties
  <2>3. ASSUME NEW i \in 1..Len(log) PROVE (sinkLog \o pending)[i] = 0 + i
    <3>1. Len(sinkLog) \in Nat /\ Len(pending) \in Nat
          /\ Len(sinkLog) + Len(pending) = Len(log)
      BY <1>1 DEF IInv, InOrder
    <3>2. CASE i <= Len(sinkLog)
      BY <2>1, <2>2, <3>1, <3>2
    <3>3. CASE i > Len(sinkLog)
      <4>1. i - Len(sinkLog) \in 1..Len(pending)
        BY <3>1, <3>3
      <4>2. pending[i - Len(sinkLog)] = Len(sinkLog) + (i - Len(sinkLog))
        BY <4>1 DEF IInv, InOrder
      <4>3. QED BY <4>2, <2>2, <3>1, <3>3
    <3>4. QED BY <3>1, <3>2, <3>3
  <2>4. QED BY <2>2, <2>3 DEF IInv, InOrder
<1>3. sinkLog \o pending = [i \in 1..Len(log) |-> (sinkLog \o pending)[i]]
  <2>1. \A v \in Seq(Pos) : v = [i \in 1..Len(v) |-> v[i]]
    OBVIOUS
  <2>2. sinkLog \o pending \in Seq(Pos) /\ Len(sinkLog \o pending) = Len(log)
    BY <1>2
  <2> DEFINE all == sinkLog \o pending
  <2>3. all \in Seq(Pos) /\ Len(all) = Len(log)
    BY <2>2
  <2> HIDE DEF all
  <2>4. all = [i \in 1..Len(log) |-> all[i]]
    BY <2>1, <2>3
  <2>5. QED BY <2>4 DEF all
<1>4. sinkLog \o pending = [i \in 1..Len(log) |-> 0 + i]
  BY <1>2, <1>3
<1>5. QED BY <1>4 DEF SinkSeesLogInOrder, Positions

(* The sink is called with every stamped Event once, in sequence order, for *)
(* any number of reentrant calls it makes.                                  *)
THEOREM SinkOrdered == Spec => []SinkSeesLogInOrder
BY Inductive, InOrderSuffices, PTL

(* No subscription sees an Event twice, out of order, or before the sink.  *)
THEOREM ViewsOrdered == Spec => []ViewsInOrder
<1>1. IInv => ViewsInOrder
  BY DEF IInv, ViewsAscending, Ascending, ViewsInOrder
<1>2. QED BY <1>1, Inductive, PTL

-----------------------------------------------------------------------------
(* Delivery: what subscriptions may rely on, that nothing critical is lost,  *)
(* lag is reported, streams end; and that the dispatcher implements the      *)
(* ordered broadcast.                                                       *)

(* A subscription is attached exactly while it is open, waits only then, is *)
(* new only before anything happened to it, and shares its observer with no *)
(* other one attached.                                                     *)
Phases ==
  /\ \A s \in Subs : s \in subscriptions <=> phase[s] = "open"
  /\ \A s \in Subs : waiting[s] => phase[s] = "open"
  /\ \A s \in Subs : phase[s] = "new" =>
       /\ received[s] = <<>> /\ queue[s] = <<>>
       /\ ~dropReported[s] /\ skipped[s] = {}
  /\ \A s, t \in subscriptions : ObserverOf[s] = ObserverOf[t] => s = t

(* Before completion nothing is terminal; between the call of complete()    *)
(* and the terminal Event the drain goes on; from then on only reports of   *)
(* detached subscriptions are stamped, and once it is delivered nobody is   *)
(* attached.                                                               *)
Closing ==
  /\ accepting => ~completionStatus
  /\ accepting \/ completionStatus <=> TerminalAt = {}
  /\ pc = "idle" => ~completionStatus /\ pending = <<>>
  /\ \A t \in TerminalAt :
       /\ \A i \in t + 1 .. Len(log) : log[i].type = "detached"
       /\ \A i \in Delivered + 1 .. Len(log) : Critical(log[i])
       /\ t <= Delivered => subscriptions = {}
       /\ \A s \in Subs : \A i \in 1..Len(View(s)) : View(s)[i] <= t
  /\ \A s \in Subs : phase[s] = "completed" => \E t \in TerminalAt : t <= Delivered

(* Since a subscription last read, its lag has been reported as often as    *)
(* #dropReported says.                                                     *)
Reports(s) == {i \in readAt[s] + 1 .. Len(log) : log[i] = About("progress-dropped", s)}
Lagging ==
  \A s \in subscriptions :
    /\ readAt[s] <= Len(log)
    /\ IF dropReported[s] THEN \E i \in Reports(s) : \A j \in Reports(s) : j = i
                          ELSE skipped[s] = {} /\ Reports(s) = {}

(* NoReaderStranded needs to know when completion is over, NoCriticalLost   *)
(* that a completed stream has its terminal Event behind it, and            *)
(* LagReportedOnce what #dropReported stands for.                          *)
Delivery == Phases /\ Closing /\ NoCriticalLost /\ Lagging

-----------------------------------------------------------------------------
(* How the log grows                                                       *)

LogKept == /\ Len(log) \in Nat /\ Len(log') \in Nat /\ Len(log) <= Len(log')
           /\ \A i \in 1..Len(log) : log'[i] = log[i]
LogSame == log' = log /\ Len(log) \in Nat

LEMMA StampFacts ==
  ASSUME TypeOK, NEW es \in Seq(Event), Stamp(es)
  PROVE  /\ LogKept
         /\ Len(es) \in Nat /\ Len(log') = Len(log) + Len(es)
         /\ \A k \in 1..Len(es) : log'[Len(log) + k] = es[k]
         /\ \A i \in Len(log) + 1 .. Len(log') : \E k \in 1..Len(es) : i = Len(log) + k
<1>1. log \in Seq(Event) /\ Len(log) \in Nat /\ Len(es) \in Nat /\ log' = log \o es
  BY DEF TypeOK, Stamp
<1>2. /\ Len(log') = Len(log) + Len(es)
      /\ \A i \in 1..Len(log) : log'[i] = log[i]
      /\ \A i \in Len(log) + 1 .. Len(log) + Len(es) : log'[i] = es[i - Len(log)]
  BY <1>1, ConcatProperties
<1>3. \A k \in 1..Len(es) : log'[Len(log) + k] = es[k]
  BY <1>1, <1>2
<1>4. ASSUME NEW i \in Len(log) + 1 .. Len(log')
      PROVE  \E k \in 1..Len(es) : i = Len(log) + k
  <2>1. i - Len(log) \in 1..Len(es) /\ i = Len(log) + (i - Len(log))
    BY <1>1, <1>2
  <2>2. QED BY <2>1
<1>5. LogKept
  <2>1. Len(log') \in Nat /\ Len(log) <= Len(log')
    BY <1>1, <1>2
  <2>2. QED BY <1>1, <1>2, <2>1 DEF LogKept
<1>6. Len(log') = Len(log) + Len(es)
  BY <1>2
<1>7. QED BY <1>1, <1>3, <1>4, <1>5, <1>6

(* An insertion order names every one of its subscriptions, and once.      *)
LEMMA OrderNamesAll ==
  ASSUME TypeOK, NEW S \in SUBSET Subs, NEW order \in InsertionOrders(S)
  PROVE  /\ Cardinality(S) \in Nat
         /\ \A i \in 1..Cardinality(S) : order[i] \in S
         /\ \A s \in S : \E i \in 1..Cardinality(S) : order[i] = s
         /\ \A i, j \in 1..Cardinality(S) : order[i] = order[j] => i = j
<1>1. IsFiniteSet(S) /\ Cardinality(S) \in Nat
  BY FS_Subset, FS_CardinalityType, DispatcherAssumption
<1> DEFINE I == 1..Cardinality(S)
<1>2. order \in [I -> S] /\ \A i, j \in I : i < j => joined[order[i]] < joined[order[j]]
  BY DEF InsertionOrders
<1>3. \A i \in I : joined[order[i]] \in Nat
  BY <1>2 DEF TypeOK
<1>4. \A i, j \in I : order[i] = order[j] => i = j
  <2>1. SUFFICES ASSUME NEW i \in I, NEW j \in I, i < j, order[i] = order[j] PROVE FALSE
    BY <1>1
  <2>2. QED BY <2>1, <1>2, <1>3
<1>5. order \in Injection(I, S)
  BY <1>2, <1>4 DEF Injection, IsInjective
<1>6. Cardinality(I) = Cardinality(S)
  BY <1>1, FS_Interval
<1>7. order \in Surjection(I, S)
  BY <1>1, <1>5, <1>6, FS_Injection
<1>8. QED BY <1>1, <1>2, <1>4, <1>7 DEF Surjection

(* What stamping one report for each subscription of a set does.           *)
ReportsOf(S, kind, from, to) ==
  /\ \A s \in S : \E i \in from + 1 .. to : log'[i] = About(kind[s], s)
  /\ \A i \in from + 1 .. to : \E s \in S : log'[i] = About(kind[s], s)
  /\ \A s \in S : \A i, j \in from + 1 .. to :
       (\A t \in S : ObserverOf[t] = ObserverOf[s] => t = s)
         => (log'[i] = About(kind[s], s) /\ log'[j] = About(kind[s], s) => i = j)

LEMMA ReportsNameAll ==
  ASSUME TypeOK, NEW S \in SUBSET Subs, NEW kind \in [S -> EventTypes],
         NEW order \in InsertionOrders(S), NEW es \in Seq(Event),
         Len(es) >= Cardinality(S), Stamp(es),
         \A i \in 1..Cardinality(S) : es[i] = About(kind[order[i]], order[i])
  PROVE  ReportsOf(S, kind, Len(log), Len(log) + Cardinality(S))
<1> DEFINE n == Cardinality(S)
           base == Len(log)
<1>0. base \in Nat /\ Len(es) \in Nat
  BY DEF TypeOK
<1>1. /\ n \in Nat /\ base \in Nat /\ Len(es) \in Nat
      /\ \A i \in 1..n : order[i] \in S
      /\ \A s \in S : \E i \in 1..n : order[i] = s
      /\ \A i, j \in 1..n : order[i] = order[j] => i = j
  BY <1>0, OrderNamesAll
<1>2. \A i \in 1..n : log'[base + i] = About(kind[order[i]], order[i])
  BY <1>1, StampFacts
<1> HIDE DEF n, base
<1>3. ASSUME NEW i \in base + 1 .. base + n PROVE i - base \in 1..n /\ i = base + (i - base)
  BY <1>1
<1>4. ASSUME NEW s \in S PROVE \E i \in base + 1 .. base + n : log'[i] = About(kind[s], s)
  <2>1. PICK k \in 1..n : order[k] = s
    BY <1>1
  <2>2. base + k \in base + 1 .. base + n
    BY <1>1
  <2>3. QED BY <1>2, <2>1, <2>2
<1>5. ASSUME NEW i \in base + 1 .. base + n PROVE \E s \in S : log'[i] = About(kind[s], s)
  <2>1. log'[base + (i - base)] = About(kind[order[i - base]], order[i - base])
    BY <1>2, <1>3
  <2>2. order[i - base] \in S
    BY <1>1, <1>3
  <2>3. QED BY <1>3, <2>1, <2>2
<1>6. ASSUME NEW s \in S, \A t \in S : ObserverOf[t] = ObserverOf[s] => t = s,
             NEW i \in base + 1 .. base + n, NEW j \in base + 1 .. base + n,
             log'[i] = About(kind[s], s), log'[j] = About(kind[s], s)
      PROVE  i = j
  <2>1. log'[i].observer = ObserverOf[s] /\ log'[j].observer = ObserverOf[s]
    BY <1>6 DEF About
  <2>2. /\ log'[i].observer = ObserverOf[order[i - base]]
        /\ log'[j].observer = ObserverOf[order[j - base]]
    <3>1. /\ log'[base + (i - base)] = About(kind[order[i - base]], order[i - base])
          /\ log'[base + (j - base)] = About(kind[order[j - base]], order[j - base])
      BY <1>2, <1>3
    <3>2. log'[i] = log'[base + (i - base)] /\ log'[j] = log'[base + (j - base)]
      BY <1>3
    <3>3. QED BY <3>1, <3>2 DEF About
  <2>3. order[i - base] = s /\ order[j - base] = s
    BY <1>1, <1>3, <1>6, <2>1, <2>2
  <2>4. i - base = j - base
    BY <1>1, <1>3, <2>3
  <2>5. QED BY <1>1, <2>4
<1>7. QED BY <1>4, <1>5, <1>6 DEF ReportsOf, n, base

-----------------------------------------------------------------------------
(* The actions that change what several subscriptions have                 *)

(* The Event a delivery is about, and what becomes of it.                  *)
Current == log[Len(sinkLog)]
Got(s) == IF s \in subscriptions /\ ~Excluded(s, Current) THEN Outcome(s, Current) ELSE "none"
Unable == {s \in subscriptions : Got(s) \in {"progress-dropped", "detached"}}

LEMMA PrefixOfConcat ==
  ASSUME NEW r \in Seq(Pos), NEW q \in Seq(Pos)
  PROVE  /\ Len(r) \in Nat /\ Len(r \o q) \in Nat /\ Len(r) <= Len(r \o q)
         /\ q # <<>> => Len(r) < Len(r \o q)
         /\ r \o q \in Seq(Pos)
         /\ \A i \in 1..Len(r) : r[i] = (r \o q)[i]
<1>1. Len(r) \in Nat /\ Len(q) \in Nat /\ (q # <<>> => Len(q) > 0)
  OBVIOUS
<1>2. r \o q \in Seq(Pos) /\ Len(r \o q) = Len(r) + Len(q)
  BY ConcatProperties
<1>3. \A i \in 1..Len(r) : r[i] = (r \o q)[i]
  OBVIOUS
<1>4. QED BY <1>1, <1>2, <1>3

LEMMA ReadIsPrefix ==
  ASSUME TypeOK, NEW s \in Subs
  PROVE  /\ Len(received[s]) \in Nat /\ Len(View(s)) \in Nat
         /\ Len(received[s]) <= Len(View(s))
         /\ queue[s] # <<>> => Len(received[s]) < Len(View(s))
         /\ View(s) \in Seq(Pos) /\ received[s] \in Seq(Pos) /\ queue[s] \in Seq(Pos)
         /\ \A i \in 1..Len(received[s]) : received[s][i] = View(s)[i]
<1>1. received[s] \in Seq(Pos) /\ queue[s] \in Seq(Pos)
  BY DEF TypeOK, Pos
<1>2. QED BY <1>1, PrefixOfConcat DEF View

LEMMA DeliverFacts ==
  ASSUME IInv, Deliver
  PROVE  /\ pc = "sink" /\ pc' = "drain"
         /\ Len(sinkLog) \in Pos /\ Len(log) \in Nat /\ Len(sinkLog) <= Len(log)
         /\ Delivered \in Nat /\ Len(sinkLog) = Delivered + 1 /\ Delivered' = Len(sinkLog)
         /\ Current \in Event
         /\ subscriptions' = {s \in subscriptions :
                                Got(s) # "detached" /\ Current.type # "completed"}
         /\ \A s \in Subs :
              /\ phase'[s] = IF Got(s) = "detached" THEN "discarded"
                             ELSE IF Current.type = "completed" /\ s \in subscriptions
                                  THEN "completed" ELSE phase[s]
              /\ waiting'[s] => waiting[s] /\ phase'[s] = phase[s]
              /\ dropReported'[s] = (dropReported[s] \/ Got(s) = "progress-dropped")
              /\ skipped'[s] = IF Got(s) \in {"dropped", "progress-dropped"}
                               THEN skipped[s] \cup {Len(sinkLog)} ELSE skipped[s]
         /\ UNCHANGED <<accepting, completionStatus, sinkLog, joined, since, readAt>>
<1>1. pc = "sink" /\ Len(sinkLog) \in Nat /\ Len(sinkLog) > 0
  BY DEF Deliver, IInv, TypeOK, SinkHasEvent
<1>2. Len(sinkLog) \in Pos /\ sinkLog[Len(sinkLog)] = Len(sinkLog)
  <2>1. \A i \in 1..Len(sinkLog) : sinkLog[i] = i
    BY DEF IInv, InOrder
  <2> QED  BY <1>1, <2>1 DEF Pos
<1>3. Len(log) \in Nat /\ Len(sinkLog) <= Len(log)
  <2>1. Len(log) \in Nat /\ Len(pending) \in Nat /\ Len(sinkLog) + Len(pending) = Len(log)
    BY DEF IInv, TypeOK, InOrder
  <2>2. QED BY <1>1, <2>1
<1>4. Current \in Event
  BY <1>1, <1>3, ElementOfSeq DEF IInv, TypeOK, Current
<1>5. sinkLog' = sinkLog /\ pc' = "drain"
  BY DEF Deliver
<1>6. Delivered \in Nat /\ Len(sinkLog) = Delivered + 1 /\ Delivered' = Len(sinkLog)
  BY <1>1, <1>5 DEF Delivered
<1>7. \A s \in Subs :
        /\ phase'[s] = IF Got(s) = "detached" THEN "discarded"
                       ELSE IF Current.type = "completed" /\ s \in subscriptions
                            THEN "completed" ELSE phase[s]
        /\ waiting'[s] => waiting[s] /\ phase'[s] = phase[s]
        /\ dropReported'[s] = (dropReported[s] \/ Got(s) = "progress-dropped")
        /\ skipped'[s] = IF Got(s) \in {"dropped", "progress-dropped"}
                         THEN skipped[s] \cup {Len(sinkLog)} ELSE skipped[s]
  BY <1>2 DEF Deliver, Got, Current
<1>8. subscriptions' = {s \in subscriptions : Got(s) # "detached" /\ Current.type # "completed"}
  BY <1>2 DEF Deliver, Got, Current
<1>9. QED BY <1>1, <1>2, <1>3, <1>4, <1>5, <1>6, <1>7, <1>8 DEF Deliver

LEMMA DeliverOutcomes ==
  ASSUME IInv, Phases, Deliver, NEW s \in subscriptions
  PROVE  /\ s \in Subs
         /\ Got(s) \in {"none", "handed-over", "queued", "detached", "dropped", "progress-dropped"}
         /\ Got(s) = "none" <=> Current.observer = ObserverOf[s]
         /\ Got(s) = "handed-over" => waiting[s]
         /\ Got(s) = "detached" => Critical(Current)
         /\ Got(s) \in {"dropped", "progress-dropped"} => ~Critical(Current)
         /\ Got(s) = "dropped" => dropReported[s]
         /\ Got(s) = "progress-dropped" => ~dropReported[s]
<1>1. s \in Subs /\ phase[s] = "open"
  BY DEF IInv, TypeOK, Phases
<1>2. QED BY <1>1 DEF Got, Outcome, Excluded

LEMMA DeliverReports ==
  ASSUME IInv, Phases, Deliver
  PROVE  /\ LogKept
         /\ \A s \in Unable : \E i \in Len(log) + 1 .. Len(log') : log'[i] = About(Got(s), s)
         /\ \A i \in Len(log) + 1 .. Len(log') : \E s \in Unable : log'[i] = About(Got(s), s)
         /\ \A s \in Unable : \A i, j \in Len(log) + 1 .. Len(log') :
              log'[i] = About(Got(s), s) /\ log'[j] = About(Got(s), s) => i = j
<1> DEFINE kind == [s \in Unable |-> Got(s)]
           n == Cardinality(Unable)
<1>1. sinkLog[Len(sinkLog)] = Len(sinkLog)
  BY DeliverFacts DEF IInv, InOrder, Pos
<1>2. PICK order \in InsertionOrders(Unable) :
        Stamp([i \in 1..n |-> About(Got(order[i]), order[i])])
  BY <1>1 DEF Deliver, Unable, Got, Current
<1> DEFINE es == [i \in 1..n |-> About(Got(order[i]), order[i])]
<1>3. Unable \in SUBSET Subs /\ kind \in [Unable -> EventTypes]
  BY DEF Unable, IInv, TypeOK, EventTypes
<1>4. n \in Nat /\ \A i \in 1..n : order[i] \in Unable
  BY <1>2, <1>3, OrderNamesAll DEF IInv
<1>5. \A i \in 1..n : es[i] = About(kind[order[i]], order[i])
  BY <1>4
<1>6. \A i \in 1..n : \E type \in EventTypes : es[i] = About(type, order[i])
  BY <1>3, <1>4, <1>5
<1>7. DOMAIN es = 1..n /\ es = [i \in 1..n |-> es[i]]
  OBVIOUS
<1>8. \A s \in Unable : kind[s] = Got(s)
  OBVIOUS
<1>9. Stamp(es)
  BY <1>2
<1> HIDE DEF es, kind
<1>10. es \in Seq(Event) /\ Len(es) = n
  BY <1>2, <1>3, <1>6, <1>7, ReportsAreEvents
<1>11. LogKept /\ Len(log') = Len(log) + n
  BY <1>9, <1>10, StampFacts DEF IInv
<1>12. ReportsOf(Unable, kind, Len(log), Len(log'))
  BY <1>2, <1>3, <1>4, <1>5, <1>9, <1>10, <1>11, ReportsNameAll DEF IInv
<1>13. \A s, t \in Unable : ObserverOf[t] = ObserverOf[s] => t = s
  BY DEF Phases, Unable
<1>14. \A s \in Unable : \E i \in Len(log) + 1 .. Len(log') : log'[i] = About(Got(s), s)
  BY <1>8, <1>12 DEF ReportsOf
<1>15. \A i \in Len(log) + 1 .. Len(log') : \E s \in Unable : log'[i] = About(Got(s), s)
  BY <1>8, <1>12 DEF ReportsOf
<1>16. ASSUME NEW s \in Unable, NEW i \in Len(log) + 1 .. Len(log'), NEW j \in Len(log) + 1 .. Len(log'),
              log'[i] = About(Got(s), s), log'[j] = About(Got(s), s)
       PROVE  i = j
  <2>1. log'[i] = About(kind[s], s) /\ log'[j] = About(kind[s], s)
    BY <1>8, <1>16
  <2>2. \A t \in Unable : ObserverOf[t] = ObserverOf[s] => t = s
    BY <1>13
  <2>3. (\A t \in Unable : ObserverOf[t] = ObserverOf[s] => t = s)
          => (log'[i] = About(kind[s], s) /\ log'[j] = About(kind[s], s) => i = j)
    BY <1>12 DEF ReportsOf
  <2> QED  BY <2>1, <2>2, <2>3
<1>17. QED BY <1>11, <1>14, <1>15, <1>16

LEMMA DeliverViews ==
  ASSUME IInv, Deliver, NEW s \in Subs
  PROVE  /\ Got(s) \in {"queued", "handed-over"} => View(s)' = Append(View(s), Len(sinkLog))
         /\ Got(s) = "detached" => View(s)' = received[s]
         /\ Got(s) \notin {"queued", "handed-over", "detached"} => View(s)' = View(s)
         /\ Got(s) = "handed-over" <=> received'[s] # received[s]
         /\ Got(s) = "handed-over" => queue[s] = <<>> /\ received'[s] = View(s)'
<1> DEFINE n == Len(sinkLog)
<1>1. received[s] \in Seq(Pos) /\ queue[s] \in Seq(Pos) /\ n \in Pos
  BY ReadIsPrefix, DeliverFacts DEF IInv
<1>2. sinkLog[n] = n
  BY DeliverFacts DEF IInv, InOrder, Pos
<1>3. /\ queue'[s] = IF Got(s) = "detached" THEN <<>>
                     ELSE IF Got(s) = "queued" THEN Append(queue[s], n) ELSE queue[s]
      /\ received'[s] = IF Got(s) = "handed-over" THEN Append(received[s], n) ELSE received[s]
  BY <1>2 DEF Deliver, Got, Current
<1> HIDE DEF n
<1>4. Got(s) = "handed-over" => queue[s] = <<>>
  BY DEF IInv, WaitsOnEmpty, Got, Outcome
<1>5. Append(received[s], n) # received[s] /\ Append(received[s], n) \in Seq(Pos)
  BY <1>1, AppendProperties
<1>6. CASE Got(s) = "queued"
  <2>1. View(s)' = received[s] \o Append(queue[s], n)
    BY <1>3, <1>6 DEF View
  <2>2. QED BY <2>1, <1>1, <1>3, <1>6, ConcatAppend DEF View, n
<1>7. CASE Got(s) = "handed-over"
  <2>1. View(s)' = Append(received[s], n) \o <<>> /\ View(s) = received[s] \o <<>>
    BY <1>3, <1>4, <1>7 DEF View
  <2>2. View(s)' = Append(received[s], n) /\ View(s) = received[s]
    BY <2>1, <1>1, <1>5, ConcatEmptySeq
  <2>3. QED BY <2>2, <1>3, <1>4, <1>5, <1>7 DEF n
<1>8. CASE Got(s) = "detached"
  <2>1. View(s)' = received[s] \o <<>>
    BY <1>3, <1>8 DEF View
  <2>2. QED BY <2>1, <1>1, <1>3, <1>8, ConcatEmptySeq
<1>9. CASE Got(s) \notin {"queued", "handed-over", "detached"}
  BY <1>3, <1>9 DEF View
<1>10. QED BY <1>6, <1>7, <1>8, <1>9

Behind == {s \in subscriptions : ~CanAcceptCritical(s)}

LEMMA PrepareFacts ==
  ASSUME IInv, Phases, PrepareTerminal
  PROVE  /\ pc = "drain" /\ pending = <<>> /\ completionStatus /\ ~completionStatus'
         /\ Len(sinkLog) = Len(log) /\ Delivered = Len(log) /\ Delivered' = Delivered
         /\ subscriptions' = subscriptions \ Behind
         /\ \A s \in Subs :
              /\ phase'[s] = IF s \in Behind THEN "discarded" ELSE phase[s]
              /\ waiting'[s] = (waiting[s] /\ s \notin Behind)
              /\ View(s)' = IF s \in Behind THEN received[s] ELSE View(s)
         /\ UNCHANGED <<accepting, pc, sinkLog, joined, dropReported, received, since, readAt,
                        skipped>>
         /\ LogKept /\ Len(log') > Len(log)
         /\ log'[Len(log')] = Plain("completed")
         /\ \A i \in Len(log) + 1 .. Len(log') - 1 :
              \E s \in Behind : log'[i] = About("detached", s)
         /\ \A s \in Behind :
              \E i \in Len(log) + 1 .. Len(log') - 1 : log'[i] = About("detached", s)
<1> DEFINE n == Cardinality(Behind)
           kind == [s \in Behind |-> "detached"]
<1>1. /\ pc = "drain" /\ pending = <<>> /\ completionStatus /\ completionStatus' = FALSE
      /\ subscriptions' = subscriptions \ Behind
      /\ UNCHANGED <<accepting, pc, sinkLog, joined, dropReported, received, since, readAt,
                     skipped>>
      /\ \A s \in Subs :
           /\ phase'[s] = IF s \in Behind THEN "discarded" ELSE phase[s]
           /\ queue'[s] = IF s \in Behind THEN <<>> ELSE queue[s]
           /\ waiting'[s] = (waiting[s] /\ s \notin Behind)
  BY DEF PrepareTerminal, Behind
<1>2. Len(sinkLog) = Len(log) /\ Delivered = Len(log) /\ Delivered' = Delivered
  <2>1. Len(pending) = 0 /\ Len(sinkLog) \in Nat
    BY <1>1 DEF IInv, TypeOK
  <2>2. Len(sinkLog) = Len(log)
    BY <2>1 DEF IInv, InOrder
  <2>3. QED BY <1>1, <2>2 DEF Delivered
<1>3. ASSUME NEW s \in Subs PROVE View(s)' = IF s \in Behind THEN received[s] ELSE View(s)
  <2>1. received[s] \o <<>> = received[s]
    BY ReadIsPrefix, ConcatEmptySeq DEF IInv
  <2>2. QED BY <1>1, <2>1 DEF View
<1>4. PICK order \in InsertionOrders(Behind) :
        Stamp(Append([i \in 1..n |-> About("detached", order[i])], Plain("completed")))
  BY DEF PrepareTerminal, Behind
<1> DEFINE reports == [i \in 1..n |-> About("detached", order[i])]
           es == Append(reports, Plain("completed"))
<1>5. Behind \in SUBSET Subs /\ kind \in [Behind -> EventTypes]
  BY DEF Behind, IInv, TypeOK, EventTypes
<1>6. n \in Nat /\ \A i \in 1..n : order[i] \in Behind
  BY <1>4, <1>5, OrderNamesAll DEF IInv
<1>7. \A i \in 1..n : \E type \in EventTypes : reports[i] = About(type, order[i])
  BY DEF EventTypes
<1>8. DOMAIN reports = 1..n /\ reports = [i \in 1..n |-> reports[i]]
  OBVIOUS
<1>9. \A i \in 1..n : reports[i] = About(kind[order[i]], order[i])
  BY <1>6
<1>10. \A s \in Behind : kind[s] = "detached"
  OBVIOUS
<1>11. Stamp(es)
  BY <1>4
<1> HIDE DEF reports, kind
<1>12. reports \in Seq(Event) /\ Len(reports) = n
  BY <1>4, <1>5, <1>7, <1>8, ReportsAreEvents
<1>13. Plain("completed") \in Event
  BY DEF Plain, Event, EventTypes
<1>14. /\ es \in Seq(Event) /\ Len(es) = n + 1 /\ es[n + 1] = Plain("completed")
       /\ \A i \in 1..n : es[i] = reports[i]
  BY <1>12, <1>13, AppendProperties
<1> HIDE DEF es
<1>15. LogKept /\ Len(log') = Len(log) + (n + 1) /\ log'[Len(log) + (n + 1)] = Plain("completed")
  <2>1. n + 1 \in 1..Len(es)
    BY <1>6, <1>14
  <2>2. QED BY <1>11, <1>14, <2>1, StampFacts DEF IInv
<1>16. Len(log') = (Len(log) + n) + 1 /\ Len(log) + n = Len(log') - 1 /\ Len(log') > Len(log)
  BY <1>6, <1>15 DEF LogKept
<1>17. ReportsOf(Behind, kind, Len(log), Len(log) + n)
  <2>1. \A i \in 1..n : es[i] = About(kind[order[i]], order[i])
    BY <1>9, <1>14
  <2>2. Len(es) >= n
    BY <1>6, <1>14
  <2>3. QED BY <1>4, <1>5, <1>11, <1>14, <2>1, <2>2, ReportsNameAll DEF IInv
<1>18. log'[Len(log')] = Plain("completed")
  BY <1>6, <1>15, <1>16 DEF LogKept
<1>19. /\ \A i \in Len(log) + 1 .. Len(log') - 1 :
            \E s \in Behind : log'[i] = About("detached", s)
       /\ \A s \in Behind :
            \E i \in Len(log) + 1 .. Len(log') - 1 : log'[i] = About("detached", s)
  BY <1>10, <1>16, <1>17 DEF ReportsOf
<1>20. QED BY <1>1, <1>2, <1>3, <1>15, <1>16, <1>18, <1>19

-----------------------------------------------------------------------------
(* One lemma per part of the invariant                                     *)

(* Actions that stamp nothing, and those that leave the subscriptions alone. *)
LEMMA QuietFacts ==
  ASSUME IInv, Complete \/ Publish \/ Rest \/ (\E s \in Subs : Subscribe(s) \/ Take(s)
                                                               \/ Await(s) \/ Return(s))
  PROVE  LogSame /\ Delivered' = Delivered /\ TerminalAt' = TerminalAt
<1>1. LogSame
  <2>1. Len(log) \in Nat
    BY DEF IInv, TypeOK
  <2>2. log' = log
    BY DEF Complete, Publish, Rest, Subscribe, Open, Take, Await, Return, core
  <2>3. QED BY <2>1, <2>2 DEF LogSame
<1>2. TerminalAt' = TerminalAt
  BY <1>1 DEF LogSame, TerminalAt
<1>3. CASE Publish
  <2>1. pending \in Seq(Pos) /\ pending # <<>> /\ sinkLog \in Seq(Pos)
    BY <1>3 DEF Publish, IInv, TypeOK, Pos
  <2>2. Len(sinkLog') = Len(sinkLog) + 1 /\ Len(sinkLog) \in Nat
    BY <1>3, <2>1 DEF Publish
  <2>3. QED BY <1>1, <1>2, <1>3, <2>2 DEF Publish, Delivered
<1>4. CASE Complete \/ Rest \/ \E s \in Subs : Subscribe(s) \/ Take(s) \/ Await(s) \/ Return(s)
  <2>1. Delivered' = Delivered
    BY <1>4 DEF Delivered, Complete, EnterDrain, Rest, Subscribe, Open, Take, Await, Return, core
  <2>2. QED BY <1>1, <1>2, <2>1
<1>5. QED BY <1>3, <1>4

LEMMA EmitFacts ==
  ASSUME IInv, NEW type \in {"progress", "critical"}, Emit(type)
  PROVE  /\ LogKept /\ Len(log') = Len(log) + 1 /\ log'[Len(log')] = Plain(type)
         /\ Delivered' = Delivered /\ accepting
         /\ UNCHANGED <<accepting, completionStatus, sinkLog, attached, buffers>>
<1>1. <<Plain(type)>> \in Seq(Event) /\ Len(<<Plain(type)>>) = 1 /\ <<Plain(type)>>[1] = Plain(type)
  BY DEF Plain, Event, EventTypes
<1>2. Stamp(<<Plain(type)>>)
  BY DEF Emit
<1>3. 1 \in 1..1
  OBVIOUS
<1>4. LogKept /\ Len(log') = Len(log) + 1 /\ log'[Len(log) + 1] = Plain(type)
  BY <1>1, <1>2, <1>3, StampFacts DEF IInv
<1>5. Delivered' = Delivered
  BY DEF Emit, EnterDrain, Delivered
<1>6. QED BY <1>4, <1>5 DEF Emit

LEMMA ViewSame ==
  ASSUME UNCHANGED buffers
  PROVE  \A s \in Subs : View(s)' = View(s)
BY DEF buffers, View

LEMMA TakeViews ==
  ASSUME IInv, NEW s \in Subs, Take(s)
  PROVE  /\ \A r \in Subs : View(r)' = View(r)
         /\ Len(received'[s]) = Len(received[s]) + 1
         /\ Len(received[s]) < Len(View(s))
         /\ \A r \in Subs : r # s => received'[r] = received[r]
<1>1. received[s] \in Seq(Pos) /\ queue[s] \in Seq(Pos) /\ queue[s] # <<>>
  BY DEF IInv, TypeOK, Pos, Take
<1>2. /\ Append(received[s], Head(queue[s])) \o Tail(queue[s]) = View(s)
      /\ Head(queue[s]) \in Pos
  BY <1>1, MoveHead DEF View
<1>3. \A r \in Subs : View(r)' = View(r)
  BY <1>2 DEF Take, View, IInv, TypeOK
<1>4. received'[s] = Append(received[s], Head(queue[s]))
  BY DEF Take, IInv, TypeOK
<1>5. Len(received'[s]) = Len(received[s]) + 1
  BY <1>1, <1>2, <1>4, AppendProperties
<1>6. Len(received[s]) < Len(View(s))
  BY <1>1, ReadIsPrefix DEF IInv
<1>7. QED BY <1>3, <1>5, <1>6 DEF Take, IInv, TypeOK

LEMMA ReturnViews ==
  ASSUME IInv, NEW s \in Subs, Return(s)
  PROVE  /\ View(s)' = received[s]
         /\ \A r \in Subs : r # s => View(r)' = View(r)
<1>1. received[s] \o <<>> = received[s]
  BY ReadIsPrefix, ConcatEmptySeq DEF IInv
<1>2. QED BY <1>1 DEF Return, View, IInv, TypeOK

LEMMA PhasesStep == ASSUME IInv, Phases, Next PROVE Phases'
<1>1. CASE Complete \/ Publish \/ Rest \/ \E type \in {"progress", "critical"} : Emit(type)
  BY <1>1 DEF Phases, Complete, Publish, Rest, Emit, attached, buffers
<1>2. ASSUME NEW s \in Subs, Subscribe(s) PROVE Phases'
  BY <1>2 DEF Phases, Subscribe, Open, IInv, TypeOK
<1>3. ASSUME NEW s \in Subs, Take(s) PROVE Phases'
  BY <1>3 DEF Phases, Take, attached, IInv, TypeOK
<1>4. ASSUME NEW s \in Subs, Await(s) PROVE Phases'
  BY <1>4 DEF Phases, Await, attached, IInv, TypeOK
<1>5. ASSUME NEW s \in Subs, Return(s) PROVE Phases'
  BY <1>5 DEF Phases, Return, IInv, TypeOK
<1>6. CASE Deliver
  <2>1. ASSUME NEW s \in Subs
        PROVE  /\ s \in subscriptions' <=> phase'[s] = "open"
               /\ waiting'[s] => phase'[s] = "open"
    <3>1. s \notin subscriptions => Got(s) = "none"
      BY DEF Got
    <3>2. QED BY <3>1, <1>6, DeliverFacts DEF Phases
  <2>2. ASSUME NEW s \in Subs, phase'[s] = "new"
        PROVE  /\ received'[s] = <<>> /\ queue'[s] = <<>>
               /\ ~dropReported'[s] /\ skipped'[s] = {}
    <3>1. phase[s] = "new" /\ Got(s) = "none"
      <4>1. phase[s] = "new"
        BY <2>2, <1>6, DeliverFacts
      <4>2. QED BY <4>1 DEF Phases, Got
    <3>2. sinkLog[Len(sinkLog)] = Len(sinkLog)
      BY <1>6, DeliverFacts DEF IInv, InOrder, Pos
    <3>3. received'[s] = received[s] /\ queue'[s] = queue[s]
      BY <1>6, <3>1, <3>2 DEF Deliver, Got, Current
    <3>4. QED BY <3>1, <3>3, <1>6, DeliverFacts DEF Phases
  <2>3. subscriptions' \subseteq subscriptions
    BY <1>6, DeliverFacts
  <2>4. QED BY <2>1, <2>2, <2>3 DEF Phases
<1>7. CASE PrepareTerminal
  <2>1. Behind \subseteq subscriptions
    BY DEF Behind
  <2>2. \A s \in Subs : queue'[s] = queue[s] \/ s \in Behind
    BY <1>7 DEF PrepareTerminal, Behind
  <2>3. /\ subscriptions' = subscriptions \ Behind
        /\ \A s \in Subs : /\ phase'[s] = IF s \in Behind THEN "discarded" ELSE phase[s]
                           /\ waiting'[s] = (waiting[s] /\ s \notin Behind)
        /\ UNCHANGED <<received, dropReported, skipped>>
    BY <1>7, PrepareFacts
  <2>4. \A s \in Subs : /\ s \in subscriptions' <=> phase'[s] = "open"
                        /\ waiting'[s] => phase'[s] = "open"
    BY <2>1, <2>3 DEF Phases
  <2>5. \A s \in Subs : phase'[s] = "new" =>
          /\ received'[s] = <<>> /\ queue'[s] = <<>>
          /\ ~dropReported'[s] /\ skipped'[s] = {}
    BY <2>2, <2>3 DEF Phases
  <2>6. \A s, t \in subscriptions' : ObserverOf[s] = ObserverOf[t] => s = t
    BY <2>3 DEF Phases
  <2>7. QED BY <2>4, <2>5, <2>6 DEF Phases
<1>8. QED BY <1>1, <1>2, <1>3, <1>4, <1>5, <1>6, <1>7 DEF Next

LEMMA TerminalGrows ==
  ASSUME LogKept
  PROVE  TerminalAt' = TerminalAt \cup {i \in Len(log) + 1 .. Len(log') : log'[i].type = "completed"}
<1>1. \A i : i \in 1..Len(log') <=> i \in 1..Len(log) \/ i \in Len(log) + 1 .. Len(log')
  BY DEF LogKept
<1>2. QED BY <1>1 DEF LogKept, TerminalAt

LEMMA ReadUpTo ==
  ASSUME IInv, NEW s \in Subs, NEW t, \A i \in 1..Len(View(s)) : View(s)[i] <= t
  PROVE  \A i \in 1..Len(received[s]) : received[s][i] <= t
<1>1. 1..Len(received[s]) \subseteq 1..Len(View(s))
  BY ReadIsPrefix DEF IInv
<1>2. QED BY <1>1, ReadIsPrefix DEF IInv

LEMMA EmitCloses ==
  ASSUME IInv, Closing, NEW type \in {"progress", "critical"}, Emit(type)
  PROVE  Closing'
<1>1. pc' # "idle"
  BY DEF Emit, EnterDrain
<1>2. TerminalAt = {} /\ accepting' = accepting /\ accepting /\ phase' = phase
  BY EmitFacts DEF Closing, buffers
<1>3. Len(log) \in Nat /\ Len(log') = Len(log) + 1 /\ log'[Len(log')] = Plain(type) /\ LogKept
  BY EmitFacts DEF LogKept
<1>4. \A i \in Len(log) + 1 .. Len(log') : log'[i].type # "completed"
  <2>1. \A i \in Len(log) + 1 .. Len(log') : i = Len(log')
    BY <1>3
  <2>2. QED BY <2>1, <1>3 DEF Plain
<1>5. TerminalAt' = {}
  BY <1>2, <1>3, <1>4, TerminalGrows
<1>6. ~completionStatus'
  BY EmitFacts, <1>2 DEF Closing
<1>7. QED BY <1>1, <1>2, <1>5, <1>6 DEF Closing

LEMMA QuietCloses ==
  ASSUME IInv, Phases, Closing,
         Complete \/ Publish \/ Rest \/ (\E s \in Subs : Subscribe(s) \/ Take(s)
                                                         \/ Await(s) \/ Return(s))
  PROVE  Closing'
<1>1. log' = log /\ Delivered' = Delivered /\ TerminalAt' = TerminalAt
  BY QuietFacts DEF LogSame
<1>2. CASE Complete
  <2>1. pc' # "idle" /\ accepting /\ ~accepting' /\ completionStatus' /\ UNCHANGED buffers
    BY <1>2 DEF Complete, EnterDrain
  <2>2. QED BY <1>1, <2>1 DEF Closing, buffers
<1>3. CASE Publish
  <2>1. pc' = "sink" /\ UNCHANGED <<accepting, completionStatus, attached, buffers>>
    BY <1>3 DEF Publish
  <2>2. QED BY <1>1, <2>1, ViewSame DEF Closing, attached, buffers
<1>4. CASE Rest
  <2>1. /\ pending = <<>> /\ ~completionStatus
        /\ UNCHANGED <<accepting, completionStatus, pending, attached, buffers>>
    BY <1>4 DEF Rest
  <2>2. QED BY <1>1, <2>1, ViewSame DEF Closing, attached, buffers
<1>5. ASSUME NEW s \in Subs, Subscribe(s) PROVE Closing'
  <2>1. /\ accepting /\ UNCHANGED <<accepting, completionStatus, pc, pending>>
        /\ \A r \in Subs : phase'[r] = "completed" => phase[r] = "completed"
    BY <1>5 DEF Subscribe, Open, core, IInv, TypeOK
  <2>2. TerminalAt = {}
    BY <2>1 DEF Closing
  <2>3. QED BY <1>1, <2>1, <2>2 DEF Closing
<1>6. ASSUME NEW s \in Subs, Take(s) PROVE Closing'
  <2>1. UNCHANGED <<accepting, completionStatus, pc, pending, subscriptions, phase>>
    BY <1>6 DEF Take, core, attached
  <2>2. QED BY <1>1, <1>6, <2>1, TakeViews DEF Closing
<1>7. ASSUME NEW s \in Subs, Await(s) PROVE Closing'
  <2>1. UNCHANGED <<accepting, completionStatus, pc, pending, subscriptions, phase>>
        /\ \A r \in Subs : View(r)' = View(r)
    BY <1>7 DEF Await, core, attached, View
  <2>2. QED BY <1>1, <1>7, <2>1 DEF Closing
<1>8. ASSUME NEW s \in Subs, Return(s) PROVE Closing'
  <2>1. /\ UNCHANGED <<accepting, completionStatus, pc, pending>>
        /\ subscriptions' \subseteq subscriptions
        /\ \A r \in Subs : phase'[r] = "completed" => phase[r] = "completed"
    BY <1>8 DEF Return, core, IInv, TypeOK
  <2>2. ASSUME NEW t \in TerminalAt, NEW r \in Subs
        PROVE  \A i \in 1..Len(View(r)') : View(r)'[i] <= t
    BY <1>8, <2>2, ReturnViews, ReadUpTo DEF Closing
  <2>3. QED BY <1>1, <2>1, <2>2 DEF Closing
<1>9. QED BY <1>2, <1>3, <1>4, <1>5, <1>6, <1>7, <1>8

LEMMA DeliverCloses == ASSUME IInv, Phases, Closing, Deliver PROVE Closing'
<1>1. LogKept /\ \A i \in Len(log) + 1 .. Len(log') : \E s \in Unable : log'[i] = About(Got(s), s)
  BY DeliverReports
<1>2. TerminalAt' = TerminalAt
  <2>1. \A i \in Len(log) + 1 .. Len(log') : log'[i].type # "completed"
    <3>1. ASSUME NEW i \in Len(log) + 1 .. Len(log') PROVE log'[i].type # "completed"
      <4>1. PICK s \in Unable : log'[i] = About(Got(s), s)
        BY <1>1
      <4>2. log'[i].type = Got(s) /\ Got(s) # "completed"
        BY <4>1 DEF Unable, About
      <4>3. QED BY <4>2
    <3>2. QED BY <3>1
  <2>2. QED BY <1>1, <2>1, TerminalGrows
<1>3. /\ Len(log) \in Nat /\ Len(log') \in Nat /\ Len(sinkLog) \in Nat /\ Len(sinkLog) <= Len(log)
      /\ Delivered \in Nat /\ Len(sinkLog) = Delivered + 1 /\ Delivered' = Len(sinkLog)
  BY <1>1, DeliverFacts DEF LogKept, Pos
<1>4. ASSUME NEW t \in TerminalAt, NEW i \in Len(log) + 1 .. Len(log')
      PROVE  log'[i].type = "detached"
  <2>1. Critical(Current)
    BY <1>3 DEF Closing, Current
  <2>2. PICK s \in Unable : log'[i] = About(Got(s), s)
    BY <1>1
  <2>3. Got(s) = "detached"
    BY <2>1, DeliverOutcomes DEF Unable
  <2>4. QED BY <2>2, <2>3 DEF About
<1>5. ASSUME NEW t \in TerminalAt
      PROVE  /\ \A i \in t + 1 .. Len(log') : log'[i].type = "detached"
             /\ \A i \in Delivered' + 1 .. Len(log') : Critical(log'[i])
             /\ t <= Delivered' => subscriptions' = {}
             /\ \A s \in Subs : \A i \in 1..Len(View(s)') : View(s)'[i] <= t
  <2>1. t \in 1..Len(log) /\ log[t].type = "completed"
    BY DEF TerminalAt
  <2>2. \A i \in t + 1 .. Len(log') : log'[i].type = "detached"
    <3>1. ASSUME NEW i \in t + 1 .. Len(log') PROVE log'[i].type = "detached"
      <4>1. CASE i <= Len(log)
        BY <4>1, <1>1, <1>3, <2>1 DEF Closing, LogKept
      <4>2. CASE i > Len(log)
        BY <4>2, <1>3, <1>4, <2>1
      <4>3. QED BY <4>1, <4>2, <1>3, <2>1
    <3>2. QED BY <3>1
  <2>3. \A i \in Delivered' + 1 .. Len(log') : Critical(log'[i])
    <3>1. ASSUME NEW i \in Delivered' + 1 .. Len(log') PROVE Critical(log'[i])
      <4>1. CASE i <= Len(log)
        BY <4>1, <1>1, <1>3 DEF Closing, LogKept
      <4>2. CASE i > Len(log)
        <5>1. log'[i].type = "detached"
          BY <4>2, <1>3, <1>4
        <5>2. QED BY <5>1 DEF Critical
      <4>3. QED BY <4>1, <4>2, <1>3
    <3>2. QED BY <3>1
  <2>4. t <= Delivered' => subscriptions' = {}
    <3>1. CASE t <= Delivered
      <4>1. subscriptions = {}
        BY <3>1 DEF Closing
      <4>2. QED BY <4>1, DeliverFacts
    <3>2. CASE t = Len(sinkLog)
      BY <3>2, <2>1, DeliverFacts DEF Current
    <3>3. QED BY <3>1, <3>2, <1>3, <2>1
  <2>5. ASSUME NEW s \in Subs PROVE \A i \in 1..Len(View(s)') : View(s)'[i] <= t
    <3>1. \A i \in 1..Len(View(s)) : View(s)[i] <= t
      BY DEF Closing
    <3>2. CASE Got(s) \in {"queued", "handed-over"}
      <4>1. subscriptions # {}
        BY <3>2 DEF Got
      <4>2. Len(sinkLog) <= t
        BY <4>1, <1>3, <2>1 DEF Closing
      <4>3. View(s)' = Append(View(s), Len(sinkLog))
        BY <3>2, DeliverViews
      <4>4. View(s) \in Seq(Pos) /\ Len(sinkLog) \in Pos
        BY ReadIsPrefix, DeliverFacts DEF IInv
      <4>5. QED BY <3>1, <4>2, <4>3, <4>4, AppendProperties
    <3>3. CASE Got(s) = "detached"
      BY <3>1, <3>3, ReadUpTo, DeliverViews
    <3>4. CASE Got(s) \notin {"queued", "handed-over", "detached"}
      BY <3>1, <3>4, DeliverViews
    <3>5. QED BY <3>2, <3>3, <3>4
  <2>6. QED BY <2>2, <2>3, <2>4, <2>5
<1>6. ASSUME NEW s \in Subs, phase'[s] = "completed"
      PROVE  \E t \in TerminalAt : t <= Delivered'
  <2>1. CASE Current.type = "completed"
    <3>1. Len(sinkLog) \in TerminalAt
      BY <1>3, <2>1 DEF TerminalAt, Current
    <3>2. QED BY <3>1, <1>3
  <2>2. CASE Current.type # "completed"
    <3>1. phase[s] = "completed"
      BY <1>6, <2>2, DeliverFacts
    <3>2. PICK t \in TerminalAt : t <= Delivered
      BY <3>1 DEF Closing
    <3>3. t \in Nat
      BY DEF TerminalAt
    <3>4. QED BY <3>2, <3>3, <1>3
  <2>3. QED BY <2>1, <2>2
<1>7. pc' # "idle" /\ UNCHANGED <<accepting, completionStatus>>
  BY DeliverFacts
<1>8. QED BY <1>2, <1>5, <1>6, <1>7 DEF Closing

LEMMA PrepareCloses ==
  ASSUME IInv, Phases, Closing, PrepareTerminal, IInv'
  PROVE  Closing'
<1>1. /\ LogKept /\ Len(log') > Len(log) /\ log'[Len(log')] = Plain("completed")
      /\ Delivered = Len(log) /\ Delivered' = Delivered
      /\ pc' # "idle" /\ ~accepting' /\ ~completionStatus'
      /\ \A s \in Subs : phase'[s] = "completed" => phase[s] = "completed"
  BY PrepareFacts DEF Closing
<1>2. \A i \in Len(log) + 1 .. Len(log') - 1 : log'[i].type = "detached"
  <2>1. ASSUME NEW i \in Len(log) + 1 .. Len(log') - 1 PROVE log'[i].type = "detached"
    <3>1. PICK s \in Behind : log'[i] = About("detached", s)
      BY PrepareFacts
    <3>2. QED BY <3>1 DEF About
  <2>2. QED BY <2>1
<1>3. Len(log) \in Nat /\ Len(log') \in Nat
  BY <1>1 DEF LogKept
<1>4. \A i \in Len(log) + 1 .. Len(log') : i # Len(log') => log'[i].type = "detached"
  BY <1>2, <1>3
<1>5. TerminalAt = {} /\ TerminalAt' = {Len(log')}
  <2>1. TerminalAt = {}
    BY PrepareFacts DEF Closing
  <2>2. {i \in Len(log) + 1 .. Len(log') : log'[i].type = "completed"} = {Len(log')}
    BY <1>1, <1>3, <1>4 DEF Plain
  <2>3. QED BY <1>1, <2>1, <2>2, TerminalGrows
<1>6. \A i \in Delivered' + 1 .. Len(log') : Critical(log'[i])
  BY <1>1, <1>3, <1>4 DEF Critical, Plain
<1>7. ASSUME NEW s \in Subs, NEW i \in 1..Len(View(s)') PROVE View(s)'[i] <= Len(log')
  <2>1. View(s)'[i] <= Delivered'
    BY DEF IInv, ViewsAscending, Ascending
  <2>2. View(s)' \in Seq(Pos)
    <3>1. received'[s] \in Seq(Pos) /\ queue'[s] \in Seq(Pos)
      BY DEF IInv, TypeOK, Pos
    <3>2. QED BY <3>1, ConcatProperties DEF View
  <2>3. View(s)'[i] \in Nat
    BY <2>2, ElementOfSeq DEF Pos
  <2>4. QED BY <2>1, <2>3, <1>1, <1>3
<1>8. \A s \in Subs : phase'[s] # "completed"
  BY <1>1, <1>5 DEF Closing
<1>9. \A i \in Len(log') + 1 .. Len(log') : FALSE
  BY <1>3
<1>10. ~(Len(log') <= Delivered')
  BY <1>1, <1>3
<1>11. QED BY <1>1, <1>5, <1>6, <1>7, <1>8, <1>9, <1>10 DEF Closing

LEMMA ClosingStep == ASSUME IInv, Phases, Closing, Next, IInv' PROVE Closing'
<1>1. ASSUME NEW type \in {"progress", "critical"}, Emit(type) PROVE Closing'
  BY <1>1, EmitCloses
<1>2. CASE Complete \/ Publish \/ Rest \/ (\E s \in Subs : Subscribe(s) \/ Take(s)
                                                           \/ Await(s) \/ Return(s))
  BY <1>2, QuietCloses
<1>3. QED BY <1>1, <1>2, DeliverCloses, PrepareCloses DEF Next

(* What a subscription was given stays with it while it is not discarded,   *)
(* whatever the step.                                                      *)
LEMMA GivenStays ==
  ASSUME NEW v \in Seq(Pos), NEW n \in Pos, NEW w, w = v \/ w = Append(v, n)
  PROVE  Elements(v) \subseteq Elements(w)
<1>1. DOMAIN v \subseteq DOMAIN w /\ \A i \in DOMAIN v : w[i] = v[i]
  BY AppendProperties
<1>2. QED BY <1>1 DEF Elements

LEMMA LastGiven ==
  ASSUME NEW v \in Seq(Pos), NEW n \in Pos
  PROVE  n \in Elements(Append(v, n))
<1>1. Len(v) + 1 \in DOMAIN Append(v, n) /\ Append(v, n)[Len(v) + 1] = n
  BY AppendProperties
<1>2. QED BY <1>1 DEF Elements

(* No step but a delivery adds to what a subscription is served.           *)
LEMMA ServedShrinks ==
  ASSUME LogKept \/ LogSame, Delivered' = Delivered, Delivered \in Nat, Delivered <= Len(log),
         NEW s \in Subs, since'[s] = since[s], phase'[s] = phase[s], NEW i \in Served(s)'
  PROVE  i \in Served(s) /\ log'[i] = log[i]
<1>1. TerminalAt \subseteq TerminalAt'
  BY TerminalGrows DEF LogSame, TerminalAt
<1>2. i \in 1..Delivered /\ since[s] < i /\ (phase[s] = "completed" => \A t \in TerminalAt : i <= t)
  BY <1>1 DEF Served
<1>3. i \in 1..Len(log)
  BY <1>2 DEF LogKept, LogSame
<1>4. QED BY <1>2, <1>3 DEF Served, LogKept, LogSame

LEMMA DeliveredInLog == ASSUME IInv PROVE Delivered \in Nat /\ Delivered <= Len(log)
<1>1. /\ Len(sinkLog) \in Nat /\ Len(pending) \in Nat /\ Len(log) \in Nat
      /\ Len(sinkLog) + Len(pending) = Len(log)
  BY DEF IInv, TypeOK, InOrder
<1>2. Delivered \in Nat /\ Delivered <= Len(sinkLog)
  BY <1>1, DeliveredIsNat DEF IInv, Typed, Delivered
<1>3. QED BY <1>1, <1>2

(* A step that delivers nothing loses nothing, as long as it leaves each    *)
(* subscription that goes on what it was given.                            *)
LEMMA NothingLostBy ==
  ASSUME IInv, NoCriticalLost, LogKept \/ LogSame, Delivered' = Delivered,
         \A s \in Subs : phase'[s] \in {"open", "completed"} =>
           \/ phase'[s] = phase[s] /\ since'[s] = since[s] /\ View(s)' = View(s)
           \/ since'[s] = Delivered
  PROVE  NoCriticalLost'
<1>1. SUFFICES ASSUME NEW s \in Subs, phase'[s] \in {"open", "completed"}, NEW i \in Served(s)',
                      Critical(log'[i]), log'[i].observer # ObserverOf[s]
               PROVE  i \in Elements(View(s)')
  BY DEF NoCriticalLost, Critical, Elements
<1>2. Delivered \in Nat /\ Delivered <= Len(log)
  BY DeliveredInLog
<1>3. CASE phase'[s] = phase[s] /\ since'[s] = since[s] /\ View(s)' = View(s)
  <2>1. i \in Served(s) /\ log'[i] = log[i]
    BY <1>2, <1>3, ServedShrinks
  <2>2. i \in Elements(View(s))
    BY <1>1, <1>3, <2>1 DEF NoCriticalLost
  <2>3. QED BY <1>3, <2>2 DEF Elements
<1>4. CASE since'[s] = Delivered
  BY <1>2, <1>4 DEF Served
<1>5. QED BY <1>1, <1>3, <1>4

LEMMA DeliverLosesNothing ==
  ASSUME IInv, Phases, Closing, NoCriticalLost, Deliver
  PROVE  NoCriticalLost'
<1>1. SUFFICES ASSUME NEW s \in Subs, phase'[s] \in {"open", "completed"}, NEW i \in Served(s)',
                      Critical(log'[i]), log'[i].observer # ObserverOf[s]
               PROVE  i \in Elements(View(s)')
  BY DEF NoCriticalLost, Critical, Elements
<1> DEFINE n == Len(sinkLog)
<1>2. /\ n \in Pos /\ Delivered \in Nat /\ n = Delivered + 1 /\ Delivered' = n
      /\ n <= Len(log) /\ Len(log) \in Nat /\ since'[s] = since[s]
  BY DeliverFacts
<1> HIDE DEF n
<1>3. LogKept /\ TerminalAt \subseteq TerminalAt'
  BY DeliverReports, TerminalGrows
<1>4. i \in 1..n /\ since[s] < i /\ (phase'[s] = "completed" => \A t \in TerminalAt : i <= t)
  BY <1>2, <1>3 DEF Served
<1>5. log'[i] = log[i]
  BY <1>2, <1>3, <1>4 DEF LogKept
<1>6. View(s) \in Seq(Pos) /\ Got(s) # "detached"
  BY <1>1, ReadIsPrefix, DeliverFacts DEF IInv
<1>7. View(s)' = View(s) \/ View(s)' = Append(View(s), n)
  BY <1>6, DeliverViews DEF n
<1>8. Elements(View(s)) \subseteq Elements(View(s)')
  BY <1>2, <1>6, <1>7, GivenStays
<1>9. CASE i < n
  <2>1. i \in 1..Delivered
    BY <1>2, <1>4, <1>9
  <2>2. phase[s] \in {"open", "completed"} /\ (phase[s] = "completed" => phase'[s] = "completed")
    BY <1>1, <1>6, DeliverFacts DEF Phases
  <2>3. i \in Served(s)
    BY <1>4, <2>1, <2>2 DEF Served
  <2>4. QED BY <1>1, <1>5, <1>8, <2>2, <2>3 DEF NoCriticalLost
<1>10. CASE i = n
  <2>1. s \in subscriptions
    <3>1. SUFFICES ASSUME s \notin subscriptions PROVE FALSE
      OBVIOUS
    <3>2. phase[s] = "completed" /\ phase'[s] = "completed"
      BY <1>1, <3>1, DeliverFacts DEF Phases, Got
    <3>3. PICK t \in TerminalAt : t <= Delivered
      BY <3>2 DEF Closing
    <3>4. t \in Nat /\ n <= t
      BY <1>4, <1>10, <3>2 DEF TerminalAt
    <3>5. QED BY <1>2, <3>3, <3>4
  <2>2. Critical(Current) /\ Current.observer # ObserverOf[s]
    BY <1>1, <1>5, <1>10 DEF Current, n
  <2>3. Got(s) \in {"handed-over", "queued"}
    BY <1>6, <2>1, <2>2, DeliverOutcomes
  <2>4. View(s)' = Append(View(s), n)
    BY <2>3, DeliverViews DEF n
  <2>5. QED BY <1>2, <1>6, <1>10, <2>4, LastGiven
<1>11. QED BY <1>2, <1>4, <1>9, <1>10

LEMMA NoCriticalLostStep ==
  ASSUME IInv, Phases, Closing, NoCriticalLost, Next
  PROVE  NoCriticalLost'
<1>1. ASSUME NEW type \in {"progress", "critical"}, Emit(type) PROVE NoCriticalLost'
  BY <1>1, EmitFacts, ViewSame, NothingLostBy DEF buffers
<1>2. CASE Complete \/ Publish \/ Rest
  <2>1. UNCHANGED buffers
    BY <1>2 DEF Complete, Publish, Rest
  <2>2. QED BY <1>2, <2>1, QuietFacts, ViewSame, NothingLostBy DEF buffers
<1>3. ASSUME NEW s \in Subs, Subscribe(s) PROVE NoCriticalLost'
  <2>1. \A r \in Subs : View(r)' = View(r)
    BY <1>3 DEF Subscribe, Open, View
  <2>2. /\ since'[s] = Delivered
        /\ \A r \in Subs : r # s => phase'[r] = phase[r] /\ since'[r] = since[r]
    BY <1>3 DEF Subscribe, Open, IInv, TypeOK
  <2>3. QED BY <1>3, <2>1, <2>2, QuietFacts, NothingLostBy
<1>4. ASSUME NEW s \in Subs, Take(s) PROVE NoCriticalLost'
  <2>1. UNCHANGED <<phase, since>>
    BY <1>4 DEF Take
  <2>2. QED BY <1>4, <2>1, QuietFacts, TakeViews, NothingLostBy
<1>5. ASSUME NEW s \in Subs, Await(s) PROVE NoCriticalLost'
  <2>1. UNCHANGED <<phase, since>> /\ \A r \in Subs : View(r)' = View(r)
    BY <1>5 DEF Await, View
  <2>2. QED BY <1>5, <2>1, QuietFacts, NothingLostBy
<1>6. ASSUME NEW s \in Subs, Return(s) PROVE NoCriticalLost'
  <2>1. /\ phase'[s] = "discarded" /\ UNCHANGED since
        /\ \A r \in Subs : r # s => phase'[r] = phase[r]
    BY <1>6 DEF Return, IInv, TypeOK
  <2>2. QED BY <1>6, <2>1, QuietFacts, ReturnViews, NothingLostBy
<1>7. CASE Deliver
  BY <1>7, DeliverLosesNothing
<1>8. CASE PrepareTerminal
  <2>1. \A s \in Subs : phase'[s] \in {"open", "completed"} =>
          phase'[s] = phase[s] /\ since'[s] = since[s] /\ View(s)' = View(s)
    BY <1>8, PrepareFacts
  <2>2. LogKept /\ Delivered' = Delivered
    BY <1>8, PrepareFacts
  <2>3. QED BY <2>1, <2>2, NothingLostBy
<1>9. QED BY <1>1, <1>2, <1>3, <1>4, <1>5, <1>6, <1>7, <1>8 DEF Next

NewReports(s) == {i \in Len(log) + 1 .. Len(log') : log'[i] = About("progress-dropped", s)}

LEMMA ReportsGrow ==
  ASSUME LogKept, NEW s \in Subs, readAt[s] \in Nat, readAt[s] <= Len(log), readAt'[s] = readAt[s]
  PROVE  /\ Reports(s)' = Reports(s) \cup NewReports(s)
         /\ readAt'[s] <= Len(log')
<1>1. \A i : i \in readAt[s] + 1 .. Len(log')
        <=> i \in readAt[s] + 1 .. Len(log) \/ i \in Len(log) + 1 .. Len(log')
  BY DEF LogKept
<1>2. \A i \in readAt[s] + 1 .. Len(log) : log'[i] = log[i]
  BY DEF LogKept
<1>3. Reports(s)' = {i \in readAt[s] + 1 .. Len(log') : log'[i] = About("progress-dropped", s)}
  BY DEF Reports, About
<1>4. QED BY <1>1, <1>2, <1>3 DEF Reports, NewReports, LogKept

(* The lag of the subscription s is what it was.                           *)
LagKept(s) ==
  readAt[s] <= Len(log) /\ IF dropReported[s]
                           THEN \E i \in Reports(s) : \A j \in Reports(s) : j = i
                           ELSE skipped[s] = {} /\ Reports(s) = {}

LEMMA UnreadStays ==
  ASSUME IInv, NEW s \in Subs, LagKept(s), LogKept \/ LogSame, readAt'[s] = readAt[s],
         dropReported'[s] = dropReported[s], skipped'[s] = skipped[s] \/ dropReported[s],
         LogKept => NewReports(s) = {}
  PROVE  LagKept(s)'
<1>1. readAt[s] \in Nat /\ readAt[s] <= Len(log)
  BY DEF IInv, TypeOK, LagKept
<1>2. Reports(s)' = Reports(s) /\ readAt'[s] <= Len(log')
  <2>1. CASE LogKept
    BY <1>1, <2>1, ReportsGrow
  <2>2. CASE LogSame
    BY <1>1, <2>2 DEF Reports, LogSame, About
  <2>3. QED BY <2>1, <2>2
<1>3. QED BY <1>2 DEF LagKept

LEMMA LaggingIsAll == Lagging <=> \A s \in subscriptions : LagKept(s)
BY DEF Lagging, LagKept

LEMMA DeliverLags ==
  ASSUME IInv, Phases, Lagging, Deliver
  PROVE  Lagging'
<1>1. SUFFICES ASSUME NEW s \in subscriptions' PROVE LagKept(s)'
  BY DEF Lagging, LagKept, Reports, About
<1>2. s \in subscriptions /\ s \in Subs /\ LagKept(s)
  BY DeliverFacts, LaggingIsAll DEF IInv, TypeOK
<1>3. /\ LogKept /\ readAt' = readAt
      /\ dropReported'[s] = (dropReported[s] \/ Got(s) = "progress-dropped")
      /\ skipped'[s] = IF Got(s) \in {"dropped", "progress-dropped"}
                       THEN skipped[s] \cup {Len(sinkLog)} ELSE skipped[s]
  BY <1>2, DeliverFacts, DeliverReports
<1>4. readAt[s] \in Nat /\ readAt[s] <= Len(log) /\ dropReported[s] \in BOOLEAN
  BY <1>2 DEF IInv, TypeOK, LagKept
<1>5. ASSUME NEW i \in NewReports(s)
      PROVE  s \in Unable /\ Got(s) = "progress-dropped" /\ log'[i] = About(Got(s), s)
  <2>1. i \in Len(log) + 1 .. Len(log') /\ log'[i] = About("progress-dropped", s)
    BY DEF NewReports
  <2>2. PICK r \in Unable : log'[i] = About(Got(r), r)
    BY <2>1, DeliverReports
  <2>3. ObserverOf[r] = ObserverOf[s] /\ Got(r) = "progress-dropped"
    BY <2>1, <2>2 DEF About
  <2>4. r = s
    BY <1>2, <2>3 DEF Phases, Unable
  <2>5. QED BY <2>2, <2>3, <2>4
<1>6. CASE Got(s) = "progress-dropped"
  <2>1. s \in Unable /\ ~dropReported[s]
    BY <1>2, <1>6, DeliverOutcomes DEF Unable
  <2>2. PICK i \in Len(log) + 1 .. Len(log') : log'[i] = About(Got(s), s)
    BY <2>1, DeliverReports
  <2>3. i \in NewReports(s)
    BY <1>6, <2>2 DEF NewReports
  <2>4. \A j \in NewReports(s) : j = i
    BY <2>1, <2>2, <1>5, DeliverReports DEF NewReports
  <2>5. Reports(s) = {} /\ Reports(s)' = Reports(s) \cup NewReports(s) /\ readAt'[s] <= Len(log')
    BY <1>2, <1>3, <1>4, <2>1, ReportsGrow DEF LagKept
  <2>6. dropReported'[s]
    BY <1>3, <1>6
  <2>7. QED BY <2>3, <2>4, <2>5, <2>6 DEF LagKept
<1>7. CASE Got(s) # "progress-dropped"
  <2>1. NewReports(s) = {}
    BY <1>5, <1>7
  <2>2. dropReported'[s] = dropReported[s]
    BY <1>3, <1>4, <1>7
  <2>3. skipped'[s] = skipped[s] \/ dropReported[s]
    BY <1>2, <1>3, <1>7, DeliverOutcomes
  <2>4. QED BY <1>2, <1>3, <2>1, <2>2, <2>3, UnreadStays
<1>8. QED BY <1>6, <1>7

LEMMA LaggingStep ==
  ASSUME IInv, Phases, Lagging, Next
  PROVE  Lagging'
<1> SUFFICES ASSUME NEW s \in subscriptions', ~Deliver PROVE LagKept(s)'
  BY DeliverLags DEF Lagging, LagKept, Reports, About
<1>0. s \in subscriptions => s \in Subs /\ LagKept(s)
  BY LaggingIsAll DEF IInv, TypeOK
<1>1. ASSUME NEW type \in {"progress", "critical"}, Emit(type) PROVE LagKept(s)'
  <2>1. LogKept /\ UNCHANGED <<attached, buffers>> /\ NewReports(s) = {}
    <3>1. LogKept /\ Len(log') = Len(log) + 1 /\ log'[Len(log')] = Plain(type)
      BY <1>1, EmitFacts
    <3>2. \A i \in Len(log) + 1 .. Len(log') : i = Len(log')
      BY <3>1 DEF LogKept
    <3>3. Plain(type) # About("progress-dropped", s)
      <4>1. s \in Subs
        BY <1>0, <1>1, EmitFacts DEF attached
      <4>2. QED BY <4>1, DispatcherAssumption DEF Plain, About
    <3>4. QED BY <3>1, <3>2, <3>3, <1>1, EmitFacts DEF NewReports
  <2>2. QED BY <1>0, <2>1, UnreadStays DEF attached, buffers
<1>2. CASE Complete \/ Publish \/ Rest
  <2>1. LogSame /\ UNCHANGED <<attached, buffers>>
    BY <1>2, QuietFacts DEF Complete, Publish, Rest
  <2>2. ~LogKept \/ NewReports(s) = {}
    BY <2>1 DEF LogSame, NewReports
  <2>3. QED BY <1>0, <2>1, <2>2, UnreadStays DEF attached, buffers
<1>3. ASSUME NEW r \in Subs, Subscribe(r) \/ Take(r) \/ Await(r) \/ Return(r) PROVE LagKept(s)'
  <2>1. LogSame /\ NewReports(s) = {}
    <3>1. LogSame
      BY <1>3, QuietFacts
    <3>2. QED BY <3>1 DEF LogSame, NewReports
  <2>2. CASE s = r /\ (Subscribe(r) \/ Take(r))
    <3>1. readAt'[s] = Len(log) /\ ~dropReported'[s] /\ skipped'[s] = {}
      BY <2>2 DEF Subscribe, Open, Take, Phases, IInv, TypeOK
    <3>2. readAt'[s] <= Len(log') /\ Reports(s)' = {}
      BY <2>1, <3>1 DEF LogSame, Reports
    <3>3. QED BY <3>1, <3>2 DEF LagKept
  <2>3. CASE ~(s = r /\ (Subscribe(r) \/ Take(r)))
    <3>1. s \in subscriptions
      BY <1>3, <2>3 DEF Subscribe, Open, Take, Await, Return, attached
    <3>2. readAt'[s] = readAt[s] /\ dropReported'[s] = dropReported[s] /\ skipped'[s] = skipped[s]
      BY <1>0, <1>3, <2>3, <3>1 DEF Subscribe, Open, Take, Await, Return, IInv, TypeOK
    <3>3. QED BY <1>0, <2>1, <3>1, <3>2, UnreadStays
  <2>4. QED BY <2>2, <2>3
<1>4. CASE PrepareTerminal
  <2>1. /\ s \in subscriptions /\ LogKept /\ UNCHANGED <<dropReported, readAt, skipped>>
    BY <1>4, PrepareFacts
  <2>2. NewReports(s) = {}
    <3>1. SUFFICES ASSUME NEW i \in Len(log) + 1 .. Len(log') PROVE log'[i].type # "progress-dropped"
      BY DEF NewReports, About
    <3>2. CASE i = Len(log')
      BY <3>2, <1>4, PrepareFacts DEF Plain
    <3>3. CASE i # Len(log')
      <4>1. i \in Len(log) + 1 .. Len(log') - 1
        BY <2>1, <3>3 DEF LogKept
      <4>2. PICK r \in Behind : log'[i] = About("detached", r)
        BY <4>1, <1>4, PrepareFacts
      <4>3. QED BY <4>2 DEF About
    <3>4. QED BY <3>2, <3>3
  <2>3. QED BY <1>0, <2>1, <2>2, UnreadStays
<1>5. QED BY <1>1, <1>2, <1>3, <1>4 DEF Next

-----------------------------------------------------------------------------
(* What is always so                                                       *)

LEMMA InitDelivery == Init => Delivery
<1> SUFFICES ASSUME Init PROVE Delivery
  OBVIOUS
<1>1. TerminalAt = {}
  BY DEF Init, TerminalAt
<1>2. Phases
  BY DEF Init, Phases
<1>3. Closing
  BY <1>1 DEF Init, Closing
<1>4. NoCriticalLost /\ Lagging
  BY DEF Init, NoCriticalLost, Lagging
<1>5. QED BY <1>2, <1>3, <1>4 DEF Delivery

LEMMA StepDelivery == IInv /\ Delivery /\ [Next]_vars /\ IInv' => Delivery'
<1> SUFFICES ASSUME IInv, Delivery, [Next]_vars, IInv' PROVE Delivery'
  OBVIOUS
<1>1. CASE Next
  BY <1>1, PhasesStep, ClosingStep, NoCriticalLostStep, LaggingStep DEF Delivery
<1>2. CASE UNCHANGED vars
  <2>1. \A s \in Subs : View(s)' = View(s) /\ Reports(s)' = Reports(s)
    BY <1>2 DEF vars, core, buffers, View, Reports, About
  <2>2. /\ UNCHANGED <<accepting, completionStatus, pc, pending, log, sinkLog, subscriptions,
                       phase, queue, waiting, dropReported, received, since, readAt, skipped>>
        /\ Delivered' = Delivered /\ TerminalAt' = TerminalAt
    BY <1>2 DEF vars, core, attached, buffers, Delivered, TerminalAt
  <2>3. Phases' /\ Closing'
    BY <2>1, <2>2 DEF Delivery, Phases, Closing
  <2>4. NoCriticalLost'
    <3>1. \A s \in Subs : Served(s)' = Served(s) /\ Elements(View(s))' = Elements(View(s))
      BY <2>1, <2>2 DEF Served, Elements
    <3>2. QED BY <2>2, <3>1 DEF Delivery, NoCriticalLost
  <2>5. Lagging'
    BY <2>1, <2>2 DEF Delivery, Lagging, IInv, TypeOK
  <2>6. QED BY <2>3, <2>4, <2>5 DEF Delivery
<1>3. QED BY <1>1, <1>2

LEMMA AlwaysDelivery == Spec => [](IInv /\ Delivery)
<1>1. QED BY InitIInv, StepIInv, InitDelivery, StepDelivery, PTL DEF Spec

(* A critical Event is lost only with the subscription, whatever capacities *)
(* it and the others have and however slowly they read.                    *)
THEOREM NothingCriticalIsLost == Spec => []NoCriticalLost
<1>1. Delivery => NoCriticalLost
  BY DEF Delivery
<1>2. QED BY <1>1, AlwaysDelivery, PTL

(* However many progress Events are lost between two reads, the loss is     *)
(* reported, and reported once.                                            *)
THEOREM LagIsReportedOnce == Spec => []LagReportedOnce
<1>1. Delivery => LagReportedOnce
  BY DEF Delivery, Lagging, Reports, LagReportedOnce
<1>2. QED BY <1>1, AlwaysDelivery, PTL

(* Nobody waits on a stream that is closed or has something to read, and no *)
(* stream stays open when completion is over.                              *)
THEOREM ReadersAreReleased == Spec => []NoReaderStranded
<1>1. IInv /\ Delivery => NoReaderStranded
  <2> SUFFICES ASSUME IInv, Delivery PROVE NoReaderStranded
    OBVIOUS
  <2>1. \A s \in Subs : waiting[s] => phase[s] = "open" /\ queue[s] = <<>>
    BY DEF IInv, WaitsOnEmpty, Delivery, Phases
  <2>2. ASSUME ~accepting, pc = "idle" PROVE subscriptions = {}
    <3>1. ~completionStatus /\ pending = <<>> /\ TerminalAt # {}
      BY <2>2 DEF Delivery, Closing
    <3>2. Delivered = Len(log) /\ Len(log) \in Nat
      <4>1. Len(pending) = 0 /\ Len(sinkLog) \in Nat /\ Len(sinkLog) + Len(pending) = Len(log)
        BY <3>1 DEF IInv, TypeOK, InOrder
      <4>2. QED BY <4>1, <2>2 DEF Delivered
    <3>3. PICK t \in TerminalAt : t <= Delivered
      BY <3>1, <3>2 DEF TerminalAt
    <3>4. QED BY <3>3 DEF Delivery, Closing
  <2>3. QED BY <2>1, <2>2 DEF Delivery, Phases, NoReaderStranded
<1>2. QED BY <1>1, AlwaysDelivery, PTL

(* What follows the terminal Event are reports of detached subscriptions,   *)
(* and nobody is given anything after it.                                  *)
THEOREM TheTerminalEnds == Spec => []NothingAfterTerminal
<1>1. IInv /\ Delivery => NothingAfterTerminal
  <2> SUFFICES ASSUME IInv, Delivery, NEW t \in TerminalAt
               PROVE  /\ \A i \in t + 1 .. Len(log) : log[i].type = "detached"
                      /\ \A s \in Subs : \A i \in Elements(View(s)) : i <= t
    BY DEF NothingAfterTerminal
  <2>1. ASSUME NEW s \in Subs, NEW i \in Elements(View(s)) PROVE i <= t
    <3>1. View(s) \in Seq(Pos)
      BY ReadIsPrefix DEF IInv
    <3>2. PICK k \in 1..Len(View(s)) : View(s)[k] = i
      BY <3>1 DEF Elements
    <3>3. QED BY <3>2 DEF Delivery, Closing
  <2>2. QED BY <2>1 DEF Delivery, Closing
<1>2. QED BY <1>1, AlwaysDelivery, PTL

-----------------------------------------------------------------------------
(* The dispatcher implements the ordered broadcast                         *)

AbstractView == [s \in Subs |-> View(s)]
AbstractTaken == [s \in Subs |-> Len(received[s])]

LEMMA InitRefines == Init => Broadcast!Init
<1> SUFFICES ASSUME Init PROVE Broadcast!Init
  OBVIOUS
<1>1. \A s \in Subs : View(s) = <<>> /\ Len(received[s]) = 0
  BY DEF Init, View
<1>2. Len(sinkLog) = 0 /\ Delivered = 0 /\ log = <<>> /\ subscriptions = {}
  BY DEF Init, Delivered
<1>3. ~accepting = FALSE
  BY DEF Init
<1>4. QED BY <1>1, <1>2, <1>3 DEF Broadcast!Init

LEMMA ReadPartIsReceived ==
  ASSUME IInv, NEW s \in Subs
  PROVE  Broadcast!ReadPart(s) = received[s]
<1> DEFINE r == received[s]
           q == queue[s]
<1>1. r \in Seq(Pos) /\ q \in Seq(Pos)
  BY ReadIsPrefix DEF IInv
<1>2. Broadcast!ReadPart(s) = SubSeq(r \o q, 1, Len(r))
  BY DEF Broadcast!ReadPart, View
<1> HIDE DEF r, q
<1>3. SubSeq(r \o q, 1, Len(r)) = r
  <2>1. CASE Len(r) = 0
    <3>1. r = <<>> /\ SubSeq(r \o q, 1, Len(r)) = <<>>
      BY <1>1, <2>1, SubSeqEmpty
    <3>2. QED BY <3>1
  <2>2. CASE Len(r) # 0
    <3>1. 1 \in 1..Len(r) /\ Len(r) \in 1..Len(r)
      BY <1>1, <2>2
    <3>2. QED BY <1>1, <3>1, SubSeqOfConcat1, SubSeqFull
  <2>3. QED BY <2>1, <2>2
<1>4. QED BY <1>2, <1>3 DEF r

LEMMA ExtensionFacts == LogKept \/ LogSame => Broadcast!IsExtension(log, log')
BY DEF LogKept, LogSame, Broadcast!IsExtension

LEMMA EmitRefines ==
  ASSUME IInv, NEW type \in {"progress", "critical"}, Emit(type) PROVE Broadcast!Emit
<1>1. \A s \in Subs : View(s)' = View(s)
  BY ViewSame, EmitFacts
<1>2. UNCHANGED <<accepting, sinkLog, subscriptions, received>> /\ accepting
  BY EmitFacts DEF attached, buffers
<1>3. Broadcast!IsExtension(log, log') /\ Len(log') = Len(log) + 1 /\ Delivered' = Delivered
  BY EmitFacts, ExtensionFacts
<1>4. QED BY <1>1, <1>2, <1>3 DEF Broadcast!Emit

LEMMA CompleteRefines == ASSUME IInv, Complete PROVE Broadcast!Close
<1>1. \A s \in Subs : View(s)' = View(s)
  BY ViewSame DEF Complete
<1>2. UNCHANGED <<log, sinkLog, subscriptions, received>> /\ accepting' = FALSE
  BY DEF Complete, attached, buffers
<1>3. Delivered' = Delivered
  BY QuietFacts
<1>4. QED BY <1>1, <1>2, <1>3 DEF Broadcast!Close

LEMMA SubscribeRefines ==
  ASSUME IInv, Phases, NEW s \in Subs, Subscribe(s) PROVE Broadcast!Join(s)
<1>1. \A r \in Subs : View(r)' = View(r)
  BY DEF Subscribe, Open, View
<1>2. /\ accepting /\ s \notin subscriptions /\ subscriptions' = subscriptions \cup {s}
      /\ UNCHANGED <<accepting, log, sinkLog, received>>
  BY DEF Subscribe, Open, core, Phases
<1>3. View(s) = <<>>
  <2>1. received[s] = <<>> /\ queue[s] = <<>>
    BY DEF Subscribe, Open, Phases
  <2>2. QED BY <2>1 DEF View
<1>4. Delivered' = Delivered
  BY QuietFacts
<1>5. QED BY <1>1, <1>2, <1>3, <1>4 DEF Broadcast!Join

LEMMA TakeRefines == ASSUME IInv, NEW s \in Subs, Take(s) PROVE Broadcast!Read(s)
<1>1. UNCHANGED <<accepting, log, sinkLog, subscriptions>>
  BY DEF Take, core, attached
<1>2. Delivered' = Delivered
  BY QuietFacts
<1>3. QED BY <1>1, <1>2, TakeViews DEF Broadcast!Read

LEMMA ReturnRefines ==
  ASSUME IInv, Phases, NEW s \in Subs, Return(s) PROVE Broadcast!Leave(s)
<1>1. /\ s \in subscriptions /\ subscriptions' = subscriptions \ {s}
      /\ UNCHANGED <<accepting, log, sinkLog, received>>
  BY DEF Return, core, Phases
<1>2. Delivered' = Delivered
  BY QuietFacts
<1>3. View(s)' = Broadcast!ReadPart(s) /\ \A r \in Subs : r # s => View(r)' = View(r)
  BY ReturnViews, ReadPartIsReceived
<1> HIDE DEF View, Broadcast!ReadPart
<1>4. QED BY <1>1, <1>2, <1>3 DEF Broadcast!Leave

LEMMA PublishRefines == ASSUME IInv, Publish PROVE Broadcast!Show
<1>1. \A s \in Subs : View(s)' = View(s)
  BY ViewSame DEF Publish
<1>2. UNCHANGED <<accepting, log, subscriptions, received>> /\ pc = "drain"
  BY DEF Publish, attached, buffers
<1>3. /\ Len(sinkLog) \in Nat /\ Len(pending) > 0 /\ Len(pending) \in Nat
      /\ Len(sinkLog) + Len(pending) = Len(log)
  BY DEF Publish, IInv, TypeOK, InOrder
<1>4. Len(sinkLog') = Len(sinkLog) + 1 /\ Delivered = Len(sinkLog) /\ Delivered' = Delivered
  <2>1. sinkLog \in Seq(Pos) /\ pending \in Seq(Pos) /\ pending # <<>>
    BY DEF Publish, IInv, TypeOK, Pos
  <2>2. Len(sinkLog') = Len(sinkLog) + 1
    BY <2>1 DEF Publish
  <2>3. QED BY <2>2, <1>2, QuietFacts DEF Delivered
<1>5. Len(sinkLog) < Len(log)
  BY <1>3
<1>6. QED BY <1>1, <1>2, <1>4, <1>5 DEF Broadcast!Show

LEMMA QuietRefines ==
  ASSUME IInv, Rest \/ \E s \in Subs : Await(s)
  PROVE  UNCHANGED Broadcast!vars
<1>1. UNCHANGED <<accepting, log, sinkLog, subscriptions, received, queue>>
  BY DEF Rest, Await, core, attached, buffers
<1>2. Delivered' = Delivered
  BY QuietFacts
<1>3. QED BY <1>1, <1>2 DEF Broadcast!vars, View

LEMMA PrepareRefines ==
  ASSUME IInv, Phases, Closing, PrepareTerminal PROVE Broadcast!Finish
<1>1. /\ subscriptions' = subscriptions \ Behind
      /\ \A s \in Subs : View(s)' = IF s \in Behind THEN received[s] ELSE View(s)
      /\ UNCHANGED <<accepting, sinkLog, received>> /\ completionStatus
      /\ Len(sinkLog) = Len(log) /\ Delivered = Len(log) /\ Delivered' = Delivered
      /\ LogKept /\ Len(log') > Len(log) /\ log'[Len(log')] = Plain("completed")
      /\ \A s \in Behind :
           \E i \in Len(log) + 1 .. Len(log') - 1 : log'[i] = About("detached", s)
  BY PrepareFacts
<1>2. ~accepting
  BY <1>1 DEF Closing
<1>3. Behind \in SUBSET subscriptions
  BY DEF Behind
<1>4. Broadcast!CutOff(Behind)
  <2>1. Len(log) + 1 .. Len(log') - 1 \subseteq Len(log) + 1 .. Len(log')
    BY <1>1 DEF LogKept
  <2>2. \A s \in Behind : \E i \in Len(log) + 1 .. Len(log') : log'[i] = Broadcast!Report(s)
    BY <1>1, <2>1 DEF About, Broadcast!Report
  <2>3. QED BY <1>1, <2>2, ExtensionFacts DEF Broadcast!CutOff
<1>5. AbstractView' = [s \in Subs |-> IF s \in Behind THEN Broadcast!ReadPart(s) ELSE AbstractView[s]]
  BY <1>1, ReadPartIsReceived DEF AbstractView
<1>6. AbstractTaken' = AbstractTaken
  BY <1>1 DEF AbstractTaken
<1>7. log'[Len(log')] = [type |-> "completed", observer |-> NoObserver]
  BY <1>1 DEF Plain
<1> HIDE DEF Behind
<1>8. QED BY <1>1, <1>2, <1>3, <1>4, <1>5, <1>6, <1>7
          DEF Broadcast!Finish, AbstractView, AbstractTaken

Took == {s \in subscriptions : Got(s) \in {"queued", "handed-over"}}
Handed == {s \in subscriptions : Got(s) = "handed-over"}
CutBy == {s \in subscriptions : Got(s) = "detached"}

LEMMA DeliverRefines == ASSUME IInv, Phases, Deliver PROVE Broadcast!FanOut
<1> DEFINE n == Len(sinkLog)
<1>1. /\ Delivered \in Nat /\ n = Delivered + 1 /\ Delivered' = n
      /\ UNCHANGED <<accepting, sinkLog>> /\ Delivered < n
  BY DeliverFacts
<1>2. Took \in SUBSET subscriptions /\ CutBy \in SUBSET (subscriptions \ Took)
      /\ Handed \in SUBSET Subs
  BY DEF Took, CutBy, Handed, IInv, TypeOK
<1>3. \A s \in Took \cup CutBy : log[n].observer # ObserverOf[s]
  BY DeliverOutcomes DEF Took, CutBy, Current
<1>4. \A s \in CutBy : log[n].type # "progress"
  BY DeliverOutcomes DEF CutBy, Current, Critical
<1>5. \A s \in subscriptions \ (Took \cup CutBy) : Broadcast!MaySkip(s, log[n])
  <2>1. ASSUME NEW s \in subscriptions \ (Took \cup CutBy) PROVE Broadcast!MaySkip(s, log[n])
    <3>1. Got(s) \in {"none", "dropped", "progress-dropped"}
      BY DeliverOutcomes DEF Took, CutBy
    <3>2. QED BY <3>1, DeliverOutcomes DEF Broadcast!MaySkip, Current, Critical
  <2>2. QED BY <2>1
<1>6. Broadcast!CutOff(CutBy)
  <2>1. LogKept /\ \A s \in CutBy : \E i \in Len(log) + 1 .. Len(log') : log'[i] = About("detached", s)
    <3>1. \A s \in CutBy : s \in Unable /\ Got(s) = "detached"
      BY DEF CutBy, Unable
    <3>2. QED BY <3>1, DeliverReports
  <2>2. \A s : About("detached", s) = Broadcast!Report(s)
    BY DEF About, Broadcast!Report
  <2>3. QED BY <2>1, <2>2, ExtensionFacts DEF Broadcast!CutOff
<1>7. ASSUME NEW s \in Subs
      PROVE  View(s)' = IF s \in Took THEN Append(View(s), n)
                        ELSE IF s \in CutBy THEN Broadcast!ReadPart(s) ELSE View(s)
  <2>1. Got(s) # "none" => s \in subscriptions
    BY DEF Got
  <2>2. QED BY <2>1, DeliverViews, ReadPartIsReceived DEF Took, CutBy
<1>8. subscriptions' = IF log[n].type = "completed" THEN {} ELSE subscriptions \ CutBy
  BY DeliverFacts DEF CutBy, Current
<1>9. ASSUME NEW s \in Handed
      PROVE  Len(View(s)') = Len(received[s]) + 1 /\ Len(received'[s]) = Len(received[s]) + 1
  <2>1. s \in Subs /\ s \in subscriptions /\ Got(s) = "handed-over"
    BY <1>2 DEF Handed
  <2>2. received'[s] = View(s)' /\ View(s)' = Append(View(s), n) /\ queue[s] = <<>>
    BY <2>1, DeliverViews
  <2>3. received[s] \in Seq(Pos) /\ n \in Pos
    BY <2>1, ReadIsPrefix, DeliverFacts DEF IInv
  <2>4. View(s) = received[s]
    BY <2>2, <2>3, ConcatEmptySeq DEF View
  <2>5. QED BY <2>2, <2>3, <2>4, AppendProperties
<1>10. ASSUME NEW s \in Subs, s \notin Handed PROVE received'[s] = received[s]
  BY <1>10, DeliverViews DEF Handed, Got
<1>11. AbstractView' = [s \in Subs |-> IF s \in Took THEN Append(AbstractView[s], n)
                                       ELSE IF s \in CutBy THEN Broadcast!ReadPart(s)
                                       ELSE AbstractView[s]]
  BY <1>7 DEF AbstractView
<1>12. AbstractTaken' = [s \in Subs |-> IF s \in Handed THEN AbstractTaken[s] + 1 ELSE AbstractTaken[s]]
  BY <1>2, <1>9, <1>10 DEF AbstractTaken
<1>13. \A s \in Handed : Len(AbstractView'[s]) = AbstractTaken[s] + 1
  BY <1>2, <1>9 DEF AbstractView, AbstractTaken
<1> HIDE DEF n, Took, CutBy, Handed
<1>14. \E took \in SUBSET subscriptions : \E cut \in SUBSET (subscriptions \ took) :
         /\ \A s \in took \cup cut : log[n].observer # ObserverOf[s]
         /\ \A s \in cut : log[n].type # "progress"
         /\ \A s \in subscriptions \ (took \cup cut) : Broadcast!MaySkip(s, log[n])
         /\ Broadcast!CutOff(cut)
         /\ AbstractView' = [s \in Subs |-> IF s \in took THEN Append(AbstractView[s], n)
                                            ELSE IF s \in cut THEN Broadcast!ReadPart(s)
                                            ELSE AbstractView[s]]
         /\ subscriptions' = IF log[n].type = "completed" THEN {} ELSE subscriptions \ cut
  BY <1>2, <1>3, <1>4, <1>5, <1>6, <1>8, <1>11
<1>15. \E handed \in SUBSET Subs :
         /\ \A s \in handed : Len(AbstractView'[s]) = AbstractTaken[s] + 1
         /\ AbstractTaken' = [s \in Subs |-> IF s \in handed THEN AbstractTaken[s] + 1
                                                             ELSE AbstractTaken[s]]
  BY <1>2, <1>12, <1>13
<1>16. QED BY <1>1, <1>14, <1>15 DEF Broadcast!FanOut, AbstractView, AbstractTaken, n

LEMMA StepRefines ==
  IInv /\ Delivery /\ [Next]_vars => [Broadcast!Next]_(Broadcast!vars)
<1> SUFFICES ASSUME IInv, Delivery, [Next]_vars PROVE [Broadcast!Next]_(Broadcast!vars)
  OBVIOUS
<1>1. Phases /\ Closing
  BY DEF Delivery
<1>2. ASSUME NEW type \in {"progress", "critical"}, Emit(type) PROVE Broadcast!Next
  BY <1>2, EmitRefines DEF Broadcast!Next
<1>3. CASE Complete
  BY <1>3, CompleteRefines DEF Broadcast!Next
<1>4. ASSUME NEW s \in Subs, Subscribe(s) PROVE Broadcast!Next
  BY <1>1, <1>4, SubscribeRefines DEF Broadcast!Next
<1>5. ASSUME NEW s \in Subs, Take(s) PROVE Broadcast!Next
  BY <1>5, TakeRefines DEF Broadcast!Next
<1>6. ASSUME NEW s \in Subs, Return(s) PROVE Broadcast!Next
  BY <1>1, <1>6, ReturnRefines DEF Broadcast!Next
<1>7. CASE Publish
  BY <1>7, PublishRefines DEF Broadcast!Next
<1>8. CASE Deliver
  BY <1>1, <1>8, DeliverRefines DEF Broadcast!Next
<1>9. CASE PrepareTerminal
  BY <1>1, <1>9, PrepareRefines DEF Broadcast!Next
<1>10. CASE Rest \/ \E s \in Subs : Await(s)
  BY <1>10, QuietRefines
<1>11. CASE UNCHANGED vars
  BY <1>11 DEF vars, core, attached, buffers, Broadcast!vars, View, Delivered
<1>12. QED BY <1>2, <1>3, <1>4, <1>5, <1>6, <1>7, <1>8, <1>9, <1>10, <1>11 DEF Next

(* The dispatcher, with its queues, its parked readers and its reentrant    *)
(* drain, is the ordered broadcast: each of its steps shows, fans out,      *)
(* finishes, joins, reads or leaves there, or changes nothing.             *)
THEOREM DispatcherImplementsBroadcast == Spec => ImplementsBroadcast
<1>1. Spec => Broadcast!Init /\ [][Broadcast!Next]_(Broadcast!vars)
  <2>1. Init => Broadcast!Init
    BY InitRefines
  <2>2. Spec => Init /\ [][Next]_vars
    BY DEF Spec
  <2>3. QED BY <2>1, <2>2, StepRefines, AlwaysDelivery, PTL
<1>2. QED BY <1>1 DEF ImplementsBroadcast, Broadcast!Spec

=============================================================================
