--------------------------- MODULE EventDispatcher ---------------------------
(***************************************************************************)
(* The Event dispatcher of one Run (packages/core/src/event-dispatcher.ts): *)
(* it stamps every Event with the next sequence number, shows it to a       *)
(* synchronous sink and then fans it out to bounded subscriptions.          *)
(*                                                                         *)
(* The runtime is single-threaded, so another actor acts only while the     *)
(* dispatcher is idle, or from inside the sink callback, which may call     *)
(* back into the dispatcher before the Event it was given has been          *)
(* delivered.  The program counter `pc' separates exactly those points:     *)
(*   "idle"   nobody is inside #drain (the code's #publishing is false);    *)
(*   "drain"  #drain is between two Events, no other code runs;             *)
(*   "sink"   #deliver has called the sink with Event `Last(sinkLog)'.      *)
(*                                                                         *)
(* An Event is its position in `log', which is its sequence number plus     *)
(* one; queues, views and the pending list hold positions.                  *)
(***************************************************************************)
EXTENDS Naturals, Sequences, FiniteSets

CONSTANTS
  Subs,         (* subscription objects that may ever be created           *)
  Observers,    (* observer ids                                            *)
  ObserverOf,   (* the observer id each subscription is opened with        *)
  Capacity,     (* the capacity each subscription is opened with           *)
  NoObserver,   (* an Event that is not about an observer                  *)
  MaxEmits      (* bound: how many Events the Run emits                    *)

ASSUME DispatcherAssumption ==
  /\ IsFiniteSet(Subs)
  /\ ObserverOf \in [Subs -> Observers]
  /\ Capacity \in [Subs -> Nat \ {0}]
  /\ NoObserver \notin Observers
  /\ MaxEmits \in Nat

VARIABLES
  accepting,        (* #accepting                                          *)
  completionStatus, (* #completionStatus is set                            *)
  pc,               (* "idle", "drain" or "sink"; #publishing = pc # idle  *)
  pending,          (* #pending: positions stamped and not yet delivered   *)
  log,              (* history: every stamped Event; #sequence = Len(log)  *)
  sinkLog,          (* history: the positions the sink was called with     *)
  subscriptions,    (* #subscriptions                                      *)
  joined,           (* its order: a JavaScript Set iterates by insertion   *)
  phase,            (* "new", "open", or how the subscription was #closed  *)
  queue,            (* #queue                                              *)
  waiting,          (* #waiting: a next() promise is unsettled             *)
  dropReported,     (* #dropReported                                       *)
  received,         (* history: the positions next() resolved with         *)
  since,            (* history: Len(sinkLog) delivered before subscribing  *)
  readAt,           (* history: Len(log) when it last read or subscribed   *)
  skipped           (* history: progress lost since that read              *)

core == <<accepting, completionStatus, pc, pending, log, sinkLog>>
attached == <<subscriptions, joined>>
buffers == <<phase, queue, waiting, dropReported, received, since, readAt, skipped>>
vars == <<core, attached, buffers>>

-----------------------------------------------------------------------------
(* Events                                                                  *)

EventTypes == {"progress", "critical", "progress-dropped", "detached", "completed"}
Event == [type : EventTypes, observer : Observers \cup {NoObserver}]

Plain(type) == [type |-> type, observer |-> NoObserver]
About(type, s) == [type |-> type, observer |-> ObserverOf[s]]

Critical(e) == e.type # "progress"
Emitted == {i \in 1..Len(log) : log[i].type \in {"progress", "critical"}}
Positions(from, n) == [i \in 1..n |-> from + i]

(* The order in which the subscriptions of S are iterated over.            *)
InsertionOrders(S) ==
  {f \in [1..Cardinality(S) -> S] :
     \A i, j \in DOMAIN f : i < j => joined[f[i]] < joined[f[j]]}

(* Definitions named Fault... are the same operation with one plausible bug; *)
(* no specification uses them, mutation runs put them in its place.          *)

FaultStampInFront(es) ==
  /\ log' = log \o es
  /\ pending' = Positions(Len(log), Len(es)) \o pending

(* #stamp followed by #pending.push for each of the Events es.             *)
Stamp(es) ==
  /\ log' = log \o es
  /\ pending' = pending \o Positions(Len(log), Len(es))

(* #drain: a nested call only leaves its Event on #pending.                *)
EnterDrain == pc' = IF pc = "idle" THEN "drain" ELSE pc

(* Where code outside the dispatcher runs.                                 *)
Outside == pc \in {"idle", "sink"}

Init ==
  /\ accepting = TRUE
  /\ completionStatus = FALSE
  /\ pc = "idle"
  /\ pending = <<>>
  /\ log = <<>>
  /\ sinkLog = <<>>
  /\ subscriptions = {}
  /\ joined = [s \in Subs |-> 0]
  /\ phase = [s \in Subs |-> "new"]
  /\ queue = [s \in Subs |-> <<>>]
  /\ waiting = [s \in Subs |-> FALSE]
  /\ dropReported = [s \in Subs |-> FALSE]
  /\ received = [s \in Subs |-> <<>>]
  /\ since = [s \in Subs |-> 0]
  /\ readAt = [s \in Subs |-> 0]
  /\ skipped = [s \in Subs |-> {}]

-----------------------------------------------------------------------------
(* Calls from outside: the Run emits, hosts subscribe, read and leave.     *)

Emit(type) ==
  /\ Outside
  /\ accepting
  /\ Cardinality(Emitted) < MaxEmits
  /\ Stamp(<<Plain(type)>>)
  /\ EnterDrain
  /\ UNCHANGED <<accepting, completionStatus, sinkLog, attached, buffers>>

FaultCompleteKeepsAccepting ==
  /\ Outside
  /\ accepting
  /\ completionStatus' = TRUE
  /\ EnterDrain
  /\ UNCHANGED <<accepting, pending, log, sinkLog, attached, buffers>>

Complete ==
  /\ Outside
  /\ accepting
  /\ accepting' = FALSE
  /\ completionStatus' = TRUE
  /\ EnterDrain
  /\ UNCHANGED <<pending, log, sinkLog, attached, buffers>>

(* The sink is called before the fan-out, so a subscription opened from    *)
(* inside it still gets the Event being delivered.                         *)
Delivered == IF pc = "sink" THEN Len(sinkLog) - 1 ELSE Len(sinkLog)

(* subscribe() up to its subscriber's first read.                          *)
Open(s) ==
  /\ Outside
  /\ accepting
  /\ phase[s] = "new"
  /\ \A t \in subscriptions : ObserverOf[t] # ObserverOf[s]
  /\ subscriptions' = subscriptions \cup {s}
  /\ joined' = [joined EXCEPT ![s] = Cardinality({t \in Subs : phase[t] # "new"})]
  /\ phase' = [phase EXCEPT ![s] = "open"]
  /\ since' = [since EXCEPT ![s] = Delivered]
  /\ readAt' = [readAt EXCEPT ![s] = Len(log)]
  /\ UNCHANGED <<core, queue, dropReported, received, skipped>>

Subscribe(s) == Open(s) /\ UNCHANGED waiting

FaultTakeKeepsDropReported(s) ==
  /\ Outside
  /\ queue[s] # <<>>
  /\ queue' = [queue EXCEPT ![s] = Tail(@)]
  /\ received' = [received EXCEPT ![s] = Append(@, Head(queue[s]))]
  /\ readAt' = [readAt EXCEPT ![s] = Len(log)]
  /\ skipped' = [skipped EXCEPT ![s] = {}]
  /\ UNCHANGED <<core, attached, phase, waiting, dropReported, since>>

(* next() when an Event is queued.  A closed subscription still drains.    *)
Take(s) ==
  /\ Outside
  /\ queue[s] # <<>>
  /\ queue' = [queue EXCEPT ![s] = Tail(@)]
  /\ received' = [received EXCEPT ![s] = Append(@, Head(queue[s]))]
  /\ dropReported' = [dropReported EXCEPT ![s] = FALSE]
  /\ readAt' = [readAt EXCEPT ![s] = Len(log)]
  /\ skipped' = [skipped EXCEPT ![s] = {}]
  /\ UNCHANGED <<core, attached, phase, waiting, since>>

FaultAwaitPastQueue(s) ==
  /\ Outside
  /\ phase[s] = "open"
  /\ ~waiting[s]
  /\ waiting' = [waiting EXCEPT ![s] = TRUE]
  /\ UNCHANGED <<core, attached, phase, queue, dropReported, received,
                 since, readAt, skipped>>

FaultAwaitAfterClose(s) ==
  /\ Outside
  /\ phase[s] # "new"
  /\ queue[s] = <<>>
  /\ ~waiting[s]
  /\ waiting' = [waiting EXCEPT ![s] = TRUE]
  /\ UNCHANGED <<core, attached, phase, queue, dropReported, received,
                 since, readAt, skipped>>

(* next() with nothing queued: the one reader waits.  A second concurrent  *)
(* reader is rejected and a closed subscription answers `done': neither    *)
(* changes the state.                                                      *)
Await(s) ==
  /\ Outside
  /\ phase[s] = "open"
  /\ queue[s] = <<>>
  /\ ~waiting[s]
  /\ waiting' = [waiting EXCEPT ![s] = TRUE]
  /\ UNCHANGED <<core, attached, phase, queue, dropReported, received,
                 since, readAt, skipped>>

FaultReturnStaysSubscribed(s) ==
  /\ Outside
  /\ phase[s] = "open"
  /\ phase' = [phase EXCEPT ![s] = "discarded"]
  /\ queue' = [queue EXCEPT ![s] = <<>>]
  /\ waiting' = [waiting EXCEPT ![s] = FALSE]
  /\ UNCHANGED <<core, attached, dropReported, received, since, readAt, skipped>>

(* return(): close, discarding the queue, and leave #subscriptions.        *)
Return(s) ==
  /\ Outside
  /\ phase[s] = "open"
  /\ phase' = [phase EXCEPT ![s] = "discarded"]
  /\ queue' = [queue EXCEPT ![s] = <<>>]
  /\ waiting' = [waiting EXCEPT ![s] = FALSE]
  /\ subscriptions' = subscriptions \ {s}
  /\ UNCHANGED <<core, joined, dropReported, received, since, readAt, skipped>>

-----------------------------------------------------------------------------
(* #drain                                                                  *)

(* Shift the next pending Event and call the sink with it.                 *)
Publish ==
  /\ pc = "drain"
  /\ pending # <<>>
  /\ pc' = "sink"
  /\ sinkLog' = Append(sinkLog, Head(pending))
  /\ pending' = Tail(pending)
  /\ UNCHANGED <<accepting, completionStatus, log, attached, buffers>>

FaultHasRoomForOneMore(s) == Len(queue[s]) <= Capacity[s]
HasRoom(s) == Len(queue[s]) < Capacity[s]

FaultOutcomeDropsCritical(s, e) ==
  IF phase[s] # "open" THEN "detached"
  ELSE IF waiting[s] THEN "handed-over"
  ELSE IF HasRoom(s) THEN "queued"
  ELSE IF dropReported[s] THEN "dropped"
  ELSE IF Critical(e) THEN "detached"
  ELSE "progress-dropped"

(* BufferedSubscription.enqueue, by the Event e it is given.               *)
Outcome(s, e) ==
  IF phase[s] # "open" THEN "detached"
  ELSE IF waiting[s] THEN "handed-over"
  ELSE IF HasRoom(s) THEN "queued"
  ELSE IF Critical(e) THEN "detached"
  ELSE IF dropReported[s] THEN "dropped"
  ELSE "progress-dropped"

Excluded(s, e) == ObserverOf[s] = e.observer

(* The sink has returned or thrown; offer the Event to every subscription  *)
(* but the one it is about, report each one that could not take it, in     *)
(* subscription order, and end every stream after the terminal Event.      *)
Deliver ==
  LET n == sinkLog[Len(sinkLog)]
      e == log[n]
      Got(s) == IF s \in subscriptions /\ ~Excluded(s, e) THEN Outcome(s, e) ELSE "none"
      Lost(s) == Got(s) = "detached"
      Ends(s) == e.type = "completed" /\ s \in subscriptions
      unable == {s \in subscriptions : Got(s) \in {"progress-dropped", "detached"}}
  IN
  /\ pc = "sink"
  /\ pc' = "drain"
  /\ \E order \in InsertionOrders(unable) :
       Stamp([i \in 1..Cardinality(unable) |-> About(Got(order[i]), order[i])])
  /\ subscriptions' = {s \in subscriptions : ~Lost(s) /\ ~Ends(s)}
  /\ phase' = [s \in Subs |-> IF Lost(s) THEN "discarded"
                              ELSE IF Ends(s) THEN "completed" ELSE phase[s]]
  /\ queue' = [s \in Subs |-> IF Lost(s) THEN <<>>
                              ELSE IF Got(s) = "queued" THEN Append(queue[s], n)
                              ELSE queue[s]]
  /\ waiting' = [s \in Subs |-> waiting[s] /\ Got(s) # "handed-over" /\ ~Lost(s) /\ ~Ends(s)]
  /\ received' = [s \in Subs |-> IF Got(s) = "handed-over" THEN Append(received[s], n)
                                 ELSE received[s]]
  /\ dropReported' = [s \in Subs |-> dropReported[s] \/ Got(s) = "progress-dropped"]
  /\ skipped' = [s \in Subs |-> IF Got(s) \in {"dropped", "progress-dropped"}
                                THEN skipped[s] \cup {n} ELSE skipped[s]]
  /\ UNCHANGED <<accepting, completionStatus, sinkLog, joined, since, readAt>>

(* canAcceptCritical                                                       *)
CanAcceptCritical(s) == waiting[s] \/ HasRoom(s)

(* Everything is delivered and completion was asked for: #prepareTerminal  *)
(* detaches each subscription with no room now, then run.completed is      *)
(* queued behind the reports.                                              *)
PrepareTerminal ==
  LET lagging == {s \in subscriptions : ~CanAcceptCritical(s)}
  IN
  /\ pc = "drain"
  /\ pending = <<>>
  /\ completionStatus
  /\ completionStatus' = FALSE
  /\ \E order \in InsertionOrders(lagging) :
       Stamp(Append([i \in 1..Cardinality(lagging) |-> About("detached", order[i])],
                    Plain("completed")))
  /\ subscriptions' = subscriptions \ lagging
  /\ phase' = [s \in Subs |-> IF s \in lagging THEN "discarded" ELSE phase[s]]
  /\ queue' = [s \in Subs |-> IF s \in lagging THEN <<>> ELSE queue[s]]
  /\ waiting' = [s \in Subs |-> waiting[s] /\ s \notin lagging]
  /\ UNCHANGED <<accepting, pc, sinkLog, joined, dropReported, received, since, readAt, skipped>>

(* Nothing pending and no completion to announce: #drain returns.          *)
Rest ==
  /\ pc = "drain"
  /\ pending = <<>>
  /\ ~completionStatus
  /\ pc' = "idle"
  /\ UNCHANGED <<accepting, completionStatus, pending, log, sinkLog, attached, buffers>>

-----------------------------------------------------------------------------
Drain == Publish \/ Deliver \/ PrepareTerminal \/ Rest

Next ==
  \/ \E type \in {"progress", "critical"} : Emit(type)
  \/ Complete
  \/ \E s \in Subs : Subscribe(s)
  \/ \E s \in Subs : Take(s)
  \/ \E s \in Subs : Await(s)
  \/ \E s \in Subs : Return(s)
  \/ Publish
  \/ Deliver
  \/ PrepareTerminal
  \/ Rest

(* #drain is synchronous, and a sink is an ordinary call that returns.     *)
Spec == Init /\ [][Next]_vars
FairSpec == Spec /\ WF_vars(Drain)

-----------------------------------------------------------------------------
(* Properties                                                              *)

(* Everything a subscription was given, read or still queued.              *)
View(s) == received[s] \o queue[s]
Elements(seq) == {seq[i] : i \in DOMAIN seq}

(* Every variable has its type, and no queue holds more than its capacity  *)
(* (BufferedSubscription's `#capacity').                                   *)
TypeOK ==
  /\ accepting \in BOOLEAN
  /\ completionStatus \in BOOLEAN
  /\ pc \in {"idle", "drain", "sink"}
  /\ pending \in Seq(Nat \ {0})
  /\ log \in Seq(Event)
  /\ sinkLog \in Seq(Nat \ {0})
  /\ subscriptions \in SUBSET Subs
  /\ joined \in [Subs -> Nat]
  /\ phase \in [Subs -> {"new", "open", "completed", "discarded"}]
  /\ queue \in [Subs -> Seq(Nat \ {0})]
  /\ waiting \in [Subs -> BOOLEAN]
  /\ dropReported \in [Subs -> BOOLEAN]
  /\ received \in [Subs -> Seq(Nat \ {0})]
  /\ since \in [Subs -> Nat]
  /\ readAt \in [Subs -> Nat]
  /\ skipped \in [Subs -> SUBSET (Nat \ {0})]
  /\ \A s \in Subs : Len(queue[s]) <= Capacity[s]

(* The sink is called with every stamped Event exactly once, in the order  *)
(* of its sequence number, whatever it emits from inside the callback.     *)
SinkSeesLogInOrder == sinkLog \o pending = Positions(0, Len(log))

(* No subscription sees an Event twice, out of order, or before the sink.  *)
ViewsInOrder ==
  \A s \in Subs :
    /\ \A i, j \in 1..Len(View(s)) : i < j => View(s)[i] < View(s)[j]
    /\ \A i \in 1..Len(View(s)) : View(s)[i] <= Delivered

(* A critical Event is lost only by losing the subscription: while it is   *)
(* attached, and to the end if it is never detached, it gets every one     *)
(* that is not the report about itself.                                    *)
TerminalAt == {i \in 1..Len(log) : log[i].type = "completed"}
Served(s) ==
  {i \in 1..Delivered : /\ since[s] < i
                        /\ phase[s] = "completed" => \A t \in TerminalAt : i <= t}
NoCriticalLost ==
  \A s \in Subs : phase[s] \in {"open", "completed"} =>
    \A i \in Served(s) :
      (Critical(log[i]) /\ log[i].observer # ObserverOf[s]) => i \in Elements(View(s))

(* However many progress Events a lagging subscription loses between two   *)
(* reads, the loss is reported, and reported once.                         *)
LagReportedOnce ==
  \A s \in subscriptions : skipped[s] # {} =>
    \E i \in readAt[s] + 1 .. Len(log) :
      /\ log[i] = About("progress-dropped", s)
      /\ \A j \in readAt[s] + 1 .. Len(log) : log[j] = log[i] => j = i

(* A reader waits only on an open, empty subscription, so whatever closes  *)
(* it settles the promise; once completion is done no stream is open.      *)
NoReaderStranded ==
  /\ \A s \in Subs : waiting[s] => phase[s] = "open" /\ queue[s] = <<>>
  /\ (~accepting /\ pc = "idle") => \A s \in Subs : phase[s] # "open"

(* At most one terminal Event; no subscription is given anything after it, *)
(* and what follows it in the log is only the report of subscriptions that *)
(* could not take it.                                                      *)
NothingAfterTerminal ==
  \A t \in TerminalAt :
    /\ \A i \in t + 1 .. Len(log) : log[i].type = "detached"
    /\ \A s \in Subs : \A i \in Elements(View(s)) : i <= t

(* events-and-diagnostics.md:31: "The terminal Run Event is always the     *)
(* final critical Event for that Run."                                     *)
TerminalIsFinalCritical == \A t \in TerminalAt : \A i \in t + 1 .. Len(log) : ~Critical(log[i])

(* complete() is never lost, whoever called it and from wherever: the sink *)
(* is shown the terminal Event and the dispatcher comes to rest.           *)
CompletionIsAnnounced ==
  ~accepting ~> (pc = "idle" /\ pending = <<>> /\ TerminalAt # {})

(* The dispatcher implements the ordered broadcast.                        *)
Broadcast == INSTANCE OrderedBroadcast WITH
  seen <- Len(sinkLog),
  fanned <- Delivered,
  live <- subscriptions,
  view <- [s \in Subs |-> View(s)],
  taken <- [s \in Subs |-> Len(received[s])],
  closed <- ~accepting
ImplementsBroadcast == Broadcast!Spec

=============================================================================
