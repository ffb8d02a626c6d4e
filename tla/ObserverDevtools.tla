-------------------------- MODULE ObserverDevtools --------------------------
(***************************************************************************)
(* The Observer that developers attach to a Run                             *)
(* (packages/observer-devtools/src/observer.ts), on top of the dispatcher   *)
(* whose subscription `Dev' it reads.  Its loop reads an Event, retains it  *)
(* within a limit, and reads the next; a microtask runs only when no call   *)
(* of the dispatcher is on the stack, so a step of the loop waits for       *)
(* pc = "idle", while attach and detach are calls from outside.             *)
(***************************************************************************)
EXTENDS EventDispatcher

CONSTANTS
  Dev,        (* the subscription object of the devtools                   *)
  MaxEvents   (* maxEvents: how many Events they retain                    *)

ASSUME DevtoolsAssumption == Dev \in Subs /\ MaxEvents \in Nat \ {0}

VARIABLES
  loop,      (* "off", "refused" (subscribe threw), "on", or "over": done  *)
  detached,  (* detached                                                   *)
  handled,   (* how many of received[Dev] the loop has given to onEvent    *)
  events,    (* state.events: the retained positions                       *)
  endings    (* history: handled positions of a type that ends something   *)

devtools == <<loop, detached, handled, events, endings>>
allVars == <<vars, devtools>>

DevInit ==
  /\ Init
  /\ loop = "off"
  /\ detached = FALSE
  /\ handled = 0
  /\ events = <<>>
  /\ endings = {}

-----------------------------------------------------------------------------
(* onEvent                                                                 *)

Progress(n) == ~Critical(log[n])

(* isTerminalEvent looks at the type, which whoever emits an Event chooses; *)
(* the reports of the dispatcher end nothing.                              *)
IsTerminal(n) ==
  IF log[n].type \in {"progress", "critical"} THEN BOOLEAN ELSE {log[n].type = "completed"}

Splice(i, n) == [events EXCEPT ![i] = n]

FaultRetainDropsAtLimit(n, ending) ==
  IF Len(events) < MaxEvents THEN Append(events, n)
  ELSE IF \E i \in DOMAIN events : Progress(events[i])
       THEN Splice(CHOOSE i \in DOMAIN events :
              Progress(events[i]) /\ \A j \in 1..(i - 1) : ~Progress(events[j]), n)
  ELSE events

(* At the limit an ending takes the place of the oldest, anything else that *)
(* of the first progress Event, or is dropped.                             *)
Retain(n, ending) ==
  LET progress == {i \in DOMAIN events : Progress(events[i])}
      first == CHOOSE i \in progress : \A j \in progress : i <= j
  IN
  IF Len(events) < MaxEvents THEN Append(events, n)
  ELSE IF ending THEN Splice(1, n)
  ELSE IF progress # {} THEN Splice(first, n)
  ELSE events

-----------------------------------------------------------------------------
(* attachToDispatcher                                                      *)

CanSubscribe == accepting /\ \A t \in subscriptions : ObserverOf[t] # ObserverOf[Dev]

(* The loop starts inside attach(), and its first next() finds nothing.    *)
Attach ==
  /\ loop = "off"
  /\ Open(Dev)
  /\ waiting' = [waiting EXCEPT ![Dev] = TRUE]
  /\ loop' = "on"
  /\ UNCHANGED <<detached, handled, events, endings>>

(* `attached' is set before subscribe() throws: there is no second try.    *)
AttachRefused ==
  /\ Outside
  /\ loop = "off"
  /\ ~CanSubscribe
  /\ loop' = "refused"
  /\ UNCHANGED <<vars, detached, handled, events, endings>>

InHand == handled < Len(received[Dev])

(* The loop's next read: what is queued, the end, or a wait.               *)
ReadOn ==
  \/ Take(Dev) /\ UNCHANGED loop
  \/ Await(Dev) /\ UNCHANGED loop
  \/ /\ phase[Dev] # "open"
     /\ queue[Dev] = <<>>
     /\ loop' = "over"
     /\ UNCHANGED vars

HandleEvent ==
  LET n == received[Dev][handled + 1] IN
  /\ pc = "idle"
  /\ loop = "on"
  /\ InHand
  /\ ~detached
  /\ \E ending \in IsTerminal(n) :
       /\ events' = Retain(n, ending)
       /\ endings' = IF ending THEN endings \cup {n} ELSE endings
  /\ handled' = handled + 1
  /\ ReadOn
  /\ UNCHANGED detached

(* An Event was in hand when the devtools were detached: it is not handled. *)
LoopBreaks ==
  /\ pc = "idle"
  /\ loop = "on"
  /\ InHand
  /\ detached
  /\ loop' = "over"
  /\ UNCHANGED <<vars, detached, handled, events, endings>>

(* The read that was waiting is answered `done'.                           *)
LoopDone ==
  /\ pc = "idle"
  /\ loop = "on"
  /\ ~InHand
  /\ ~waiting[Dev]
  /\ loop' = "over"
  /\ UNCHANGED <<vars, detached, handled, events, endings>>

FaultDetachOnlyFlags ==
  /\ Outside
  /\ loop \in {"on", "over"}
  /\ ~detached
  /\ detached' = TRUE
  /\ UNCHANGED <<vars, loop, handled, events, endings>>

(* detach(): return() does nothing to a subscription already closed.       *)
Detach ==
  /\ Outside
  /\ loop \in {"on", "over"}
  /\ ~detached
  /\ detached' = TRUE
  /\ IF phase[Dev] = "open" THEN Return(Dev) ELSE UNCHANGED vars
  /\ UNCHANGED <<loop, handled, events, endings>>

-----------------------------------------------------------------------------
Loop == HandleEvent \/ LoopBreaks \/ LoopDone

Others ==
  \/ \E type \in {"progress", "critical"} : Emit(type)
  \/ Complete
  \/ \E s \in Subs \ {Dev} : Subscribe(s) \/ Take(s) \/ Await(s) \/ Return(s)
  \/ Drain

DevNext ==
  \/ Others /\ UNCHANGED devtools
  \/ Attach
  \/ AttachRefused
  \/ HandleEvent
  \/ LoopBreaks
  \/ LoopDone
  \/ Detach

(* Promise continuations run as soon as the stack is empty.                *)
DevSpec ==
  /\ DevInit /\ [][DevNext]_allVars
  /\ WF_allVars(Drain /\ UNCHANGED devtools)
  /\ WF_allVars(Loop)

-----------------------------------------------------------------------------
(* Properties                                                              *)

Retained == {events[i] : i \in DOMAIN events}
Handled == {received[Dev][i] : i \in 1..handled}

(* What the limit may cost (onEvent): the devtools keep as many Events as   *)
(* they may; they keep the last critical Event that ended something, so the *)
(* end of the Run once they have seen it; and a critical Event is given up  *)
(* only for a later ending, or when nothing but critical ones is retained.  *)
RetainsTheEnd ==
  /\ Retained \subseteq Handled
  /\ Len(events) = Cardinality(Retained)
  /\ Len(events) = IF handled < MaxEvents THEN handled ELSE MaxEvents
  /\ \A n \in endings :
       ~Progress(n) /\ (\A m \in endings : m <= n) => n \in Retained
  /\ \A n \in Handled \ Retained :
       Progress(n) \/ (\E m \in endings : m > n) \/ (\A m \in Retained : ~Progress(m))

(* Once the Run completes, or the devtools are detached, their loop ends,   *)
(* so detach() and `done' settle; devtools attached to the end have seen it. *)
ObservationEnds ==
  /\ CompletionIsAnnounced
  /\ (loop = "on" /\ (detached \/ ~accepting)) ~>
       (loop = "over" /\ (phase[Dev] = "completed" /\ ~detached => TerminalAt \subseteq Retained))

=============================================================================
