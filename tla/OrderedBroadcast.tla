-------------------------- MODULE OrderedBroadcast --------------------------
(***************************************************************************)
(* What the Event dispatcher promises, without queues or a drain loop: one *)
(* append-only log, shown to the sink one Event at a time and then fanned   *)
(* out once to the live subscriptions.  A live subscription either takes    *)
(* the Event, or skips it because it is progress or about itself, or is     *)
(* cut off, keeps only what it has read, and is named in a report.          *)
(***************************************************************************)
EXTENDS Naturals, Sequences

CONSTANTS Subs, Observers, ObserverOf, NoObserver

VARIABLES
  log,    (* every Event, in the order of its sequence number     *)
  seen,   (* how many of them the sink was shown                  *)
  fanned, (* how many of them were offered to the subscriptions   *)
  live,   (* the subscriptions Events are offered to              *)
  view,   (* per subscription, the positions it took, in order    *)
  taken,  (* per subscription, how many of those it has read      *)
  closed  (* no subscription may join and no Event be emitted     *)

vars == <<log, seen, fanned, live, view, taken, closed>>

Init ==
  /\ log = <<>>
  /\ seen = 0
  /\ fanned = 0
  /\ live = {}
  /\ view = [s \in Subs |-> <<>>]
  /\ taken = [s \in Subs |-> 0]
  /\ closed = FALSE

Report(s) == [type |-> "detached", observer |-> ObserverOf[s]]

IsExtension(s, t) ==
  /\ Len(s) <= Len(t)
  /\ \A i \in 1..Len(s) : t[i] = s[i]

(* The subscriptions in `cut' keep what they have read, and every one of    *)
(* them is named by a report stamped in this very step.                    *)
CutOff(cut) ==
  /\ IsExtension(log, log')
  /\ \A s \in cut : \E i \in Len(log) + 1 .. Len(log') : log'[i] = Report(s)

ReadPart(s) == SubSeq(view[s], 1, taken[s])

Emit ==
  /\ ~closed
  /\ Len(log') = Len(log) + 1
  /\ IsExtension(log, log')
  /\ UNCHANGED <<seen, fanned, live, view, taken, closed>>

Close ==
  /\ closed' = TRUE
  /\ UNCHANGED <<log, seen, fanned, live, view, taken>>

Show ==
  /\ seen = fanned
  /\ seen < Len(log)
  /\ seen' = seen + 1
  /\ UNCHANGED <<log, fanned, live, view, taken, closed>>

MaySkip(s, e) == e.type = "progress" \/ e.observer = ObserverOf[s]

FanOut ==
  /\ fanned < seen
  /\ fanned' = seen
  /\ \E took \in SUBSET live : \E cut \in SUBSET (live \ took) :
       /\ \A s \in took \cup cut : log[seen].observer # ObserverOf[s]
       /\ \A s \in cut : log[seen].type # "progress"
       /\ \A s \in live \ (took \cup cut) : MaySkip(s, log[seen])
       /\ CutOff(cut)
       /\ view' = [s \in Subs |-> IF s \in took THEN Append(view[s], seen)
                                  ELSE IF s \in cut THEN ReadPart(s) ELSE view[s]]
       /\ live' = IF log[seen].type = "completed" THEN {} ELSE live \ cut
  /\ \E handed \in SUBSET Subs :
       /\ \A s \in handed : Len(view'[s]) = taken[s] + 1
       /\ taken' = [s \in Subs |-> IF s \in handed THEN taken[s] + 1 ELSE taken[s]]
  /\ UNCHANGED <<seen, closed>>

(* The terminal Event is stamped once everything else was offered, behind  *)
(* the reports of the subscriptions that have no room for it.              *)
Finish ==
  /\ closed
  /\ fanned = seen
  /\ seen = Len(log)
  /\ Len(log') > Len(log)
  /\ log'[Len(log')] = [type |-> "completed", observer |-> NoObserver]
  /\ \E cut \in SUBSET live :
       /\ CutOff(cut)
       /\ live' = live \ cut
       /\ view' = [s \in Subs |-> IF s \in cut THEN ReadPart(s) ELSE view[s]]
  /\ UNCHANGED <<seen, fanned, taken, closed>>

Join(s) ==
  /\ ~closed
  /\ s \notin live
  /\ view[s] = <<>>
  /\ live' = live \cup {s}
  /\ UNCHANGED <<log, seen, fanned, view, taken, closed>>

Read(s) ==
  /\ taken[s] < Len(view[s])
  /\ taken' = [taken EXCEPT ![s] = @ + 1]
  /\ UNCHANGED <<log, seen, fanned, live, view, closed>>

Leave(s) ==
  /\ s \in live
  /\ live' = live \ {s}
  /\ view' = [view EXCEPT ![s] = ReadPart(s)]
  /\ UNCHANGED <<log, seen, fanned, taken, closed>>

Next ==
  \/ Emit
  \/ Close
  \/ Show
  \/ FanOut
  \/ Finish
  \/ \E s \in Subs : Join(s)
  \/ \E s \in Subs : Read(s)
  \/ \E s \in Subs : Leave(s)

Spec == Init /\ [][Next]_vars

=============================================================================
