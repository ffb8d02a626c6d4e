----------------------------- MODULE FailOpenRun -----------------------------
(***************************************************************************)
(* What executing a compiled plan promises (packages/core/src/             *)
(* plugin-execution.ts), without events, phases or the order of calls: the *)
(* contributions are taken in plan order, the first one that cannot be     *)
(* taken ends the work for good, what was acquired is released last first, *)
(* and only then is there one Result, whose status says what happened.     *)
(***************************************************************************)
EXTENDS Naturals, Sequences

CONSTANTS Plans, Resources

VARIABLES
  contributions, (* how many contributions the plan has                     *)
  taken,         (* how many of them were accepted                          *)
  stopped,       (* no further contribution will be taken                   *)
  held,          (* the resources acquired and not yet released, in order   *)
  clean,         (* nothing has gone wrong                                  *)
  status         (* "none" until the Result exists                          *)

vars == <<contributions, taken, stopped, held, clean, status>>

Init ==
  /\ contributions \in {Len(p) : p \in Plans}
  /\ taken = 0
  /\ stopped = FALSE
  /\ held = <<>>
  /\ clean = TRUE
  /\ status = "none"

Acquire(r) ==
  /\ ~stopped
  /\ taken < contributions
  /\ held' = Append(held, r)
  /\ UNCHANGED <<contributions, taken, stopped, clean, status>>

Take ==
  /\ ~stopped
  /\ taken < contributions
  /\ taken' = taken + 1
  /\ UNCHANGED <<contributions, stopped, held, clean, status>>

(* Either the whole plan was taken or something went wrong.                *)
Stop ==
  /\ ~stopped
  /\ stopped' = TRUE
  /\ clean' \in {FALSE, taken = contributions}
  /\ UNCHANGED <<contributions, taken, held, status>>

Release ==
  /\ stopped
  /\ held # <<>>
  /\ held' = SubSeq(held, 1, Len(held) - 1)
  /\ clean' \in {clean, FALSE}
  /\ UNCHANGED <<contributions, taken, stopped, status>>

Return ==
  /\ stopped
  /\ held = <<>>
  /\ status = "none"
  /\ status' \in IF clean THEN {"success"} ELSE {"degraded", "cancelled"}
  /\ UNCHANGED <<contributions, taken, stopped, held, clean>>

Next == (\E r \in Resources : Acquire(r)) \/ Take \/ Stop \/ Release \/ Return

Spec == Init /\ [][Next]_vars

=============================================================================
