--------------------------- MODULE PluginExecution ---------------------------
(***************************************************************************)
(* One Run of a compiled Plugin graph (executePluginPlan in                 *)
(* packages/core/src/plugin-execution.ts) and the lifetime that bounds it   *)
(* (packages/core/src/run-lifetime.ts).                                     *)
(*                                                                         *)
(* The kernel is sequential; `pc' names the points where other code runs:   *)
(* inside the synchronous sink of an Event it has just emitted, or while it *)
(* awaits.  In either the caller may abort.  The timer can fire only where  *)
(* the kernel awaits a Plugin.  A step goes from one such point to the next *)
(*   "begin"      executePluginPlan has been called                         *)
(*   "loop"       awaiting a contribution that was accepted, or first       *)
(*   "phase"      in the sink of phase.completed, another phase follows     *)
(*   "contribute" in the sink of phase.started                              *)
(*   "activate"   in the sink of activation-started                         *)
(*   "activating" awaiting activate()                                       *)
(*   "activated"  in the sink of activation-completed, or it was cached     *)
(*   "invoke"     in the sink of invocation-started                         *)
(*   "invoking"   awaiting the race of the invocation and the abort         *)
(*   "settled"    in the sink of invocation-completed                       *)
(*   "failed"     executeContribution has returned false                    *)
(*   "dispose"    awaiting the disposal of Last(resources), if there is one *)
(*   "done"       the Result has been returned                              *)
(***************************************************************************)
EXTENDS Naturals, Sequences, FiniteSets, SequencesExt

CONSTANTS
  Plugins,       (* Plugin ids                                              *)
  Registered,    (* those with a registration                               *)
  Disposable,    (* those whose implementation has Symbol.asyncDispose      *)
  Phases,        (* phase names                                             *)
  Plans,         (* the contribution sequences a compiled graph may hold    *)
  Kinds,         (* Artifact kinds other than the prompt's                  *)
  ArtifactLists, (* the Artifact proposals one output may carry             *)
  Policy,        (* ArtifactExposurePolicy                                  *)
  MaxPatches,    (* bound: accepted Patches in one output                   *)
  HasTimeout     (* the Run has a timeoutMs                                 *)

Prompt == "promptiris/prompt"
NoPhase == "no-phase"
NoKind == "no-kind"
ArtifactKinds == Kinds \cup {Prompt}
Proposal == [kind : ArtifactKinds, public : BOOLEAN]
Contribution == [plugin : Plugins, phase : Phases]

ASSUME ExecutionAssumption ==
  /\ Registered \subseteq Plugins
  /\ Disposable \subseteq Plugins
  /\ NoPhase \notin Phases
  /\ Plans \subseteq Seq(Contribution)
  /\ <<>> \in Plans
  /\ Prompt \notin Kinds /\ NoKind \notin Kinds
  /\ ArtifactLists \subseteq Seq(Proposal)
  /\ Policy \in [primary : ArtifactKinds \cup {NoKind},
                 alternatives : SUBSET ArtifactKinds,
                 exposed : SUBSET ArtifactKinds]
  /\ MaxPatches \in Nat
  /\ HasTimeout \in BOOLEAN

(* A compiled graph holds the contributions of a phase together: its order   *)
(* is the phase catalog's first (PluginGraph's PlanWheneverPossible).        *)
ASSUME PlansAssumption ==
  \A p \in Plans : \A i, k \in DOMAIN p :
    p[i].phase = p[k].phase => \A j \in i..k : p[j].phase = p[i].phase

VARIABLES
  plan,            (* graph.contributions                                   *)
  compiled,        (* graph.ok                                              *)
  pc,
  index,           (* the contribution being executed, or the next one      *)
  activePhase,
  termination,     (* RunLifetime's #termination                            *)
  cancelled,       (* state.terminalStatus = 'cancelled'                    *)
  activated,       (* state.activated                                       *)
  resources,       (* state.resources: Plugins to dispose, last first       *)
  disposalFailed,  (* a disposer threw                                      *)
  running,         (* contributions whose invoke() has not settled          *)
  settlement,      (* how the race ended: "none", "output", "failure", ...  *)
  output,          (* the output it ended with                              *)
  diagnostics,     (* state.diagnostics, as codes                           *)
  artifacts,       (* state.artifacts                                       *)
  patchIds,        (* state.patchIds, as the contribution each came from    *)
  completedPhases,
  failedPhases,
  events,          (* history: everything given to context.emit             *)
  activations,     (* history: the disposable Plugins activated, in order   *)
  disposed,        (* history: the Plugins disposed, in order               *)
  inTime,          (* history: invocations settled before any termination   *)
  lateCalls,       (* history: activate() and invoke() calls made after it  *)
  result           (* the RunResult, once there is one                      *)

graph == <<plan, compiled>>
lifetime == <<termination, running, settlement, output, inTime>>
outside == <<graph, lifetime, lateCalls, result>>
position == <<index, activePhase>>
owned == <<activated, resources, disposalFailed, activations, disposed>>
document == <<artifacts, patchIds>>
summary == <<completedPhases, failedPhases>>
state == <<cancelled, diagnostics, owned, document, summary>>
vars == <<outside, pc, position, state, events>>

-----------------------------------------------------------------------------
(* What a Plugin may answer: not a PluginOutput at all, one with Artifact   *)
(* extensions outside its namespace, or `good' Patches that apply, followed *)
(* by one that does not if `rejected', and some Artifacts.                  *)
Outputs ==
  [shape : {"invalid", "foreign"}, good : {0}, rejected : {FALSE}, artifacts : {<<>>}]
    \cup
  [shape : {"valid"}, good : 0..MaxPatches, rejected : BOOLEAN, artifacts : ArtifactLists]
NoOutput == [shape |-> "invalid", good |-> 0, rejected |-> FALSE, artifacts |-> <<>>]
NoResult == [status |-> "none"]

node == plan[index]
Remaining == index <= Len(plan)
Terminated == termination # "active"

Emit(of, edge, phase, status) ==
  events' = Append(events, [of |-> of, edge |-> edge, phase |-> phase,
                            at |-> index, status |-> status])

(* markTermination: the first call only.                                   *)
MarkTermination(reason) ==
  IF cancelled THEN UNCHANGED <<cancelled, diagnostics, events>>
  ELSE /\ cancelled' = TRUE
       /\ diagnostics' = Append(diagnostics, reason)
       /\ Emit("cancellation", "started", activePhase, reason)

Diagnose(code) == diagnostics' = Append(diagnostics, code)

Init ==
  /\ plan \in Plans
  /\ compiled \in BOOLEAN
  /\ plan # <<>> => compiled
  /\ pc = "begin"
  /\ index = 1
  /\ activePhase = NoPhase
  /\ termination \in {"active", "cancelled"}   (* the parent may be aborted *)
  /\ cancelled = FALSE
  /\ activated = {}
  /\ resources = <<>>
  /\ disposalFailed = FALSE
  /\ running = {}
  /\ settlement = "none"
  /\ output = NoOutput
  /\ diagnostics = <<>>
  /\ artifacts = <<>>
  /\ patchIds = <<>>
  /\ completedPhases = <<>>
  /\ failedPhases = <<>>
  /\ events = <<>>
  /\ activations = <<>>
  /\ disposed = <<>>
  /\ inTime = {}
  /\ lateCalls = 0
  /\ result = NoResult

-----------------------------------------------------------------------------
(* executePluginPlan, up to executeNodes                                    *)

BeginCancelled ==
  /\ pc = "begin"
  /\ Terminated
  /\ MarkTermination(termination)
  /\ pc' = "dispose"
  /\ UNCHANGED <<outside, position, owned, document, summary>>

BeginUncompiled ==
  /\ pc = "begin"
  /\ ~Terminated
  /\ ~compiled
  /\ Diagnose("compile-failed")
  /\ pc' = "dispose"
  /\ UNCHANGED <<outside, position, cancelled, owned, document, summary, events>>

BeginNodes ==
  /\ pc = "begin"
  /\ ~Terminated
  /\ compiled
  /\ pc' = "loop"
  /\ UNCHANGED <<outside, position, state, events>>

-----------------------------------------------------------------------------
(* executeNodes                                                             *)

(* The phase is over: the next contribution belongs to another one, or      *)
(* there is none.                                                           *)
CompletePhase ==
  /\ pc = "loop"
  /\ activePhase # NoPhase
  /\ Remaining => node.phase # activePhase
  /\ completedPhases' = Append(completedPhases, activePhase)
  /\ Emit("phase", "completed", activePhase, "success")
  /\ pc' = IF Remaining THEN "phase" ELSE "dispose"
  /\ UNCHANGED <<outside, position, cancelled, diagnostics, owned, document, failedPhases>>

StartPhase ==
  /\ pc = "phase" \/ (pc = "loop" /\ Remaining /\ activePhase = NoPhase)
  /\ activePhase' = node.phase
  /\ Emit("phase", "started", node.phase, "none")
  /\ pc' = "contribute"
  /\ UNCHANGED <<outside, index, state>>

NothingToExecute ==
  /\ pc = "loop"
  /\ ~Remaining
  /\ activePhase = NoPhase
  /\ pc' = "dispose"
  /\ UNCHANGED <<outside, position, state, events>>

FaultAbandonPhase ==
  /\ pc = "failed"
  /\ failedPhases' = IF cancelled THEN failedPhases ELSE Append(failedPhases, activePhase)
  /\ IF cancelled THEN UNCHANGED events
     ELSE Emit("phase", "completed", activePhase, "degraded")
  /\ pc' = "dispose"
  /\ UNCHANGED <<outside, position, cancelled, diagnostics, owned, document, completedPhases>>

(* A contribution was not accepted: its phase ends degraded, and the Run's  *)
(* work ends with it.  A cancelled phase is not a failed one.               *)
AbandonPhase ==
  /\ pc = "failed"
  /\ failedPhases' = IF cancelled THEN failedPhases ELSE Append(failedPhases, activePhase)
  /\ Emit("phase", "completed", activePhase, "degraded")
  /\ pc' = "dispose"
  /\ UNCHANGED <<outside, position, cancelled, diagnostics, owned, document, completedPhases>>

-----------------------------------------------------------------------------
(* executeContribution: activatePlugin                                      *)

AtContribution ==
  pc = "contribute" \/ (pc = "loop" /\ Remaining /\ node.phase = activePhase)

FaultCached == FALSE
Cached == node.plugin \in activated
CountIfLate == lateCalls' = IF Terminated THEN lateCalls + 1 ELSE lateCalls

Reuse ==
  /\ AtContribution
  /\ ~Terminated
  /\ Cached
  /\ pc' = "activated"
  /\ UNCHANGED <<outside, position, state, events>>

StartActivation ==
  /\ AtContribution
  /\ ~Terminated
  /\ ~Cached
  /\ Emit("activation", "started", activePhase, "none")
  /\ pc' = "activate"
  /\ UNCHANGED <<outside, position, state>>

FaultFound == TRUE
Found == node.plugin \in Registered

Activate ==
  /\ pc = "activate"
  /\ Found
  /\ CountIfLate
  /\ pc' = "activating"
  /\ UNCHANGED <<graph, lifetime, result, position, state, events>>

ActivationSucceeds ==
  LET acquired == IF node.plugin \in Disposable THEN <<node.plugin>> ELSE <<>>
  IN
  /\ pc = "activating"
  /\ activated' = activated \cup {node.plugin}
  /\ activations' = activations \o acquired
  /\ resources' = resources \o acquired
  /\ Emit("activation", "completed", activePhase, "success")
  /\ pc' = "activated"
  /\ UNCHANGED <<outside, position, cancelled, diagnostics, disposalFailed, disposed,
                 document, summary>>

(* No registration, activate() threw, or it gave something that is not a    *)
(* PluginImplementation; that something is never disposed.                  *)
ActivationFails ==
  /\ pc = "activating" \/ (pc = "activate" /\ ~Found)
  /\ Emit("activation", "completed", activePhase, "failed")
  /\ Diagnose("activation-failed")
  /\ pc' = "failed"
  /\ UNCHANGED <<outside, position, cancelled, owned, document, summary>>

-----------------------------------------------------------------------------
(* invokePlugin and settleInvocation                                        *)

FaultStartInvocation ==
  /\ pc = "activated"
  /\ Emit("invocation", "started", activePhase, "none")
  /\ pc' = "invoke"
  /\ UNCHANGED <<outside, position, state>>

StartInvocation ==
  /\ pc = "activated"
  /\ ~Terminated
  /\ Emit("invocation", "started", activePhase, "none")
  /\ pc' = "invoke"
  /\ UNCHANGED <<outside, position, state>>

(* The abort listener is called at once when the signal is aborted already; *)
(* invoke() is called even then.                                            *)
FaultRace == "none"
Race == IF Terminated THEN "cancelled" ELSE "none"

Invoke ==
  /\ pc = "invoke"
  /\ running' = running \cup {index}
  /\ settlement' = Race
  /\ output' = NoOutput
  /\ CountIfLate
  /\ pc' = "invoking"
  /\ UNCHANGED <<graph, termination, inTime, result, position, state, events>>

Racing == pc = "invoking" /\ settlement = "none"
FaultWins(i) == pc = "invoking" /\ i = index
Wins(i) == Racing /\ i = index

(* invoke() settles: in time, after losing the race, during disposal or     *)
(* after the Result.                                                        *)
InvocationReturns(i, kind, o) ==
  /\ i \in running
  /\ running' = running \ {i}
  /\ settlement' = IF Wins(i) THEN kind ELSE settlement
  /\ output' = IF Wins(i) THEN o ELSE output
  /\ inTime' = IF Terminated THEN inTime ELSE inTime \cup {i}
  /\ UNCHANGED <<graph, termination, lateCalls, result, pc, position, state, events>>

Answered == settlement = "output" /\ output.shape # "invalid"

Settle ==
  /\ pc = "invoking"
  /\ settlement # "none"
  /\ Emit("invocation", "completed", activePhase, IF Answered THEN "success" ELSE "failed")
  /\ pc' = "settled"
  /\ UNCHANGED <<outside, position, state>>

-----------------------------------------------------------------------------
(* The rest of executeContribution                                          *)

FaultReason == "cancelled"
Reason == IF Terminated THEN termination ELSE "cancelled"

(* Termination is looked at before activation, before invocation, and when  *)
(* the invocation has lost the race.                                        *)
StopTerminated ==
  /\ \/ (AtContribution \/ pc = "activated") /\ Terminated
     \/ pc = "settled" /\ settlement = "cancelled"
  /\ MarkTermination(Reason)
  /\ pc' = "failed"
  /\ UNCHANGED <<outside, position, owned, document, summary>>

HandleFailure ==
  /\ pc = "settled"
  /\ settlement # "cancelled"
  /\ ~Answered
  /\ Diagnose(IF settlement = "failure" THEN "invocation-failed" ELSE "invalid-output")
  /\ pc' = "failed"
  /\ UNCHANGED <<outside, position, cancelled, owned, document, summary, events>>

(* acceptOutput.  The Patches before one that does not apply stay applied,  *)
(* and the abort signal is not looked at again.                             *)
Acceptable == output.shape = "valid" /\ ~output.rejected
Applied == [i \in 1..output.good |-> index]
FaultStamped ==
  [i \in DOMAIN output.artifacts |->
     [proposal |-> output.artifacts[i], at |-> index, patches |-> output.good]]
Stamped ==
  IF ~Acceptable THEN <<>>
  ELSE [i \in DOMAIN output.artifacts |->
          [proposal |-> output.artifacts[i], at |-> index, patches |-> output.good]]

AcceptOutput ==
  /\ pc = "settled"
  /\ Answered
  /\ patchIds' = patchIds \o Applied
  /\ artifacts' = artifacts \o Stamped
  /\ IF Acceptable
     THEN index' = index + 1 /\ pc' = "loop" /\ UNCHANGED diagnostics
     ELSE /\ Diagnose(IF output.shape = "foreign" THEN "invalid-output" ELSE "patch-rejected")
          /\ pc' = "failed"
          /\ UNCHANGED index
  /\ UNCHANGED <<outside, activePhase, cancelled, owned, summary, events>>

-----------------------------------------------------------------------------
(* disposeResources and createResult                                        *)

FaultRest(ok) == IF ok THEN Front(resources) ELSE <<>>
Rest(ok) == Front(resources)

(* AsyncDisposableStack disposes the last first, awaits each, and goes on   *)
(* when one of them throws.                                                 *)
Dispose(ok) ==
  /\ pc = "dispose"
  /\ resources # <<>>
  /\ resources' = Rest(ok)
  /\ disposed' = Append(disposed, Last(resources))
  /\ disposalFailed' = (disposalFailed \/ ~ok)
  /\ UNCHANGED <<outside, pc, position, cancelled, diagnostics, activated, activations,
                 document, summary, events>>

FaultFinalDiagnostics == diagnostics
FinalDiagnostics ==
  IF disposalFailed THEN Append(diagnostics, "internal-failure") ELSE diagnostics

Public == {i \in DOMAIN artifacts : artifacts[i].proposal.public}
FaultOfKinds(kinds) == Public
OfKinds(kinds) == {i \in Public : artifacts[i].proposal.kind \in kinds}
Fallback == 0
Primary ==
  LET S == OfKinds({Policy.primary})
  IN IF S = {} THEN Fallback ELSE CHOOSE i \in S : \A j \in S : i <= j
Transformed == patchIds # <<>>

CreateResult ==
  [status |-> IF cancelled THEN "cancelled"
              ELSE IF FinalDiagnostics = <<>> THEN "success" ELSE "degraded",
   primary |-> Primary,
   origin |-> IF Transformed \/ (Primary # Fallback
                                 /\ artifacts[Primary].proposal.kind # Prompt)
              THEN "transformed" ELSE "original",
   alternatives |-> OfKinds(Policy.alternatives) \ {Primary},
   exposed |-> OfKinds(Policy.exposed),
   completed |-> completedPhases,
   failed |-> failedPhases]

Return ==
  /\ pc = "dispose"
  /\ resources = <<>>
  /\ diagnostics' = FinalDiagnostics
  /\ result' = CreateResult
  /\ pc' = "done"
  /\ UNCHANGED <<graph, lifetime, lateCalls, position, cancelled, owned, document, summary,
                 events>>

-----------------------------------------------------------------------------
(* RunLifetime: the parent signal and the timer, whichever is first         *)

Terminate(cause) ==
  /\ ~Terminated
  /\ termination' = cause
  /\ settlement' = IF Racing THEN "cancelled" ELSE settlement
  /\ UNCHANGED <<graph, running, output, inTime, lateCalls, result, pc, position, state, events>>

(* The caller may abort wherever its code can run.                          *)
Cancel ==
  /\ pc \notin {"begin", "done"}
  /\ ~(pc = "loop" /\ activePhase = NoPhase)
  /\ Terminate("cancelled")

TimeOut ==
  /\ HasTimeout
  /\ pc = "activating" \/ Racing \/ (pc = "dispose" /\ resources # <<>>)
  /\ Terminate("timed-out")

-----------------------------------------------------------------------------
Kernel ==
  \/ BeginCancelled \/ BeginUncompiled \/ BeginNodes
  \/ CompletePhase \/ StartPhase \/ NothingToExecute \/ AbandonPhase
  \/ Reuse \/ StartActivation \/ Activate \/ ActivationSucceeds \/ ActivationFails
  \/ StartInvocation \/ Invoke \/ Settle
  \/ StopTerminated \/ HandleFailure \/ AcceptOutput
  \/ \E ok \in BOOLEAN : Dispose(ok)
  \/ Return

Next ==
  \/ Kernel
  \/ \E i \in running : InvocationReturns(i, "failure", NoOutput)
  \/ \E i \in running : \E o \in Outputs : InvocationReturns(i, "output", o)
  \/ Cancel
  \/ TimeOut

Spec == Init /\ [][Next]_vars

(* Sinks return, activation and disposal settle, and the timer fires; an    *)
(* invocation may never settle.                                             *)
FairSpec == Spec /\ WF_vars(Kernel) /\ WF_vars(TimeOut)

-----------------------------------------------------------------------------
(* Properties                                                               *)

DiagnosticCodes ==
  {"cancelled", "timed-out", "compile-failed", "activation-failed", "invocation-failed",
   "invalid-output", "patch-rejected", "internal-failure"}

EventRecord ==
  [of : {"phase", "activation", "invocation", "cancellation"},
   edge : {"started", "completed"},
   phase : Phases \cup {NoPhase},
   at : Nat \ {0},
   status : {"none", "success", "failed", "degraded", "cancelled", "timed-out"}]

Artifact == [proposal : Proposal, at : Nat \ {0}, patches : Nat]

(* Every variable has its type; only registered Plugins are activated.      *)
TypeOK ==
  /\ plan \in Plans
  /\ compiled \in BOOLEAN
  /\ pc \in {"begin", "loop", "phase", "contribute", "activate", "activating", "activated",
             "invoke", "invoking", "settled", "failed", "dispose", "done"}
  /\ index \in 1..Len(plan) + 1
  /\ activePhase \in Phases \cup {NoPhase}
  /\ termination \in {"active", "cancelled", "timed-out"}
  /\ cancelled \in BOOLEAN
  /\ activated \subseteq Registered
  /\ resources \in Seq(Disposable)
  /\ disposalFailed \in BOOLEAN
  /\ running \subseteq 1..Len(plan)
  /\ settlement \in {"none", "output", "failure", "cancelled"}
  /\ output \in Outputs
  /\ diagnostics \in Seq(DiagnosticCodes)
  /\ artifacts \in Seq(Artifact)
  /\ patchIds \in Seq(Nat \ {0})
  /\ completedPhases \in Seq(Phases)
  /\ failedPhases \in Seq(Phases)
  /\ events \in Seq(EventRecord)
  /\ activations \in Seq(Disposable)
  /\ disposed \in Seq(Disposable)
  /\ inTime \subseteq 1..Len(plan)
  /\ lateCalls \in Nat

Done == pc = "done"

(* An output that settles after the abort or the deadline never reaches the *)
(* document or the Result ("never accepts a late Plugin output").           *)
LateOutputIgnored ==
  /\ 1..index - 1 \subseteq inTime
  /\ ToSet(patchIds) \cup {a.at : a \in ToSet(artifacts)} \subseteq inTime

(* Whatever ends the Run, and even if the abort overtakes an activation,    *)
(* each activated Plugin with a disposer is disposed exactly once, in       *)
(* reverse activation order, and before the Result exists.                  *)
ReleasedInReverse ==
  /\ \A i, j \in DOMAIN activations : activations[i] = activations[j] => i = j
  /\ activations = resources \o Reverse(disposed)
  /\ Done => resources = <<>>

(* Once the Run is terminated at most one more Plugin call is made: the one *)
(* whose started Event was being published when the abort came.             *)
OneCallAfterTermination == lateCalls <= 1

(* Every started Event is closed, before the Result exists and before       *)
(* another of its sort, by a completed Event of the same phase and          *)
(* contribution, and Plugin Events lie within their phase.                  *)
EventsOf(of) == {i \in DOMAIN events : events[i].of = of}
Closes(j, i) ==
  /\ events[j].edge = "completed"
  /\ events[j].phase = events[i].phase
  /\ events[i].of # "phase" => events[j].at = events[i].at
Within(i, j) == {k \in EventsOf(events[i].of) : i < k /\ k < j}
EventsNest ==
  \A i \in DOMAIN events :
    /\ (events[i].edge = "started" /\ events[i].of # "cancellation") =>
         \/ \E j \in EventsOf(events[i].of) : i < j /\ Closes(j, i) /\ Within(i, j) = {}
         \/ ~Done /\ \A j \in EventsOf(events[i].of) : j <= i
    /\ events[i].of \in {"activation", "invocation"} =>
         \E j \in EventsOf("phase") :
           /\ j < i /\ events[j].edge = "started" /\ events[j].phase = events[i].phase
           /\ \A k \in EventsOf("phase") : k <= j \/ k > i

(* The Run's termination is announced at most once, with the cause that     *)
(* came first, exactly when the Result will be cancelled, and no Plugin     *)
(* Event follows it.                                                        *)
CancellationAnnounced ==
  /\ cancelled <=> EventsOf("cancellation") # {}
  /\ \A i \in EventsOf("cancellation") :
       /\ events[i].status = termination
       /\ \A j \in DOMAIN events : j > i => events[j].of = "phase"

(* The Result says what happened: success only if the whole plan was        *)
(* accepted and released without a failure, cancelled only if the Run was   *)
(* terminated, and its phases are the plan's phases up to where it stopped. *)
Unfinished == {plan[i].phase : i \in index..Len(plan)}
Succeeded(p) == \E i \in EventsOf("phase") : events[i].phase = p /\ events[i].status = "success"
ResultIsFaithful ==
  Done =>
    /\ (result.status = "success") <=>
         (compiled /\ index > Len(plan) /\ ~disposalFailed /\ ~cancelled)
    /\ (result.status = "cancelled") => Terminated /\ result.failed = <<>>
    /\ ToSet(result.completed) = {p \in Phases : Succeeded(p)}
    /\ ToSet(result.completed) = {plan[i].phase : i \in 1..index - 1} \ Unfinished
    /\ ToSet(result.failed) \subseteq {plan[i].phase : i \in {index} \cap DOMAIN plan}

(* Each place of the Result holds only Artifacts of the kinds the policy    *)
(* names for that place, and all of them public, of contributions accepted  *)
(* whole, with the Patches they came with.  The primary Artifact is not an  *)
(* alternative to itself.                                                   *)
ChosenPrimary == {result.primary} \ {Fallback}
KindsOf(S) == {artifacts[i].proposal.kind : i \in S}
ExposureAuthorized ==
  Done =>
    /\ \A i \in ChosenPrimary \cup result.alternatives \cup result.exposed :
         /\ artifacts[i].proposal.public
         /\ artifacts[i].at < index
         /\ artifacts[i].patches = Cardinality({k \in DOMAIN patchIds : patchIds[k] = artifacts[i].at})
    /\ KindsOf(ChosenPrimary) \subseteq {Policy.primary}
    /\ KindsOf(result.alternatives) \subseteq Policy.alternatives
    /\ KindsOf(result.exposed) \subseteq Policy.exposed
    /\ result.primary \notin result.alternatives

(* default-enhance.md:32: "no partial transformation is submitted, the      *)
(* Result is `degraded`, and the primary Artifact derives from the original *)
(* Input."                                                                  *)
DegradedIsOriginal == (Done /\ result.status = "degraded") => result.origin = "original"

(* A Run with a timeout returns its Result, even if an invocation never     *)
(* settles or is made after the abort.                                      *)
RunReturns == HasTimeout => <>Done

(* The Run is a fail-open Run.                                              *)
FailOpen == INSTANCE FailOpenRun WITH
  Resources <- Disposable,
  contributions <- Len(plan),
  taken <- index - 1,
  stopped <- pc \in {"failed", "dispose", "done"},
  held <- resources,
  clean <- diagnostics = <<>> /\ ~disposalFailed,
  status <- result.status
ImplementsFailOpen == FailOpen!Spec

=============================================================================
