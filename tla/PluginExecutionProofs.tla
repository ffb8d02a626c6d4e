------------------------ MODULE PluginExecutionProofs ------------------------
(***************************************************************************)
(* Proofs about PluginExecution, for every plan, output and policy: type    *)
(* correctness and what makes cancellation safe, and then what a Run tells: *)
(* the Events it emits, the announcement of its cancellation, and the       *)
(* Result it returns.                                                      *)
(***************************************************************************)
EXTENDS PluginExecution, SequenceTheorems, FiniteSetTheorems, WellFoundedInduction, TLAPS

-----------------------------------------------------------------------------
(* The inductive invariant.                                                 *)

Contributing == {"contribute", "activate", "activating", "activated", "invoke", "invoking",
            "settled", "failed"}

(* Where the kernel is tells which contribution it is working on: `index'   *)
(* is in the plan, its phase has been started, and the Plugin being         *)
(* activated is a registered one.                                           *)
Located ==
  /\ pc \in Contributing => index \in DOMAIN plan /\ activePhase \in Phases
  /\ pc = "phase" => index \in DOMAIN plan
  /\ pc = "activating" => node.plugin \in Registered

(* While the race is open the Run is not terminated, and an output that has *)
(* won it came in time.                                                     *)
RaceIsFair ==
  /\ Racing => ~Terminated
  /\ (pc \in {"invoking", "settled"} /\ settlement = "output") => index \in inTime

(* A call made after termination leaves the kernel on a path that can only  *)
(* end the Run.                                                             *)
LateCallIsLast ==
  /\ lateCalls \in {0, 1}
  /\ lateCalls = 1 =>
       /\ Terminated
       /\ pc \in {"activating", "activated", "invoking", "settled", "failed", "dispose", "done"}
       /\ pc \in {"invoking", "settled"} => settlement = "cancelled"

(* ReleasedInReverse needs to know that a Plugin is activated only once,    *)
(* and that nothing is disposed while contributions are executed.           *)
Acquired ==
  /\ ToSet(activations) \subseteq activated
  /\ pc \in {"activate", "activating"} => node.plugin \notin activated
  /\ pc \notin {"dispose", "done"} => disposed = <<>>

(* Nothing has gone wrong before the work stops, and a Run that announced   *)
(* its termination says so in a diagnostic.                                 *)
CleanUntilStopped ==
  /\ pc \notin {"failed", "dispose", "done"} =>
       diagnostics = <<>> /\ ~cancelled /\ ~disposalFailed
  /\ cancelled => diagnostics # <<>>
  /\ pc # "done" => result = NoResult

IInv ==
  /\ CleanUntilStopped
  /\ TypeOK /\ Located
  /\ RaceIsFair /\ LateOutputIgnored
  /\ LateCallIsLast
  /\ Acquired /\ ReleasedInReverse

-----------------------------------------------------------------------------
(* Facts about the data                                                     *)

LEMMA Entry ==
  ASSUME NEW S, NEW s \in Seq(S), NEW i \in DOMAIN s
  PROVE  s[i] \in S
OBVIOUS

LEMMA Refined ==
  ASSUME NEW S, NEW T, NEW s \in Seq(S), T \subseteq S, \A i \in DOMAIN s : s[i] \in T
  PROVE  s \in Seq(T)
OBVIOUS

LEMMA ReverseEmpty ==
  ASSUME NEW S, NEW s \in Seq(S)
  PROVE  s \o Reverse(<<>>) = s
<1>1. Reverse(<<>>) = <<>>
  BY DEF Reverse
<1> QED  BY <1>1

LEMMA AppendDistinct ==
  ASSUME NEW S, NEW s \in Seq(S), NEW x \in S,
         \A i, j \in DOMAIN s : s[i] = s[j] => i = j,
         \A i \in DOMAIN s : s[i] # x
  PROVE  \A i, j \in DOMAIN Append(s, x) : Append(s, x)[i] = Append(s, x)[j] => i = j
<1>1. /\ DOMAIN s = 1..Len(s) /\ Len(s) \in Nat
      /\ DOMAIN Append(s, x) = 1..Len(s) + 1
      /\ \A i \in DOMAIN s : Append(s, x)[i] = s[i]
      /\ Append(s, x)[Len(s) + 1] = x
  OBVIOUS
<1> QED  BY <1>1

LEMMA FrontAndLast ==
  ASSUME NEW S, NEW r \in Seq(S), r # <<>>
  PROVE  Front(r) \in Seq(S) /\ Last(r) \in S /\ r = Front(r) \o <<Last(r)>>
<1>1. Len(r) \in Nat \ {0}
  BY EmptySeq
<1>2. Last(r) \in S
  BY <1>1 DEF Last
<1>3. Front(r) \in Seq(S)
  BY <1>1 DEF Front
<1>4. SubSeq(r, 1, Len(r)) = SubSeq(r, 1, Len(r) - 1) \o <<r[Len(r)]>>
  BY <1>1, SubSeqRecursiveSecond
<1>5. SubSeq(r, 1, Len(r)) = r
  BY SubSeqFull
<1> QED  BY <1>2, <1>3, <1>4, <1>5 DEF Front, Last

LEMMA ReverseAppend ==
  ASSUME NEW S, NEW d \in Seq(S), NEW x \in S
  PROVE  Reverse(Append(d, x)) = <<x>> \o Reverse(d)
<1> DEFINE e == Append(d, x)
<1>1. /\ e \in Seq(S) /\ Len(e) = Len(d) + 1 /\ Len(d) \in Nat
      /\ e[Len(d) + 1] = x /\ \A i \in 1..Len(d) : e[i] = d[i]
  BY AppendProperties
<1> HIDE DEF e
<1>2. /\ Reverse(d) \in Seq(S) /\ Len(Reverse(d)) = Len(d)
      /\ \A i \in 1..Len(d) : Reverse(d)[i] = d[Len(d) - i + 1]
  BY <1>1 DEF Reverse
<1>3. /\ Reverse(e) \in Seq(S) /\ Len(Reverse(e)) = Len(d) + 1
      /\ \A i \in 1..Len(d) + 1 : Reverse(e)[i] = e[Len(d) + 1 - i + 1]
  BY <1>1 DEF Reverse
<1> DEFINE t == <<x>> \o Reverse(d)
<1>4. /\ t \in Seq(S) /\ Len(t) = Len(d) + 1 /\ t[1] = x
      /\ \A i \in 1..Len(d) : t[i + 1] = Reverse(d)[i]
  BY <1>1, <1>2
<1> HIDE DEF t
<1>5. ASSUME NEW i \in 1..Len(d) + 1
      PROVE  Reverse(e)[i] = t[i]
  <2>1. CASE i = 1
    BY <1>1, <1>3, <1>4, <2>1
  <2>2. CASE i > 1
    <3>1. i - 1 \in 1..Len(d) /\ Len(d) + 1 - i + 1 \in 1..Len(d)
      BY <1>1, <2>2
    <3>2. t[i] = d[Len(d) - (i - 1) + 1]
      <4>1. t[(i - 1) + 1] = Reverse(d)[i - 1]
        BY <1>4, <3>1
      <4>2. Reverse(d)[i - 1] = d[Len(d) - (i - 1) + 1]
        BY <1>2, <3>1
      <4>3. (i - 1) + 1 = i
        BY <1>1
      <4> QED  BY <4>1, <4>2, <4>3
    <3>3. Reverse(e)[i] = d[Len(d) + 1 - i + 1]
      BY <1>1, <1>3, <3>1
    <3>4. Len(d) - (i - 1) + 1 = Len(d) + 1 - i + 1
      BY <1>1
    <3> QED  BY <3>2, <3>3, <3>4
  <2> QED  BY <1>1, <2>1, <2>2
<1>6. Reverse(e) = t
  BY <1>1, <1>3, <1>4, <1>5, SeqEqual
<1> QED  BY <1>6 DEF e, t

(* Moving the last element of one sequence to the end of another one leaves *)
(* the first followed by the reverse of the second the same.                *)
LEMMA MoveLast ==
  ASSUME NEW S, NEW r \in Seq(S), NEW d \in Seq(S), r # <<>>
  PROVE  r \o Reverse(d) = Front(r) \o Reverse(Append(d, Last(r)))
<1>1. Front(r) \in Seq(S) /\ Last(r) \in S /\ r = Front(r) \o <<Last(r)>>
  BY FrontAndLast
<1>2. Reverse(Append(d, Last(r))) = <<Last(r)>> \o Reverse(d)
  BY <1>1, ReverseAppend
<1>3. Reverse(d) \in Seq(S)
  BY DEF Reverse
<1>4. (Front(r) \o <<Last(r)>>) \o Reverse(d) = Front(r) \o (<<Last(r)>> \o Reverse(d))
  <2> DEFINE f == Front(r)
             l == <<Last(r)>>
             e == Reverse(d)
  <2>1. f \in Seq(S) /\ l \in Seq(S) /\ e \in Seq(S)
    BY <1>1, <1>3
  <2> HIDE DEF f, l, e
  <2>2. (f \o l) \o e = f \o (l \o e)
    BY <2>1, ConcatAssociative, SMTT(30)
  <2> QED  BY <2>2 DEF f, l, e
<1> QED  BY <1>1, <1>2, <1>4

LEMMA OutputArtifacts ==
  ASSUME NEW o \in Outputs
  PROVE  /\ o.artifacts \in Seq(Proposal)
         /\ o.good \in Nat
         /\ o.shape \in {"invalid", "foreign", "valid"}
<1>1. <<>> \in Seq(Proposal)
  OBVIOUS
<1>2. ArtifactLists \subseteq Seq(Proposal) /\ MaxPatches \in Nat
  BY ExecutionAssumption
<1>3. CASE o \in [shape : {"invalid", "foreign"}, good : {0}, rejected : {FALSE}, artifacts : {<<>>}]
  <2>1. o.shape \in {"invalid", "foreign"} /\ o.good = 0 /\ o.artifacts = <<>>
    BY <1>3
  <2> QED  BY <1>1, <2>1
<1>4. CASE o \in [shape : {"valid"}, good : 0..MaxPatches, rejected : BOOLEAN, artifacts : ArtifactLists]
  <2>1. o.shape = "valid" /\ o.good \in 0..MaxPatches /\ o.artifacts \in ArtifactLists
    BY <1>4
  <2> QED  BY <1>2, <2>1
<1> QED  BY <1>3, <1>4 DEF Outputs

LEMMA PlanEntries ==
  ASSUME NEW p \in Plans
  PROVE  /\ Len(p) \in Nat
         /\ DOMAIN p = 1..Len(p)
         /\ \A i \in DOMAIN p : p[i].plugin \in Plugins /\ p[i].phase \in Phases
<1>1. p \in Seq(Contribution)
  BY ExecutionAssumption
<1>2. Len(p) \in Nat /\ DOMAIN p = 1..Len(p)
  BY <1>1
<1>3. \A i \in DOMAIN p : p[i] \in Contribution
  BY <1>1, Entry
<1> QED  BY <1>2, <1>3 DEF Contribution

(* An accepted Artifact is stamped with the contribution it came from.      *)
LEMMA StampedTyped ==
  ASSUME output.artifacts \in Seq(Proposal), output.good \in Nat, index \in Nat \ {0}
  PROVE  Stamped \in Seq(Artifact)
<1> DEFINE stamp(i) == [proposal |-> output.artifacts[i], at |-> index, patches |-> output.good]
<1>1. ASSUME NEW i \in DOMAIN output.artifacts
      PROVE  stamp(i) \in Artifact
  <2>1. output.artifacts[i] \in Proposal
    BY Entry
  <2> QED  BY <2>1 DEF Artifact
<1>2. [i \in DOMAIN output.artifacts |-> stamp(i)] \in Seq(Artifact)
  <2>1. DOMAIN output.artifacts = 1..Len(output.artifacts) /\ Len(output.artifacts) \in Nat
    OBVIOUS
  <2> HIDE DEF stamp
  <2> QED  BY <1>1, <2>1, IsASeq
<1> QED  BY <1>2 DEF Stamped

LEMMA InitIInv == Init => IInv
<1> SUFFICES ASSUME Init PROVE IInv
  OBVIOUS
<1>1. Len(plan) \in Nat
  BY PlanEntries DEF Init
<1>2. TypeOK
  <2>1. output \in Outputs
    BY DEF Init, NoOutput, Outputs
  <2>2. index \in 1..Len(plan) + 1
    BY <1>1 DEF Init
  <2>3. \A S : <<>> \in Seq(S)
    OBVIOUS
  <2>4. /\ resources \in Seq(Disposable) /\ activations \in Seq(Disposable)
        /\ disposed \in Seq(Disposable) /\ diagnostics \in Seq(DiagnosticCodes)
        /\ artifacts \in Seq(Artifact) /\ patchIds \in Seq(Nat \ {0})
        /\ completedPhases \in Seq(Phases) /\ failedPhases \in Seq(Phases)
        /\ events \in Seq(EventRecord)
    BY <2>3 DEF Init
  <2> QED  BY <2>1, <2>2, <2>4 DEF Init, TypeOK
<1>3. Located /\ RaceIsFair /\ LateCallIsLast
  BY DEF Init, Located, RaceIsFair, LateCallIsLast, Contributing, Racing, Terminated
<1>4. LateOutputIgnored
  BY DEF Init, LateOutputIgnored, ToSet
<1>5. Acquired /\ ReleasedInReverse
  <2>1. <<>> \o Reverse(<<>>) = <<>>
    BY DEF Reverse
  <2> QED  BY <2>1 DEF Init, Acquired, ReleasedInReverse, ToSet, Done
<1>6. CleanUntilStopped
  BY DEF Init, CleanUntilStopped
<1> QED  BY <1>2, <1>3, <1>4, <1>5, <1>6 DEF IInv

-----------------------------------------------------------------------------
(* Publishing and recording                                                 *)

LEMMA EmitTyped ==
  ASSUME TypeOK,
         NEW of \in {"phase", "activation", "invocation", "cancellation"},
         NEW edge \in {"started", "completed"},
         NEW phase \in Phases \cup {NoPhase},
         NEW status \in {"none", "success", "failed", "degraded", "cancelled", "timed-out"},
         Emit(of, edge, phase, status)
  PROVE  events' \in Seq(EventRecord)
<1>1. index \in Nat \ {0}
  BY PlanEntries DEF TypeOK
<1>2. [of |-> of, edge |-> edge, phase |-> phase, at |-> index, status |-> status] \in EventRecord
  BY <1>1 DEF EventRecord
<1>3. events \in Seq(EventRecord)
  BY DEF TypeOK
<1> QED  BY <1>2, <1>3, AppendProperties DEF Emit

LEMMA DiagnoseTyped ==
  ASSUME TypeOK, NEW code \in DiagnosticCodes, Diagnose(code)
  PROVE  diagnostics' \in Seq(DiagnosticCodes)
BY AppendProperties DEF Diagnose, TypeOK

LEMMA MarkTyped ==
  ASSUME TypeOK, NEW reason \in {"cancelled", "timed-out"}, MarkTermination(reason)
  PROVE  /\ cancelled' \in BOOLEAN
         /\ diagnostics' \in Seq(DiagnosticCodes)
         /\ events' \in Seq(EventRecord)
<1>1. CASE cancelled
  BY <1>1 DEF MarkTermination, TypeOK
<1>2. CASE ~cancelled
  <2>1. activePhase \in Phases \cup {NoPhase}
    BY DEF TypeOK
  <2>2. events' \in Seq(EventRecord)
    BY <1>2, <2>1, EmitTyped DEF MarkTermination
  <2>3. diagnostics' \in Seq(DiagnosticCodes)
    BY <1>2, DiagnoseTyped DEF MarkTermination, Diagnose, DiagnosticCodes
  <2> QED  BY <1>2, <2>2, <2>3 DEF MarkTermination
<1> QED  BY <1>1, <1>2

-----------------------------------------------------------------------------
(* Type correctness                                                         *)

LEMMA StepTyped ==
  ASSUME TypeOK, Located, [Next]_vars
  PROVE  TypeOK'
<1> USE DEF outside, graph, lifetime, position, owned, document, summary, state
<1>0. Len(plan) \in Nat /\ DOMAIN plan = 1..Len(plan)
  BY PlanEntries DEF TypeOK
<1>1. CASE UNCHANGED vars
  BY <1>1 DEF TypeOK, vars
<1>2. CASE BeginCancelled
  <2>1. termination \in {"cancelled", "timed-out"}
    BY <1>2 DEF BeginCancelled, Terminated, TypeOK
  <2>2. /\ cancelled' \in BOOLEAN
        /\ diagnostics' \in Seq(DiagnosticCodes)
        /\ events' \in Seq(EventRecord)
    BY <1>2, <2>1, MarkTyped DEF BeginCancelled
  <2> QED  BY <1>2, <2>2 DEF BeginCancelled, TypeOK
<1>3. CASE BeginUncompiled
  <2>1. diagnostics' \in Seq(DiagnosticCodes)
    BY <1>3, DiagnoseTyped DEF BeginUncompiled, DiagnosticCodes
  <2> QED  BY <1>3, <2>1 DEF BeginUncompiled, TypeOK
<1>4. CASE BeginNodes
  BY <1>4 DEF BeginNodes, TypeOK
<1>5. CASE CompletePhase
  <2>1. activePhase \in Phases
    BY <1>5 DEF CompletePhase, TypeOK
  <2>2. completedPhases' \in Seq(Phases)
    BY <1>5, <2>1, AppendProperties DEF CompletePhase, TypeOK
  <2>3. events' \in Seq(EventRecord)
    BY <1>5, <2>1, EmitTyped DEF CompletePhase
  <2> QED  BY <1>5, <2>2, <2>3 DEF CompletePhase, TypeOK
<1>6. CASE StartPhase
  <2>1. index \in DOMAIN plan
    BY <1>0, <1>6 DEF StartPhase, Located, Remaining, TypeOK
  <2>2. node.phase \in Phases
    BY <2>1, PlanEntries DEF node, TypeOK
  <2>3. events' \in Seq(EventRecord)
    BY <1>6, <2>2, EmitTyped DEF StartPhase
  <2> QED  BY <1>6, <2>2, <2>3 DEF StartPhase, TypeOK
<1>7. CASE NothingToExecute
  BY <1>7 DEF NothingToExecute, TypeOK
<1>8. CASE AbandonPhase
  <2>1. activePhase \in Phases
    BY <1>8 DEF AbandonPhase, Located, Contributing
  <2>2. failedPhases' \in Seq(Phases)
    BY <1>8, <2>1, AppendProperties DEF AbandonPhase, TypeOK
  <2>3. events' \in Seq(EventRecord)
    BY <1>8, <2>1, EmitTyped DEF AbandonPhase
  <2> QED  BY <1>8, <2>2, <2>3 DEF AbandonPhase, TypeOK
<1>9. CASE Reuse
  BY <1>9 DEF Reuse, TypeOK
<1>10. CASE StartActivation
  <2>1. activePhase \in Phases \cup {NoPhase}
    BY DEF TypeOK
  <2>2. events' \in Seq(EventRecord)
    BY <1>10, <2>1, EmitTyped DEF StartActivation
  <2> QED  BY <1>10, <2>2 DEF StartActivation, TypeOK
<1>11. CASE Activate
  BY <1>11 DEF Activate, CountIfLate, TypeOK
<1>12. CASE ActivationSucceeds
  <2> DEFINE acquired == IF node.plugin \in Disposable THEN <<node.plugin>> ELSE <<>>
  <2>1. acquired \in Seq(Disposable)
    OBVIOUS
  <2>2. /\ activated' = activated \cup {node.plugin}
        /\ activations' = activations \o acquired
        /\ resources' = resources \o acquired
        /\ pc' = "activated" /\ pc = "activating"
        /\ Emit("activation", "completed", activePhase, "success")
        /\ UNCHANGED <<outside, position, cancelled, diagnostics, disposalFailed, disposed,
                       document, summary>>
    BY <1>12 DEF ActivationSucceeds
  <2> HIDE DEF acquired
  <2>3. node.plugin \in Registered
    BY <2>2 DEF Located
  <2>4. activations' \in Seq(Disposable) /\ resources' \in Seq(Disposable)
    BY <2>1, <2>2, ConcatProperties DEF TypeOK
  <2>5. activePhase \in Phases \cup {NoPhase}
    BY DEF TypeOK
  <2>6. events' \in Seq(EventRecord)
    BY <2>2, <2>5, EmitTyped
  <2> QED  BY <2>2, <2>3, <2>4, <2>6 DEF TypeOK
<1>13. CASE ActivationFails
  <2>1. activePhase \in Phases \cup {NoPhase}
    BY DEF TypeOK
  <2>2. events' \in Seq(EventRecord)
    BY <1>13, <2>1, EmitTyped DEF ActivationFails
  <2>3. diagnostics' \in Seq(DiagnosticCodes)
    BY <1>13, DiagnoseTyped DEF ActivationFails, DiagnosticCodes
  <2> QED  BY <1>13, <2>2, <2>3 DEF ActivationFails, TypeOK
<1>14. CASE StartInvocation
  <2>1. activePhase \in Phases \cup {NoPhase}
    BY DEF TypeOK
  <2>2. events' \in Seq(EventRecord)
    BY <1>14, <2>1, EmitTyped DEF StartInvocation
  <2> QED  BY <1>14, <2>2 DEF StartInvocation, TypeOK
<1>15. CASE Invoke
  <2>1. index \in 1..Len(plan)
    BY <1>0, <1>15 DEF Invoke, Located, Contributing
  <2>2. NoOutput \in Outputs
    BY DEF NoOutput, Outputs
  <2> QED  BY <1>15, <2>1, <2>2 DEF Invoke, Race, CountIfLate, TypeOK
<1>16. CASE Settle
  <2>1. activePhase \in Phases \cup {NoPhase}
    BY DEF TypeOK
  <2>2. events' \in Seq(EventRecord)
    BY <1>16, <2>1, EmitTyped DEF Settle
  <2> QED  BY <1>16, <2>2 DEF Settle, TypeOK
<1>17. CASE StopTerminated
  <2>1. Reason \in {"cancelled", "timed-out"}
    BY DEF Reason, Terminated, TypeOK
  <2>2. /\ cancelled' \in BOOLEAN
        /\ diagnostics' \in Seq(DiagnosticCodes)
        /\ events' \in Seq(EventRecord)
    BY <1>17, <2>1, MarkTyped DEF StopTerminated
  <2> QED  BY <1>17, <2>2 DEF StopTerminated, TypeOK
<1>18. CASE HandleFailure
  <2>1. diagnostics' \in Seq(DiagnosticCodes)
    BY <1>18, DiagnoseTyped DEF HandleFailure, DiagnosticCodes
  <2> QED  BY <1>18, <2>1 DEF HandleFailure, TypeOK
<1>19. CASE AcceptOutput
  <2>1. index \in 1..Len(plan)
    BY <1>0, <1>19 DEF AcceptOutput, Located, Contributing
  <2>2. output.artifacts \in Seq(Proposal) /\ output.good \in Nat
    BY OutputArtifacts DEF TypeOK
  <2>3. patchIds' \in Seq(Nat \ {0})
    <3>1. Applied \in Seq(Nat \ {0})
      BY <2>1, <2>2 DEF Applied
    <3> QED  BY <1>19, <3>1, ConcatProperties DEF AcceptOutput, TypeOK
  <2>4. artifacts' \in Seq(Artifact)
    <3>1. Stamped \in Seq(Artifact)
      BY <2>1, <2>2, StampedTyped
    <3> QED  BY <1>19, <3>1, ConcatProperties DEF AcceptOutput, TypeOK
  <2>5. CASE Acceptable
    <3>1. index' = index + 1 /\ pc' = "loop" /\ UNCHANGED diagnostics
      BY <1>19, <2>5 DEF AcceptOutput
    <3> QED  BY <1>19, <2>1, <2>3, <2>4, <3>1 DEF AcceptOutput, TypeOK
  <2>6. CASE ~Acceptable
    <3>1. diagnostics' \in Seq(DiagnosticCodes)
      BY <1>19, <2>6, DiagnoseTyped DEF AcceptOutput, DiagnosticCodes
    <3> QED  BY <1>19, <2>3, <2>4, <2>6, <3>1 DEF AcceptOutput, TypeOK
  <2> QED  BY <2>5, <2>6
<1>20. ASSUME NEW ok \in BOOLEAN, Dispose(ok)
       PROVE  TypeOK'
  <2>1. resources # <<>> /\ resources \in Seq(Disposable) /\ disposed \in Seq(Disposable)
    BY <1>20 DEF Dispose, TypeOK
  <2>2. resources[Len(resources)] \in Disposable
    BY <2>1
  <2>3. resources' \in Seq(Disposable)
    <3>1. SubSeq(resources, 1, Len(resources) - 1) \in Seq(Disposable)
      BY <2>1
    <3> QED  BY <1>20, <3>1 DEF Dispose, Rest, Front
  <2>4. disposed' \in Seq(Disposable)
    BY <1>20, <2>1, <2>2, AppendProperties DEF Dispose, Last
  <2>5. disposalFailed' \in BOOLEAN
    BY <1>20 DEF Dispose
  <2> QED  BY <1>20, <2>3, <2>4, <2>5 DEF Dispose, TypeOK
<1>21. CASE Return
  <2>1. diagnostics' \in Seq(DiagnosticCodes)
    <3>1. FinalDiagnostics \in Seq(DiagnosticCodes)
      BY AppendProperties DEF FinalDiagnostics, DiagnosticCodes, TypeOK
    <3> QED  BY <1>21, <3>1 DEF Return
  <2> QED  BY <1>21, <2>1 DEF Return, TypeOK
<1>22. ASSUME NEW i \in running, NEW kind \in {"output", "failure"}, NEW o \in Outputs,
              InvocationReturns(i, kind, o)
       PROVE  TypeOK'
  <2>1. /\ running' \in SUBSET (1..Len(plan)) /\ inTime' \in SUBSET (1..Len(plan))
        /\ settlement' \in {kind, settlement} /\ output' \in {o, output}
    BY <1>22 DEF InvocationReturns, TypeOK
  <2> QED  BY <1>22, <2>1 DEF InvocationReturns, TypeOK
<1>23. ASSUME NEW cause \in {"cancelled", "timed-out"}, Terminate(cause)
       PROVE  TypeOK'
  BY <1>23 DEF Terminate, TypeOK
<1>24. NoOutput \in Outputs
  BY DEF NoOutput, Outputs
<1> QED
  BY <1>1, <1>2, <1>3, <1>4, <1>5, <1>6, <1>7, <1>8, <1>9, <1>10, <1>11, <1>12, <1>13,
     <1>14, <1>15, <1>16, <1>17, <1>18, <1>19, <1>20, <1>21, <1>22, <1>23, <1>24
  DEF Next, Kernel, Cancel, TimeOut

-----------------------------------------------------------------------------
(* Position, race and late calls                                            *)

LEMMA StepLocated ==
  ASSUME TypeOK, Located, [Next]_vars
  PROVE  Located'
<1> USE DEF outside, graph, lifetime, position, owned, document, summary, state
<1>0. Len(plan) \in Nat /\ DOMAIN plan = 1..Len(plan)
  BY PlanEntries DEF TypeOK
<1>1. UNCHANGED plan
  BY DEF vars, Next, Kernel, BeginCancelled, BeginUncompiled, BeginNodes, CompletePhase,
         StartPhase, NothingToExecute, AbandonPhase, Reuse, StartActivation, Activate,
         ActivationSucceeds, ActivationFails, StartInvocation, Invoke, Settle, StopTerminated,
         HandleFailure, AcceptOutput, Dispose, Return, InvocationReturns, Cancel, TimeOut,
         Terminate
<1>2. \/ UNCHANGED <<pc, index, activePhase>>
      \/ pc' \in {"loop", "dispose", "done"}
      \/ UNCHANGED <<index, activePhase>> /\ pc' \in Contributing \ {"activating"} /\ pc \in Contributing
      \/ CompletePhase \/ StartPhase \/ Activate
      \/ (Reuse \/ StartActivation \/ StopTerminated) /\ AtContribution
  BY DEF vars, Next, Kernel, BeginCancelled, BeginUncompiled, BeginNodes,
         NothingToExecute, AbandonPhase, Reuse, StartActivation, Contributing,
         ActivationSucceeds, ActivationFails, StartInvocation, Invoke, Settle, StopTerminated,
         HandleFailure, AcceptOutput, Dispose, Return, InvocationReturns, Cancel, TimeOut,
         Terminate
<1>3. CASE UNCHANGED <<pc, index, activePhase>>
  BY <1>1, <1>3 DEF Located, node
<1>4. CASE pc' \in {"loop", "dispose", "done"}
  BY <1>4 DEF Located, Contributing
<1>5. CASE UNCHANGED <<index, activePhase>> /\ pc' \in Contributing \ {"activating"} /\ pc \in Contributing
  BY <1>1, <1>5 DEF Located, Contributing
<1>6. CASE CompletePhase
  BY <1>0, <1>1, <1>6 DEF CompletePhase, Located, Contributing, Remaining, TypeOK
<1>7. CASE StartPhase
  <2>1. index \in DOMAIN plan
    BY <1>0, <1>7 DEF StartPhase, Located, Remaining, TypeOK
  <2>2. node.phase \in Phases
    BY <2>1, PlanEntries DEF node, TypeOK
  <2> QED  BY <1>1, <1>7, <2>1, <2>2 DEF StartPhase, Located
<1>8. CASE Activate
  BY <1>1, <1>8 DEF Activate, Located, Contributing, Found, node
<1>9. CASE (Reuse \/ StartActivation \/ StopTerminated) /\ AtContribution
  <2>1. index \in DOMAIN plan
    BY <1>0, <1>9 DEF AtContribution, Located, Contributing, Remaining, TypeOK
  <2>2. activePhase \in Phases
    BY <1>9, <2>1, PlanEntries DEF AtContribution, Located, Contributing, node, TypeOK
  <2> QED  BY <1>1, <1>9, <2>1, <2>2 DEF Reuse, StartActivation, StopTerminated, Located
<1> QED  BY <1>2, <1>3, <1>4, <1>5, <1>6, <1>7, <1>8, <1>9

LEMMA StepRace ==
  ASSUME TypeOK, RaceIsFair, [Next]_vars
  PROVE  RaceIsFair'
<1> USE DEF outside, graph, lifetime, position, owned, document, summary, state
<1>1. CASE Invoke
  BY <1>1 DEF Invoke, Race, RaceIsFair, Racing, Terminated
<1>2. CASE Settle
  BY <1>2 DEF Settle, RaceIsFair, Racing
<1>3. ASSUME NEW i \in running, NEW kind \in {"output", "failure"}, NEW o \in Outputs,
             InvocationReturns(i, kind, o)
      PROVE  RaceIsFair'
  <2>1. CASE Wins(i)
    <3>1. ~Terminated /\ inTime' = inTime \cup {i} /\ i = index
      BY <1>3, <2>1 DEF Wins, RaceIsFair, InvocationReturns
    <3> QED  BY <1>3, <2>1, <3>1 DEF InvocationReturns, RaceIsFair, Racing
  <2>2. CASE ~Wins(i)
    BY <1>3, <2>2 DEF InvocationReturns, RaceIsFair, Racing, Terminated
  <2> QED  BY <2>1, <2>2
<1>4. ASSUME NEW cause \in {"cancelled", "timed-out"}, Terminate(cause)
      PROVE  RaceIsFair'
  BY <1>4 DEF Terminate, RaceIsFair, Racing
<1>5. CASE pc' \notin {"invoking", "settled"}
  BY <1>5 DEF RaceIsFair, Racing
<1>6. CASE UNCHANGED vars
  BY <1>6 DEF vars, RaceIsFair, Racing, Terminated
<1>7. NoOutput \in Outputs
  BY DEF NoOutput, Outputs
<1> QED
  BY <1>1, <1>2, <1>3, <1>4, <1>5, <1>6, <1>7
  DEF Next, Kernel, BeginCancelled, BeginUncompiled, BeginNodes, CompletePhase,
      StartPhase, NothingToExecute, AbandonPhase, Reuse, StartActivation, Activate,
      ActivationSucceeds, ActivationFails, StartInvocation, StopTerminated,
      HandleFailure, AcceptOutput, Dispose, Return, Cancel, TimeOut

LEMMA StepLate ==
  ASSUME TypeOK, LateCallIsLast, [Next]_vars
  PROVE  LateCallIsLast'
<1> USE DEF outside, graph, lifetime, position, owned, document, summary, state
<1>1. CASE Activate
  BY <1>1 DEF Activate, CountIfLate, LateCallIsLast, Terminated
<1>2. CASE Invoke
  BY <1>2 DEF Invoke, CountIfLate, Race, LateCallIsLast, Terminated
<1>3. ASSUME UNCHANGED lateCalls, lateCalls = 1
      PROVE  LateCallIsLast'
  <2>1. CASE ActivationSucceeds \/ ActivationFails \/ Settle \/ StopTerminated \/ AbandonPhase
    BY <1>3, <2>1 DEF ActivationSucceeds, ActivationFails, Settle, StopTerminated,
                      AbandonPhase, LateCallIsLast, Terminated
  <2>2. CASE (\E ok \in BOOLEAN : Dispose(ok)) \/ Return
    BY <1>3, <2>2 DEF Dispose, Return, LateCallIsLast, Terminated
  <2>3. ASSUME NEW i \in running, NEW kind, NEW o, InvocationReturns(i, kind, o)
        PROVE  LateCallIsLast'
    BY <1>3, <2>3 DEF InvocationReturns, Wins, Racing, LateCallIsLast, Terminated
  <2>4. CASE UNCHANGED vars
    BY <1>3, <2>4 DEF vars, LateCallIsLast, Terminated
  <2>5. ~( \/ BeginCancelled \/ BeginUncompiled \/ BeginNodes \/ CompletePhase \/ StartPhase
           \/ NothingToExecute \/ Reuse \/ StartActivation \/ Activate \/ StartInvocation
           \/ Invoke \/ HandleFailure \/ AcceptOutput \/ Cancel \/ TimeOut)
    BY <1>3
    DEF BeginCancelled, BeginUncompiled, BeginNodes, CompletePhase, StartPhase,
        NothingToExecute, Reuse, StartActivation, Activate, StartInvocation, Invoke,
        HandleFailure, AcceptOutput, Answered, AtContribution, Cancel, TimeOut, Terminate,
        LateCallIsLast
  <2> QED  BY <2>1, <2>2, <2>3, <2>4, <2>5 DEF Next, Kernel
<1>4. Activate \/ Invoke \/ UNCHANGED lateCalls
  BY DEF vars, Next, Kernel, BeginCancelled, BeginUncompiled, BeginNodes, CompletePhase,
         StartPhase, NothingToExecute, AbandonPhase, Reuse, StartActivation,
         ActivationSucceeds, ActivationFails, StartInvocation, Settle, StopTerminated,
         HandleFailure, AcceptOutput, Dispose, Return, InvocationReturns, Cancel, TimeOut,
         Terminate
<1>5. CASE UNCHANGED lateCalls /\ lateCalls = 0
  BY <1>5 DEF LateCallIsLast
<1> QED  BY <1>1, <1>2, <1>3, <1>4, <1>5 DEF LateCallIsLast

-----------------------------------------------------------------------------
(* What reaches the document, and what is released                          *)

LEMMA StepLateOutput ==
  ASSUME TypeOK, Located, RaceIsFair, LateOutputIgnored, [Next]_vars
  PROVE  LateOutputIgnored'
<1> USE DEF outside, graph, lifetime, position, owned, document, summary, state
<1>1. CASE AcceptOutput
  <2>1. index \in inTime /\ index \in Nat \ {0} /\ inTime' = inTime
    BY <1>1, PlanEntries DEF AcceptOutput, Answered, RaceIsFair, TypeOK
  <2>2. output.artifacts \in Seq(Proposal) /\ output.good \in Nat
    BY OutputArtifacts DEF TypeOK
  <2>3. \A i \in DOMAIN patchIds' : patchIds'[i] \in inTime
    <3>1. Applied \in Seq(inTime)
      BY <2>1, <2>2 DEF Applied
    <3>2. patchIds \in Seq(inTime)
      BY DEF LateOutputIgnored, ToSet, TypeOK
    <3>3. patchIds' \in Seq(inTime)
      BY <1>1, <3>1, <3>2, ConcatProperties DEF AcceptOutput
    <3> QED  BY <3>3, Entry
  <2>4. \A i \in DOMAIN artifacts' : artifacts'[i].at \in inTime
    <3> DEFINE Timely == {a \in Artifact : a.at \in inTime}
    <3>1. Stamped \in Seq(Timely)
      <4>1. Stamped \in Seq(Artifact)
        BY <2>1, <2>2, StampedTyped
      <4>2. \A i \in DOMAIN Stamped : Stamped[i].at \in inTime
        BY <2>1 DEF Stamped
      <4> QED  BY <4>1, <4>2, Refined
    <3>2. artifacts \in Seq(Timely)
      <4>1. artifacts \in Seq(Artifact)
        BY DEF TypeOK
      <4>2. \A i \in DOMAIN artifacts : artifacts[i].at \in inTime
        BY DEF LateOutputIgnored, ToSet
      <4> QED  BY <4>1, <4>2, Refined
    <3> HIDE DEF Timely
    <3>3. artifacts' \in Seq(Timely)
      BY <1>1, <3>1, <3>2, ConcatProperties DEF AcceptOutput
    <3>4. \A i \in DOMAIN artifacts' : artifacts'[i] \in Timely
      BY <3>3, Entry
    <3> QED  BY <3>4 DEF Timely
  <2>5. 1..index' - 1 \subseteq inTime
    BY <1>1, <2>1 DEF AcceptOutput, LateOutputIgnored
  <2> QED  BY <2>1, <2>3, <2>4, <2>5 DEF LateOutputIgnored, ToSet
<1>2. (UNCHANGED <<index, artifacts, patchIds>> /\ inTime \subseteq inTime') \/ AcceptOutput
  BY DEF vars, Next, Kernel, BeginCancelled, BeginUncompiled, BeginNodes, CompletePhase,
         StartPhase, NothingToExecute, AbandonPhase, Reuse, StartActivation, Activate,
         ActivationSucceeds, ActivationFails, StartInvocation, Invoke, Settle, StopTerminated,
         HandleFailure, Dispose, Return, InvocationReturns, Cancel, TimeOut, Terminate
<1>3. CASE UNCHANGED <<index, artifacts, patchIds>> /\ inTime \subseteq inTime'
  BY <1>3 DEF LateOutputIgnored, ToSet
<1> QED  BY <1>1, <1>2, <1>3

LEMMA StepReleased ==
  ASSUME TypeOK, Located, Acquired, ReleasedInReverse, [Next]_vars
  PROVE  Acquired' /\ ReleasedInReverse'
<1> USE DEF outside, graph, lifetime, position, owned, document, summary, state
<1>1. CASE ActivationSucceeds
  <2>1. CASE node.plugin \in Disposable
    <3>1. /\ activations' = Append(activations, node.plugin)
          /\ resources' = Append(resources, node.plugin)
          /\ disposed = <<>> /\ disposed' = <<>>
          /\ node.plugin \notin ToSet(activations)
          /\ activated' = activated \cup {node.plugin}
          /\ pc' = "activated"
      BY <1>1, <2>1, AppendIsConcat DEF ActivationSucceeds, Acquired, TypeOK
    <3>2. activations = resources
      BY <3>1, ReverseEmpty DEF ReleasedInReverse, TypeOK
    <3>3. activations' = resources' \o Reverse(disposed')
      <4>1. resources' \in Seq(Disposable)
        BY <2>1, <3>1, AppendProperties DEF TypeOK
      <4> QED  BY <3>1, <3>2, <4>1, ReverseEmpty
    <3>4. \A i, j \in DOMAIN activations' : activations'[i] = activations'[j] => i = j
      <4>1. /\ activations \in Seq(Disposable)
            /\ \A i, j \in DOMAIN activations : activations[i] = activations[j] => i = j
            /\ \A i \in DOMAIN activations : activations[i] # node.plugin
        BY <3>1 DEF ReleasedInReverse, ToSet, TypeOK
      <4> QED  BY <2>1, <3>1, <4>1, AppendDistinct
    <3>5. ToSet(activations') \subseteq activated'
      BY <3>1, AppendProperties DEF Acquired, ToSet, TypeOK
    <3> QED  BY <3>1, <3>3, <3>4, <3>5 DEF Acquired, ReleasedInReverse, Done
  <2>2. CASE node.plugin \notin Disposable
    <3>1. activations' = activations /\ resources' = resources
      BY <1>1, <2>2 DEF ActivationSucceeds, TypeOK
    <3> QED  BY <1>1, <3>1 DEF ActivationSucceeds, Acquired, ReleasedInReverse, Done
  <2> QED  BY <2>1, <2>2
<1>2. ASSUME NEW ok \in BOOLEAN, Dispose(ok)
      PROVE  Acquired' /\ ReleasedInReverse'
  <2>1. /\ resources \in Seq(Disposable) /\ resources # <<>> /\ disposed \in Seq(Disposable)
        /\ resources' = Front(resources)
        /\ disposed' = Append(disposed, Last(resources))
        /\ pc = "dispose" /\ pc' = "dispose"
        /\ UNCHANGED <<activations, activated>>
    BY <1>2 DEF Dispose, Rest, TypeOK
  <2>2. resources \o Reverse(disposed) = resources' \o Reverse(disposed')
    BY <2>1, MoveLast
  <2> QED  BY <2>1, <2>2 DEF Acquired, ReleasedInReverse, Done
<1>3. CASE Return
  BY <1>3 DEF Return, Acquired, ReleasedInReverse, Done
<1>4. CASE StartActivation
  BY <1>4 DEF StartActivation, AtContribution, Cached, node, Acquired, ReleasedInReverse, Done
<1>5. \/ /\ UNCHANGED <<owned, index, plan>>
         /\ pc' = "activating" => pc \in {"activate", "activating"}
         /\ pc' = "activate" => pc = "activate"
         /\ pc \in {"dispose", "done"} => pc' = pc
         /\ pc' = "done" => pc = "done"
      \/ AcceptOutput
      \/ ActivationSucceeds \/ Return \/ StartActivation \/ (\E ok \in BOOLEAN : Dispose(ok))
  BY DEF vars, Next, Kernel, BeginCancelled, BeginUncompiled, BeginNodes, CompletePhase,
         StartPhase, NothingToExecute, AbandonPhase, Reuse, Activate, AtContribution,
         ActivationFails, StartInvocation, Invoke, Settle, StopTerminated,
         HandleFailure, InvocationReturns, Cancel, TimeOut, Terminate
<1>6. CASE AcceptOutput
  BY <1>6 DEF AcceptOutput, Acquired, ReleasedInReverse, Done
<1>7. ASSUME UNCHANGED <<owned, index, plan>>,
             pc' = "activating" => pc \in {"activate", "activating"},
             pc' = "activate" => pc = "activate",
             pc \in {"dispose", "done"} => pc' = pc,
             pc' = "done" => pc = "done"
      PROVE  Acquired' /\ ReleasedInReverse'
  BY <1>7 DEF Acquired, ReleasedInReverse, Done, node
<1> QED  BY <1>1, <1>2, <1>3, <1>4, <1>5, <1>6, <1>7

LEMMA DiagnoseNotEmpty ==
  ASSUME TypeOK, NEW code \in DiagnosticCodes, Diagnose(code)
  PROVE  diagnostics' # <<>>
<1>1. diagnostics \in Seq(DiagnosticCodes)
  BY DEF TypeOK
<1>2. Append(diagnostics, code) # <<>>
  BY <1>1, AppendProperties
<1> QED  BY <1>2 DEF Diagnose

LEMMA FailedDisposalTold ==
  ASSUME TypeOK
  PROVE  /\ disposalFailed => FinalDiagnostics # <<>>
         /\ ~disposalFailed => FinalDiagnostics = diagnostics
<1>1. diagnostics \in Seq(DiagnosticCodes) /\ "internal-failure" \in DiagnosticCodes
  BY DEF TypeOK, DiagnosticCodes
<1>2. Append(diagnostics, "internal-failure") # <<>>
  BY <1>1, AppendProperties
<1> QED  BY <1>2 DEF FinalDiagnostics

LEMMA MarkNotEmpty ==
  ASSUME TypeOK, NEW reason \in {"cancelled", "timed-out"}, MarkTermination(reason),
         cancelled => diagnostics # <<>>
  PROVE  diagnostics' # <<>>
<1>1. CASE cancelled
  BY <1>1 DEF MarkTermination
<1>2. CASE ~cancelled
  BY <1>2, DiagnoseNotEmpty DEF MarkTermination, Diagnose, DiagnosticCodes
<1> QED  BY <1>1, <1>2

LEMMA StepClean ==
  ASSUME TypeOK, CleanUntilStopped, [Next]_vars
  PROVE  CleanUntilStopped'
<1> USE DEF outside, graph, lifetime, position, owned, document, summary, state
<1>1. CASE BeginCancelled \/ StopTerminated
  <2>1. Reason \in {"cancelled", "timed-out"}
        /\ (BeginCancelled => termination \in {"cancelled", "timed-out"})
    BY DEF Reason, BeginCancelled, Terminated, TypeOK
  <2>2. diagnostics' # <<>>
    BY <1>1, <2>1, MarkNotEmpty DEF BeginCancelled, StopTerminated, CleanUntilStopped
  <2> QED  BY <1>1, <2>2 DEF BeginCancelled, StopTerminated, AtContribution, CleanUntilStopped
<1>2. CASE BeginUncompiled \/ ActivationFails \/ HandleFailure
  BY <1>2 DEF BeginUncompiled, ActivationFails, HandleFailure, CleanUntilStopped
<1>3. CASE AcceptOutput
  BY <1>3 DEF AcceptOutput, CleanUntilStopped
<1>4. CASE Return
  <2>1. FinalDiagnostics = <<>> => diagnostics = <<>>
    BY FailedDisposalTold
  <2> QED  BY <1>4, <2>1 DEF Return, CleanUntilStopped
<1>5. ASSUME NEW ok \in BOOLEAN, Dispose(ok)
      PROVE  CleanUntilStopped'
  BY <1>5 DEF Dispose, CleanUntilStopped
<1>6. ASSUME UNCHANGED <<diagnostics, cancelled, disposalFailed, result>>,
             pc \in {"failed", "dispose", "done"} => pc' \in {"failed", "dispose", "done"},
             pc = "done" => pc' = "done"
      PROVE  CleanUntilStopped'
  BY <1>6 DEF CleanUntilStopped
<1> QED
  BY <1>1, <1>2, <1>3, <1>4, <1>5, <1>6
  DEF vars, Next, Kernel, BeginNodes, CompletePhase, StartPhase, NothingToExecute,
      AbandonPhase, Reuse, StartActivation, Activate, AtContribution, ActivationSucceeds,
      StartInvocation, Invoke, Settle, InvocationReturns, Cancel, TimeOut, Terminate

-----------------------------------------------------------------------------
(* The theorems                                                             *)

LEMMA Inductive == IInv /\ [Next]_vars => IInv'
BY StepTyped, StepLocated, StepRace, StepLate, StepLateOutput, StepReleased,
   StepClean
DEF IInv

LEMMA Invariant == Spec => []IInv
BY InitIInv, Inductive, PTL DEF Spec

(* Every variable of a Run keeps its type, whatever the plan, the Plugins,  *)
(* their outputs and the policy.                                            *)
THEOREM TypeCorrect == Spec => []TypeOK
<1>1. IInv => TypeOK
  BY DEF IInv
<1> QED  BY <1>1, Invariant, PTL

(* settleInvocation: a late Plugin output is never accepted.                *)
THEOREM LateIgnored == Spec => []LateOutputIgnored
<1>1. IInv => LateOutputIgnored
  BY DEF IInv
<1> QED  BY <1>1, Invariant, PTL

(* disposeResources: every disposable Plugin that was activated is disposed *)
(* once, in reverse order, before the Result exists.                        *)
THEOREM Released == Spec => []ReleasedInReverse
<1>1. IInv => ReleasedInReverse
  BY DEF IInv
<1> QED  BY <1>1, Invariant, PTL

(* executeContribution: at most one Plugin call follows termination.        *)
THEOREM AtMostOneLateCall == Spec => []OneCallAfterTermination
<1>1. IInv => OneCallAfterTermination
  BY DEF IInv, LateCallIsLast, OneCallAfterTermination
<1> QED  BY <1>1, Invariant, PTL

-----------------------------------------------------------------------------
(* A Run is a fail-open Run                                                 *)

LEMMA InitMaps == Init => FailOpen!Init
<1> SUFFICES ASSUME Init PROVE FailOpen!Init
  OBVIOUS
<1>1. result.status = "none"
  BY DEF Init, NoResult
<1> QED  BY <1>1 DEF Init, FailOpen!Init

LEMMA StepMaps ==
  ASSUME IInv, [Next]_vars
  PROVE  [FailOpen!Next]_FailOpen!vars
<1> USE DEF outside, graph, lifetime, position, owned, document, summary, state
<1>0. /\ TypeOK /\ CleanUntilStopped /\ Located
      /\ Len(plan) \in Nat /\ DOMAIN plan = 1..Len(plan) /\ index \in Nat
  BY PlanEntries DEF IInv, TypeOK
<1> DEFINE Stopped == pc \in {"failed", "dispose", "done"}
           Clean == diagnostics = <<>> /\ ~disposalFailed
<1>1. ASSUME UNCHANGED <<plan, index, Stopped, resources, Clean, result>>
      PROVE  UNCHANGED FailOpen!vars
  BY <1>1 DEF FailOpen!vars
<1>2. ASSUME pc \notin {"failed", "dispose", "done"}, pc' \in {"failed", "dispose"},
             UNCHANGED <<plan, index, resources, result>>,
             ~Clean' \/ index > Len(plan)
      PROVE  FailOpen!Stop
  <2>1. ~Clean' \/ index - 1 = Len(plan)
    BY <1>0, <1>2 DEF TypeOK
  <2>2. (~Clean' => Clean' = FALSE) /\ (Clean' => Clean' = (index - 1 = Len(plan)))
    BY <2>1
  <2>3. Clean' \in {FALSE, index - 1 = Len(plan)}
    BY <2>2
  <2> QED  BY <1>2, <2>3 DEF FailOpen!Stop
<1>3. CASE BeginCancelled \/ StopTerminated
  <2>1. /\ Reason \in {"cancelled", "timed-out"}
        /\ BeginCancelled => termination \in {"cancelled", "timed-out"}
    BY <1>0 DEF Reason, BeginCancelled, Terminated, TypeOK
  <2>2. diagnostics' # <<>>
    BY <1>0, <1>3, <2>1, MarkNotEmpty DEF BeginCancelled, StopTerminated, CleanUntilStopped
  <2> QED
    BY <1>2, <1>3, <2>2 DEF BeginCancelled, StopTerminated, AtContribution, FailOpen!Next
<1>4. CASE BeginUncompiled \/ ActivationFails \/ HandleFailure
  <2>1. diagnostics' # <<>>
    BY <1>0, <1>4, DiagnoseNotEmpty
    DEF BeginUncompiled, ActivationFails, HandleFailure, DiagnosticCodes
  <2> QED
    BY <1>2, <1>4, <2>1 DEF BeginUncompiled, ActivationFails, HandleFailure, FailOpen!Next
<1>5. CASE CompletePhase \/ NothingToExecute
  <2>1. CASE Remaining
    BY <1>1, <1>5, <2>1 DEF CompletePhase, NothingToExecute
  <2>2. CASE ~Remaining
    BY <1>0, <1>2, <1>5, <2>2 DEF CompletePhase, NothingToExecute, Remaining, FailOpen!Next
  <2> QED  BY <2>1, <2>2
<1>6. CASE AcceptOutput
  <2>1. CASE Acceptable
    <3>1. index \in 1..Len(plan)
      BY <1>0, <1>6 DEF AcceptOutput, Located, Contributing
    <3>2. FailOpen!Take
      BY <1>0, <1>6, <2>1, <3>1 DEF AcceptOutput, FailOpen!Take
    <3> QED  BY <3>2 DEF FailOpen!Next
  <2>2. CASE ~Acceptable
    <3>1. diagnostics' # <<>>
      BY <1>0, <1>6, <2>2, DiagnoseNotEmpty DEF AcceptOutput, DiagnosticCodes
    <3> QED  BY <1>2, <1>6, <2>2, <3>1 DEF AcceptOutput, FailOpen!Next
  <2> QED  BY <2>1, <2>2
<1>7. CASE ActivationSucceeds
  <2>1. index \in 1..Len(plan)
    BY <1>0, <1>7 DEF ActivationSucceeds, Located, Contributing
  <2>2. CASE node.plugin \in Disposable
    <3>1. resources' = Append(resources, node.plugin)
      BY <1>0, <1>7, <2>2, AppendIsConcat DEF ActivationSucceeds, TypeOK
    <3>2. FailOpen!Acquire(node.plugin)
      BY <1>0, <1>7, <2>1, <3>1 DEF ActivationSucceeds, FailOpen!Acquire
    <3> QED  BY <2>2, <3>2 DEF FailOpen!Next
  <2>3. CASE node.plugin \notin Disposable
    <3>1. resources' = resources
      BY <1>0, <1>7, <2>3 DEF ActivationSucceeds, TypeOK
    <3> QED  BY <1>1, <1>7, <3>1 DEF ActivationSucceeds
  <2> QED  BY <2>2, <2>3
<1>8. ASSUME NEW ok \in BOOLEAN, Dispose(ok)
      PROVE  [FailOpen!Next]_FailOpen!vars
  <2>1. FailOpen!Release
    BY <1>8 DEF Dispose, Rest, Front, FailOpen!Release
  <2> QED  BY <2>1 DEF FailOpen!Next
<1>9. CASE Return
  <2>1. result.status = "none"
    BY <1>0, <1>9 DEF Return, CleanUntilStopped, NoResult
  <2>2. Clean' = Clean /\ (FinalDiagnostics = <<>> <=> Clean)
    <3>1. diagnostics' = FinalDiagnostics /\ disposalFailed' = disposalFailed
      BY <1>9 DEF Return
    <3>2. /\ disposalFailed => FinalDiagnostics # <<>>
          /\ ~disposalFailed => FinalDiagnostics = diagnostics
      BY <1>0, FailedDisposalTold
    <3> QED  BY <3>1, <3>2
  <2>3. result'.status \in IF Clean THEN {"success"} ELSE {"degraded", "cancelled"}
    <3>1. Clean => ~cancelled
      BY <1>0 DEF CleanUntilStopped
    <3> QED  BY <1>9, <2>2, <3>1 DEF Return, CreateResult
  <2>4. FailOpen!Return
    BY <1>9, <2>1, <2>2, <2>3 DEF Return, FailOpen!Return
  <2> QED  BY <2>4 DEF FailOpen!Next
<1>10. CASE BeginNodes \/ StartPhase \/ AbandonPhase \/ Reuse \/ StartActivation \/ Activate
            \/ StartInvocation \/ Invoke \/ Settle
  BY <1>1, <1>10
  DEF BeginNodes, StartPhase, AbandonPhase, Reuse, StartActivation, Activate,
      AtContribution, StartInvocation, Invoke, Settle
<1>11. CASE UNCHANGED vars
  BY <1>1, <1>11 DEF vars
<1>12. ASSUME NEW i, NEW kind, NEW o, InvocationReturns(i, kind, o)
       PROVE  UNCHANGED FailOpen!vars
  BY <1>1, <1>12 DEF InvocationReturns
<1>13. ASSUME NEW cause, Terminate(cause)
       PROVE  UNCHANGED FailOpen!vars
  BY <1>1, <1>13 DEF Terminate
<1> QED
  BY <1>3, <1>4, <1>5, <1>6, <1>7, <1>8, <1>9, <1>10, <1>11, <1>12, <1>13
  DEF Next, Kernel, Cancel, TimeOut

(* executePluginPlan implements FailOpenRun.                                *)
THEOREM RunIsFailOpen == Spec => ImplementsFailOpen
<1>1. IInv /\ [Next]_vars => [FailOpen!Next]_FailOpen!vars
  BY StepMaps
<1> QED  BY InitMaps, <1>1, Invariant, PTL DEF Spec, ImplementsFailOpen, FailOpen!Spec


-----------------------------------------------------------------------------
(* The inductive invariant, beyond IInv.                                    *)

Executing == Contributing \cup {"loop"}
PhaseOpen == pc \in Contributing \/ (pc = "loop" /\ activePhase # NoPhase)

(* A race lost to the abort and an announced cancellation both mean that    *)
(* the Run is terminated; nothing can start or announce it again.           *)
Stopping ==
  /\ settlement = "cancelled" => Terminated
  /\ cancelled => Terminated

(* Where the kernel is tells the phase it is in.                            *)
InPhase ==
  /\ pc \in Contributing => activePhase = node.phase
  /\ pc = "begin" => index = 1 /\ activePhase = NoPhase
  /\ pc = "loop" =>
       IF activePhase = NoPhase THEN index = 1
       ELSE index > 1 /\ activePhase = plan[index - 1].phase
  /\ pc = "phase" => index > 1 /\ node.phase # plan[index - 1].phase

(* Of each sort of Event, which may be open: started and not completed yet. *)
OpenNow(i) ==
  \/ events[i].of = "phase" /\ PhaseOpen /\ events[i].phase = activePhase
  \/ /\ \/ events[i].of = "activation" /\ pc \in {"activate", "activating"}
        \/ events[i].of = "invocation" /\ pc \in {"invoke", "invoking"}
     /\ events[i].phase = activePhase /\ events[i].at = index

Opens(i) == events[i].edge = "started" /\ events[i].of # "cancellation"
LastOfSort(i) == \A j \in EventsOf(events[i].of) : j <= i
Closed(i) ==
  \E j \in EventsOf(events[i].of) : i < j /\ Closes(j, i) /\ Within(i, j) = {}
InsidePhase(i) ==
  \E j \in EventsOf("phase") :
    /\ j < i /\ events[j].edge = "started" /\ events[j].phase = events[i].phase
    /\ \A k \in EventsOf("phase") : k <= j \/ k > i

Nesting ==
  /\ \A i \in DOMAIN events : Opens(i) => Closed(i) \/ (LastOfSort(i) /\ OpenNow(i))
  /\ \A i \in DOMAIN events : events[i].of \in {"activation", "invocation"} => InsidePhase(i)
  /\ PhaseOpen =>
       \E j \in EventsOf("phase") :
         events[j].edge = "started" /\ events[j].phase = activePhase /\ LastOfSort(j)

(* A Patch id and an Artifact belong to a contribution already executed;    *)
(* only the one that stopped the Run may have left Patches without having   *)
(* been accepted.                                                           *)
PatchesOf(ids, c) == Cardinality({k \in DOMAIN ids : ids[k] = c})
Provenance ==
  /\ \A k \in DOMAIN patchIds :
       patchIds[k] <= index /\ (pc \notin {"failed", "dispose", "done"} => patchIds[k] < index)
  /\ \A i \in DOMAIN artifacts :
       artifacts[i].at < index /\ artifacts[i].patches = PatchesOf(patchIds, artifacts[i].at)

(* The phases completed so far are those of the contributions behind        *)
(* `index' but for the one it is in.                                        *)
Behind == {plan[i].phase : i \in 1..index - 1}
Progress ==
  /\ ToSet(completedPhases) = {p \in Phases : Succeeded(p)}
  /\ pc \in {"begin"} \cup Executing => ToSet(completedPhases) = Behind \ {activePhase}
  /\ pc = "phase" => ToSet(completedPhases) = Behind
  /\ pc \in {"dispose", "done"} => ToSet(completedPhases) = Behind \ Unfinished
  /\ pc \notin {"dispose", "done"} => failedPhases = <<>>
  /\ ToSet(failedPhases) \subseteq {plan[i].phase : i \in {index} \cap DOMAIN plan}
  /\ cancelled => failedPhases = <<>>

(* What stops a Run before its plan is finished leaves a diagnostic.        *)
Accounted ==
  /\ pc \notin {"begin", "dispose", "done"} => compiled
  /\ pc = "failed" => index \in DOMAIN plan /\ diagnostics # <<>>
  /\ (pc = "dispose" /\ ~cancelled) =>
       (diagnostics = <<>> <=> compiled /\ index > Len(plan))
  /\ Done =>
       /\ result.status = IF cancelled THEN "cancelled"
                          ELSE IF compiled /\ index > Len(plan) /\ ~disposalFailed
                          THEN "success" ELSE "degraded"
       /\ result.primary = Primary
       /\ result.alternatives = OfKinds(Policy.alternatives) \ {Primary}
       /\ result.exposed = OfKinds(Policy.exposed)
       /\ result.completed = completedPhases
       /\ result.failed = failedPhases

HInv ==
  /\ Stopping /\ CancellationAnnounced
  /\ InPhase /\ Nesting
  /\ Provenance
  /\ Progress /\ Accounted

-----------------------------------------------------------------------------
(* Facts about the data                                                     *)

LEMMA InitHInv == Init => HInv
<1> SUFFICES ASSUME Init PROVE HInv
  OBVIOUS
<1>1. Stopping /\ CancellationAnnounced /\ InPhase
  BY DEF Init, Stopping, CancellationAnnounced, EventsOf, InPhase, Contributing
<1>2. Nesting
  BY DEF Init, Nesting, PhaseOpen, Contributing
<1>3. Provenance
  BY DEF Init, Provenance
<1>4. Progress /\ Accounted
  <2>1. Behind = {}
    BY DEF Init, Behind
  <2>2. {p \in Phases : Succeeded(p)} = {}
    BY DEF Init, Succeeded, EventsOf
  <2> QED
    BY <2>1, <2>2 DEF Init, Progress, Accounted, ToSet, Done, Executing
<1> QED  BY <1>1, <1>2, <1>3, <1>4 DEF HInv

(* Emitting adds one Event at the end and changes no other.                 *)
LEMMA Emitted ==
  ASSUME TypeOK, NEW e, events' = Append(events, e)
  PROVE  /\ Len(events) \in Nat /\ DOMAIN events = 1..Len(events)
         /\ DOMAIN events' = 1..Len(events) + 1
         /\ events'[Len(events) + 1] = e
         /\ \A i \in DOMAIN events : events'[i] = events[i]
<1>1. events \in Seq(EventRecord)
  BY DEF TypeOK
<1> QED  BY <1>1

(* A nonempty set of natural numbers has a least element.                   *)
LEMMA LeastNatural ==
  ASSUME NEW S \in SUBSET Nat, S # {}
  PROVE  \E i \in S : \A j \in S : i <= j
<1> DEFINE R == OpToRel(<, Nat)
<1>1. IsWellFoundedOn(R, Nat)
  BY NatLessThanWellFounded, Zenon
<1>2. \A i, j \in Nat : i < j => <<i, j>> \in R
  BY DEF OpToRel
<1> HIDE DEF R
<1> SUFFICES ASSUME NEW i \in S, \A j \in S : ~(<<j, i>> \in R), NEW j \in S
             PROVE  i <= j
  BY <1>1, WFMin
<1>3. ~(j < i)
  BY <1>2
<1> QED  BY <1>3

-----------------------------------------------------------------------------
(* The announcement of a cancellation                                       *)

LEMMA StepStopping ==
  ASSUME TypeOK, Stopping, [Next]_vars
  PROVE  Stopping'
<1> USE DEF outside, graph, lifetime, position, owned, document, summary, state
<1>1. CASE Invoke
  BY <1>1 DEF Invoke, Race, Stopping, Terminated
<1>2. ASSUME NEW i, NEW kind \in {"output", "failure"}, NEW o, InvocationReturns(i, kind, o)
      PROVE  Stopping'
  BY <1>2 DEF InvocationReturns, Stopping, Terminated
<1>3. ASSUME NEW cause \in {"cancelled", "timed-out"}, Terminate(cause)
      PROVE  Stopping'
  BY <1>3 DEF Terminate, Stopping, Terminated
<1>4. CASE BeginCancelled \/ StopTerminated
  BY <1>4 DEF BeginCancelled, StopTerminated, Stopping, Terminated
<1>5. CASE UNCHANGED <<settlement, termination, cancelled>>
  BY <1>5 DEF Stopping, Terminated
<1> QED
  BY <1>1, <1>2, <1>3, <1>4, <1>5
  DEF vars, Next, Kernel, BeginUncompiled, BeginNodes, CompletePhase,
      StartPhase, NothingToExecute, AbandonPhase, Reuse, StartActivation, Activate,
      ActivationSucceeds, ActivationFails, StartInvocation, Settle,
      HandleFailure, AcceptOutput, Dispose, Return, Cancel, TimeOut

(* What is emitted, and when, as far as a cancellation is concerned.        *)
LEMMA EmittedWhat ==
  ASSUME [Next]_vars
  PROVE  \/ UNCHANGED <<events, cancelled>>
         \/ /\ \E of, edge, phase, status :
                 /\ of \in {"phase", "activation", "invocation"} /\ Emit(of, edge, phase, status)
                 /\ of = "phase" \/ pc # "failed"
            /\ pc \notin {"dispose", "done"}
            /\ UNCHANGED <<cancelled, termination>>
         \/ BeginCancelled \/ StopTerminated
<1> USE DEF outside, graph, lifetime, position, owned, document, summary, state
<1>1. CASE CompletePhase \/ StartPhase \/ AbandonPhase
  BY <1>1 DEF CompletePhase, StartPhase, AbandonPhase
<1>2. CASE StartActivation \/ ActivationSucceeds \/ ActivationFails
  BY <1>2 DEF StartActivation, AtContribution, ActivationSucceeds, ActivationFails
<1>3. CASE StartInvocation \/ Settle
  BY <1>3 DEF StartInvocation, Settle
<1> QED
  BY <1>1, <1>2, <1>3
  DEF vars, Next, Kernel, BeginUncompiled, BeginNodes, NothingToExecute, Reuse, Activate,
      Invoke, InvocationReturns, HandleFailure, AcceptOutput, Dispose, Return, Cancel,
      TimeOut, Terminate

(* The first mark is the announcement.                                      *)
LEMMA MarkAnnounces ==
  ASSUME TypeOK, CancellationAnnounced, ~cancelled, MarkTermination(termination),
         UNCHANGED termination
  PROVE  CancellationAnnounced'
<1>1. /\ cancelled' = TRUE
      /\ Emit("cancellation", "started", activePhase, termination)
  BY DEF MarkTermination
<1>2. EventsOf("cancellation") = {}
  BY DEF CancellationAnnounced
<1> DEFINE n == Len(events) + 1
<1>3. /\ Len(events) \in Nat /\ DOMAIN events = 1..Len(events)
      /\ DOMAIN events' = 1..n
      /\ events'[n].of = "cancellation" /\ events'[n].status = termination
      /\ \A i \in DOMAIN events : events'[i] = events[i]
  <2>1. Emit("cancellation", "started", activePhase, termination)
    BY <1>1
  <2> QED  BY <2>1, Emitted DEF Emit
<1>4. \A i \in DOMAIN events' : i = n \/ events'[i].of # "cancellation"
  BY <1>2, <1>3 DEF EventsOf
<1>5. n \in DOMAIN events' /\ \A j \in DOMAIN events' : ~(j > n)
  BY <1>3
<1> QED  BY <1>1, <1>3, <1>4, <1>5 DEF CancellationAnnounced, EventsOf

LEMMA StepAnnounced ==
  ASSUME TypeOK, CleanUntilStopped, Stopping, CancellationAnnounced, [Next]_vars
  PROVE  CancellationAnnounced'
<1> USE DEF outside, graph, lifetime, position, owned, document, summary, state
<1>1. CASE UNCHANGED <<events, cancelled>>
  <2>1. CASE cancelled
    <3>1. Terminated
      BY <2>1 DEF Stopping
    <3>2. UNCHANGED termination
      BY <3>1
      DEF vars, Next, Kernel, BeginCancelled, BeginUncompiled, BeginNodes, CompletePhase,
          StartPhase, NothingToExecute, AbandonPhase, Reuse, StartActivation, Activate,
          ActivationSucceeds, ActivationFails, StartInvocation, Invoke, Settle,
          StopTerminated, HandleFailure, AcceptOutput, Dispose, Return, InvocationReturns,
          Cancel, TimeOut, Terminate
    <3> QED  BY <1>1, <3>2 DEF CancellationAnnounced, EventsOf
  <2>2. CASE ~cancelled
    BY <1>1, <2>2 DEF CancellationAnnounced, EventsOf
  <2> QED  BY <2>1, <2>2
<1>2. ASSUME NEW of \in {"phase", "activation", "invocation"}, NEW edge, NEW phase, NEW status,
             Emit(of, edge, phase, status), of = "phase" \/ pc # "failed",
             pc \notin {"dispose", "done"}, UNCHANGED <<cancelled, termination>>
      PROVE  CancellationAnnounced'
  <2> DEFINE n == Len(events) + 1
  <2>1. /\ Len(events) \in Nat /\ DOMAIN events = 1..Len(events)
        /\ DOMAIN events' = 1..n
        /\ events'[n].of = of
        /\ \A i \in DOMAIN events : events'[i] = events[i]
    <3>1. Emit(of, edge, phase, status)
      BY <1>2
    <3> QED  BY <3>1, Emitted DEF Emit
  <2>2. EventsOf("cancellation")' = EventsOf("cancellation")
    BY <2>1 DEF EventsOf
  <2>3. cancelled => of = "phase"
    BY <1>2 DEF CleanUntilStopped
  <2>4. \A i \in EventsOf("cancellation") : \A j \in DOMAIN events' :
          j > i => events'[j].of = "phase"
    BY <2>1, <2>3 DEF EventsOf, CancellationAnnounced
  <2>5. \A i \in EventsOf("cancellation") : events'[i].status = termination
    BY <2>1 DEF EventsOf, CancellationAnnounced
  <2>6. cancelled <=> EventsOf("cancellation") # {}
    BY DEF CancellationAnnounced
  <2> HIDE DEF n
  <2> QED  BY <1>2, <2>2, <2>4, <2>5, <2>6 DEF CancellationAnnounced
<1>3. CASE BeginCancelled
  BY <1>3, MarkAnnounces DEF BeginCancelled, CleanUntilStopped
<1>4. CASE StopTerminated
  <2>1. Terminated
    BY <1>4 DEF StopTerminated, Stopping
  <2>2. ~cancelled
    BY <1>4 DEF StopTerminated, AtContribution, CleanUntilStopped
  <2> QED  BY <1>4, <2>1, <2>2, MarkAnnounces DEF StopTerminated, Reason
<1> QED  BY <1>1, <1>2, <1>3, <1>4, EmittedWhat

-----------------------------------------------------------------------------
(* The phase the kernel is in                                               *)

LEMMA StepInPhase ==
  ASSUME TypeOK, Located, InPhase, [Next]_vars
  PROVE  InPhase'
<1> USE DEF outside, graph, lifetime, position, owned, document, summary, state
<1>0. /\ Len(plan) \in Nat /\ DOMAIN plan = 1..Len(plan) /\ index \in 1..Len(plan) + 1
      /\ NoPhase \notin Phases
  BY PlanEntries, ExecutionAssumption DEF TypeOK
<1>1. UNCHANGED plan
  BY DEF vars, Next, Kernel, BeginCancelled, BeginUncompiled, BeginNodes, CompletePhase,
         StartPhase, NothingToExecute, AbandonPhase, Reuse, StartActivation, Activate,
         ActivationSucceeds, ActivationFails, StartInvocation, Invoke, Settle, StopTerminated,
         HandleFailure, AcceptOutput, Dispose, Return, InvocationReturns, Cancel, TimeOut,
         Terminate
<1>2. CASE UNCHANGED <<pc, index, activePhase>>
  BY <1>1, <1>2 DEF InPhase, node
<1>3. CASE pc' \in {"dispose", "done"}
  BY <1>3 DEF InPhase, Contributing
<1>4. CASE /\ UNCHANGED <<index, activePhase>> /\ pc' \in Contributing
           /\ pc \in Contributing \/ AtContribution
  BY <1>1, <1>4 DEF InPhase, AtContribution, Contributing, node
<1>5. CASE CompletePhase
  BY <1>0, <1>1, <1>5 DEF CompletePhase, InPhase, Remaining, Contributing, node
<1>6. CASE StartPhase
  BY <1>0, <1>1, <1>6 DEF StartPhase, InPhase, node
<1>7. CASE BeginNodes
  BY <1>1, <1>7 DEF BeginNodes, InPhase, Contributing
<1>8. CASE AcceptOutput
  <2>1. /\ index \in DOMAIN plan /\ activePhase = plan[index].phase /\ activePhase # NoPhase
        /\ UNCHANGED activePhase
    BY <1>0, <1>8 DEF AcceptOutput, InPhase, Located, Contributing, node
  <2>2. CASE Acceptable
    BY <1>0, <1>1, <1>8, <2>1, <2>2 DEF AcceptOutput, InPhase, Contributing
  <2>3. CASE ~Acceptable
    BY <1>1, <1>8, <2>1, <2>3 DEF AcceptOutput, InPhase, Contributing, node
  <2> QED  BY <2>2, <2>3
<1> QED
  BY <1>2, <1>3, <1>4, <1>5, <1>6, <1>7, <1>8
  DEF vars, Next, Kernel, BeginCancelled, BeginUncompiled, NothingToExecute, AbandonPhase,
      Reuse, StartActivation, Activate, ActivationSucceeds, ActivationFails, StartInvocation,
      Invoke, Settle, StopTerminated, HandleFailure, Dispose, Return, InvocationReturns,
      Cancel, TimeOut, Terminate, AtContribution, Contributing

-----------------------------------------------------------------------------
(* The nesting of Events                                                    *)

(* What an Event may do to those that are open: one of the same sort is     *)
(* completed by it and every other one stays open, one that starts finds    *)
(* its phase open, and is open then.                                        *)
LEMMA EmitNests ==
  ASSUME TypeOK, Nesting,
         NEW of \in {"phase", "activation", "invocation", "cancellation"},
         NEW edge \in {"started", "completed"}, NEW phase, NEW status,
         Emit(of, edge, phase, status),
         \A i \in DOMAIN events : OpenNow(i) =>
           IF events[i].of = of
           THEN /\ edge = "completed" /\ events[i].phase = phase
                /\ of # "phase" => events[i].at = index
           ELSE OpenNow(i)',
         (edge = "started" /\ of # "cancellation") => OpenNow(Len(events))',
         of \in {"activation", "invocation"} => PhaseOpen /\ phase = activePhase,
         PhaseOpen' =>
           \/ of # "phase" /\ PhaseOpen /\ activePhase' = activePhase
           \/ of = "phase" /\ edge = "started" /\ phase = activePhase'
  PROVE  Nesting'
<1>0. PICK n : n = Len(events) + 1
  OBVIOUS
<1>1. /\ Len(events) \in Nat /\ DOMAIN events = 1..Len(events)
      /\ DOMAIN events' = 1..n
      /\ events'[n] = [of |-> of, edge |-> edge, phase |-> phase, at |-> index,
                       status |-> status]
      /\ \A i \in DOMAIN events : events'[i] = events[i]
  BY <1>0, Emitted DEF Emit
<1>2. /\ events'[n].of = of /\ events'[n].edge = edge
      /\ events'[n].phase = phase /\ events'[n].at = index
      /\ n \in Nat /\ DOMAIN events' = DOMAIN events \cup {n}
      /\ \A i \in DOMAIN events : i < n /\ i \in Nat
  BY <1>0, <1>1
<1>3. \A s : /\ s # of => EventsOf(s)' = EventsOf(s)
             /\ s = of => EventsOf(s)' = EventsOf(s) \cup {n}
  BY <1>1, <1>2 DEF EventsOf
<1>4. \A s : EventsOf(s) \subseteq DOMAIN events
  BY DEF EventsOf
<1>5. ASSUME NEW i \in DOMAIN events', Opens(i)'
      PROVE  Closed(i)' \/ (LastOfSort(i)' /\ OpenNow(i)')
  <2>1. CASE i = n
    <3>1. edge = "started" /\ of # "cancellation"
      BY <1>2, <1>5, <2>1 DEF Opens
    <3>2. OpenNow(n)'
      <4>1. Len(events') = n
        BY <1>0 DEF Emit, TypeOK
      <4> QED  BY <3>1, <4>1
    <3>3. LastOfSort(n)'
      BY <1>2 DEF LastOfSort, EventsOf
    <3> QED  BY <2>1, <3>2, <3>3
  <2>2. CASE i \in DOMAIN events
    <3>1. Opens(i) /\ events'[i] = events[i]
      BY <1>1, <1>5, <2>2 DEF Opens
    <3>2. CASE Closed(i)
      <4>1. PICK j \in EventsOf(events[i].of) : i < j /\ Closes(j, i) /\ Within(i, j) = {}
        BY <3>2 DEF Closed
      <4>2. j \in EventsOf(events[i].of)' /\ j < n /\ events'[j] = events[j]
        BY <1>1, <1>2, <1>3, <1>4, <4>1
      <4>3. Closes(j, i)'
        BY <3>1, <4>1, <4>2 DEF Closes
      <4>4. Within(i, j)' = {}
        BY <1>2, <1>3, <1>4, <3>1, <4>1, <4>2 DEF Within
      <4> QED  BY <3>1, <4>1, <4>2, <4>3, <4>4 DEF Closed
    <3>3. CASE LastOfSort(i) /\ OpenNow(i) /\ events[i].of = of
      <4>1. /\ edge = "completed" /\ events[i].phase = phase
            /\ of # "phase" => events[i].at = index
        BY <2>2, <3>3
      <4>2. n \in EventsOf(of)'
        BY <1>3
      <4>3. Closes(n, i)'
        BY <1>2, <3>1, <3>3, <4>1 DEF Closes
      <4>4. Within(i, n)' = {}
        <5>1. \A k \in EventsOf(of) : k <= i /\ k \in Nat
          BY <1>2, <1>4, <3>3 DEF LastOfSort
        <5>2. \A k \in EventsOf(of) \cup {n} : ~(i < k /\ k < n)
          BY <1>2, <2>2, <5>1
        <5>3. \A k \in EventsOf(of)' : ~(i < k /\ k < n)
          BY <1>3, <5>2
        <5> QED  BY <3>1, <3>3, <5>3 DEF Within, EventsOf
      <4> QED  BY <1>2, <2>2, <3>1, <3>3, <4>2, <4>3, <4>4 DEF Closed
    <3>4. CASE LastOfSort(i) /\ OpenNow(i) /\ events[i].of # of
      BY <1>3, <2>2, <3>1, <3>4 DEF LastOfSort
    <3> QED  BY <2>2, <3>1, <3>2, <3>3, <3>4 DEF Nesting
  <2> QED  BY <1>2, <2>1, <2>2
<1>6. ASSUME NEW i \in DOMAIN events', events'[i].of \in {"activation", "invocation"}
      PROVE  InsidePhase(i)'
  <2>1. CASE i = n
    <3>1. of \in {"activation", "invocation"}
      BY <1>2, <1>6, <2>1
    <3>2. PhaseOpen /\ phase = activePhase
      BY <3>1
    <3>3. PICK j \in EventsOf("phase") :
            events[j].edge = "started" /\ events[j].phase = activePhase /\ LastOfSort(j)
      BY <3>2 DEF Nesting
    <3>4. events[j].of = "phase" /\ j \in DOMAIN events
      BY DEF EventsOf
    <3>5. EventsOf("phase")' = EventsOf("phase")
      BY <1>3, <3>1
    <3>6. \A k \in EventsOf("phase")' : k <= j
      BY <3>3, <3>4, <3>5 DEF LastOfSort
    <3>7. j < n /\ events'[j] = events[j] /\ events'[n].phase = activePhase
      BY <1>1, <1>2, <3>2, <3>4
    <3> QED  BY <2>1, <3>3, <3>5, <3>6, <3>7 DEF InsidePhase
  <2>2. CASE i \in DOMAIN events
    <3>1. InsidePhase(i) /\ events'[i] = events[i]
      BY <1>1, <1>6, <2>2 DEF Nesting
    <3>2. PICK j \in EventsOf("phase") :
            /\ j < i /\ events[j].edge = "started" /\ events[j].phase = events[i].phase
            /\ \A k \in EventsOf("phase") : k <= j \/ k > i
      BY <3>1 DEF InsidePhase
    <3>3. j \in EventsOf("phase")' /\ events'[j] = events[j]
      BY <1>1, <1>3, <1>4, <3>2
    <3>4. \A k \in EventsOf("phase")' : k <= j \/ k > i
      BY <1>2, <1>3, <2>2, <3>2
    <3> QED  BY <3>1, <3>2, <3>3, <3>4 DEF InsidePhase
  <2> QED  BY <1>2, <2>1, <2>2
<1>7. ASSUME PhaseOpen'
      PROVE  \E j \in EventsOf("phase")' :
               events'[j].edge = "started" /\ events'[j].phase = activePhase' /\ LastOfSort(j)'
  <2>1. CASE of # "phase" /\ PhaseOpen /\ activePhase' = activePhase
    <3>1. PICK j \in EventsOf("phase") :
            events[j].edge = "started" /\ events[j].phase = activePhase /\ LastOfSort(j)
      BY <2>1 DEF Nesting
    <3>2. events[j].of = "phase" /\ j \in DOMAIN events
      BY DEF EventsOf
    <3>3. EventsOf("phase")' = EventsOf("phase") /\ events'[j] = events[j]
      BY <1>1, <1>3, <2>1, <3>2
    <3> QED  BY <2>1, <3>1, <3>2, <3>3 DEF LastOfSort
  <2>2. CASE of = "phase" /\ edge = "started" /\ phase = activePhase'
    <3>1. n \in EventsOf("phase")'
      BY <1>3, <2>2
    <3>2. LastOfSort(n)'
      BY <1>2 DEF LastOfSort, EventsOf
    <3> QED  BY <1>2, <2>2, <3>1, <3>2
  <2> QED  BY <1>7, <2>1, <2>2
<1> QED  BY <1>5, <1>6, <1>7 DEF Nesting

LEMMA QuietNests ==
  ASSUME Nesting, UNCHANGED events,
         \A i \in DOMAIN events : OpenNow(i) => OpenNow(i)',
         PhaseOpen' => PhaseOpen /\ activePhase' = activePhase
  PROVE  Nesting'
BY DEF Nesting, Opens, Closed, Closes, Within, LastOfSort, InsidePhase, EventsOf

LEMMA ContributionInPhase ==
  ASSUME TypeOK, Located, AtContribution
  PROVE  PhaseOpen
<1>1. CASE pc = "contribute"
  BY <1>1 DEF PhaseOpen, Contributing
<1>2. CASE pc = "loop" /\ Remaining /\ node.phase = activePhase
  <2>1. index \in DOMAIN plan
    BY <1>2, PlanEntries DEF Remaining, TypeOK
  <2>2. activePhase \in Phases
    BY <1>2, <2>1, PlanEntries DEF node, TypeOK
  <2> QED  BY <1>2, <2>2, ExecutionAssumption DEF PhaseOpen
<1> QED  BY <1>1, <1>2 DEF AtContribution

(* The Event just emitted is the last one, and the others are as they were. *)
LEMMA LastEmitted ==
  ASSUME TypeOK, NEW e, events' = Append(events, e)
  PROVE  /\ events'[Len(events')] = e
         /\ \A i \in DOMAIN events : events'[i] = events[i]
BY DEF TypeOK

LEMMA PhaseEventsNest ==
  ASSUME TypeOK, Located, InPhase, Nesting, CompletePhase \/ StartPhase \/ AbandonPhase
  PROVE  Nesting'
<1> USE DEF outside, graph, lifetime, position, owned, document, summary, state
<1>0. NoPhase \notin Phases
  BY ExecutionAssumption
<1>1. CASE CompletePhase
  <2>1. /\ Emit("phase", "completed", activePhase, "success")
        /\ pc = "loop" /\ pc' \in {"phase", "dispose"}
    BY <1>1 DEF CompletePhase
  <2>2. ASSUME NEW i \in DOMAIN events, OpenNow(i)
        PROVE  events[i].of = "phase" /\ events[i].phase = activePhase
    BY <2>1, <2>2 DEF OpenNow
  <2>3. ~PhaseOpen'
    BY <2>1 DEF PhaseOpen, Contributing
  <2> QED  BY <2>1, <2>2, <2>3, EmitNests
<1>2. CASE StartPhase
  <2>1. /\ Emit("phase", "started", node.phase, "none")
        /\ pc = "phase" \/ (pc = "loop" /\ activePhase = NoPhase)
        /\ activePhase' = node.phase /\ pc' = "contribute"
    BY <1>2 DEF StartPhase
  <2>2. ASSUME NEW i \in DOMAIN events
        PROVE  ~OpenNow(i)
    BY <2>1 DEF OpenNow, PhaseOpen, Contributing
  <2>3. PhaseOpen'
    BY <2>1 DEF PhaseOpen, Contributing
  <2>4. OpenNow(Len(events))'
    BY <2>1, <2>3, LastEmitted DEF OpenNow, Emit
  <2> QED  BY <2>1, <2>2, <2>4, EmitNests
<1>3. CASE AbandonPhase
  <2>1. /\ Emit("phase", "completed", activePhase, "degraded")
        /\ pc = "failed" /\ pc' = "dispose"
    BY <1>3 DEF AbandonPhase
  <2>2. ASSUME NEW i \in DOMAIN events, OpenNow(i)
        PROVE  events[i].of = "phase" /\ events[i].phase = activePhase
    BY <2>1, <2>2 DEF OpenNow
  <2>3. ~PhaseOpen'
    BY <2>1 DEF PhaseOpen, Contributing
  <2> QED  BY <2>1, <2>2, <2>3, EmitNests
<1> QED  BY <1>1, <1>2, <1>3

LEMMA PluginEventsNest ==
  ASSUME TypeOK, Located, Nesting,
         \/ StartActivation \/ ActivationSucceeds \/ ActivationFails
         \/ StartInvocation \/ Settle
  PROVE  Nesting'
<1> USE DEF outside, graph, lifetime, position, owned, document, summary, state
<1>1. CASE StartActivation
  <2>1. /\ Emit("activation", "started", activePhase, "none")
        /\ pc' = "activate" /\ UNCHANGED <<activePhase, index>>
        /\ pc \in {"loop", "contribute"} /\ PhaseOpen
    BY <1>1, ContributionInPhase DEF StartActivation, AtContribution
  <2>2. PhaseOpen'
    BY <2>1 DEF PhaseOpen, Contributing
  <2>3. ASSUME NEW i \in DOMAIN events, OpenNow(i)
        PROVE  events[i].of = "phase" /\ OpenNow(i)'
    BY <2>1, <2>2, <2>3, LastEmitted DEF OpenNow, Emit
  <2>4. OpenNow(Len(events))'
    BY <2>1, LastEmitted DEF OpenNow, Emit
  <2> QED  BY <2>1, <2>2, <2>3, <2>4, EmitNests
<1>2. ASSUME NEW s \in {"success", "failed"},
             Emit("activation", "completed", activePhase, s),
             pc \in {"activate", "activating"}, pc' \in {"activated", "failed"},
             UNCHANGED <<activePhase, index>>
      PROVE  Nesting'
  <2>1. PhaseOpen /\ PhaseOpen'
    BY <1>2 DEF PhaseOpen, Contributing
  <2>2. ASSUME NEW i \in DOMAIN events, OpenNow(i)
        PROVE  IF events[i].of = "activation"
               THEN events[i].phase = activePhase /\ events[i].at = index
               ELSE OpenNow(i)'
    BY <1>2, <2>1, <2>2, LastEmitted DEF OpenNow, Emit
  <2> QED  BY <1>2, <2>1, <2>2, EmitNests
<1>3. CASE StartInvocation
  <2>1. /\ Emit("invocation", "started", activePhase, "none")
        /\ pc' = "invoke" /\ UNCHANGED <<activePhase, index>> /\ pc = "activated"
    BY <1>3 DEF StartInvocation
  <2>2. PhaseOpen /\ PhaseOpen'
    BY <2>1 DEF PhaseOpen, Contributing
  <2>3. ASSUME NEW i \in DOMAIN events, OpenNow(i)
        PROVE  events[i].of = "phase" /\ OpenNow(i)'
    BY <2>1, <2>2, <2>3, LastEmitted DEF OpenNow, Emit
  <2>4. OpenNow(Len(events))'
    BY <2>1, LastEmitted DEF OpenNow, Emit
  <2> QED  BY <2>1, <2>2, <2>3, <2>4, EmitNests
<1>4. CASE Settle
  <2>1. PICK s : Emit("invocation", "completed", activePhase, s)
    BY <1>4 DEF Settle
  <2>2. pc = "invoking" /\ pc' = "settled" /\ UNCHANGED <<activePhase, index>>
    BY <1>4 DEF Settle
  <2>3. PhaseOpen /\ PhaseOpen'
    BY <2>2 DEF PhaseOpen, Contributing
  <2>4. ASSUME NEW i \in DOMAIN events, OpenNow(i)
        PROVE  IF events[i].of = "invocation"
               THEN events[i].phase = activePhase /\ events[i].at = index
               ELSE OpenNow(i)'
    BY <2>1, <2>2, <2>3, <2>4, LastEmitted DEF OpenNow, Emit
  <2> QED  BY <2>1, <2>2, <2>3, <2>4, EmitNests
<1>5. CASE ActivationSucceeds
  BY <1>2, <1>5 DEF ActivationSucceeds
<1>6. CASE ActivationFails
  BY <1>2, <1>6 DEF ActivationFails
<1> QED  BY <1>1, <1>3, <1>4, <1>5, <1>6

(* Marking the termination completes nothing.                               *)
LEMMA MarkNests ==
  ASSUME TypeOK, Nesting, NEW reason, MarkTermination(reason),
         UNCHANGED <<activePhase, index>>,
         pc \notin {"activate", "activating", "invoke", "invoking"},
         PhaseOpen' = PhaseOpen
  PROVE  Nesting'
<1>1. ASSUME NEW i \in DOMAIN events, OpenNow(i), events'[i] = events[i]
      PROVE  events[i].of = "phase" /\ OpenNow(i)'
  BY <1>1 DEF OpenNow
<1>2. CASE cancelled
  <2>1. UNCHANGED events
    BY <1>2 DEF MarkTermination
  <2> QED  BY <1>1, <2>1, QuietNests
<1>3. CASE ~cancelled
  <2>1. Emit("cancellation", "started", activePhase, reason)
    BY <1>3 DEF MarkTermination
  <2>2. \A i \in DOMAIN events : events'[i] = events[i]
    BY <2>1, LastEmitted DEF Emit
  <2> QED  BY <1>1, <2>1, <2>2, EmitNests
<1> QED  BY <1>2, <1>3

LEMMA StepNests ==
  ASSUME TypeOK, Located, InPhase, Nesting, [Next]_vars
  PROVE  Nesting'
<1> USE DEF outside, graph, lifetime, position, owned, document, summary, state
<1>1. CASE BeginCancelled
  <2>1. PhaseOpen' = PhaseOpen
    BY <1>1 DEF BeginCancelled, PhaseOpen, Contributing
  <2> QED  BY <1>1, <2>1, MarkNests DEF BeginCancelled
<1>2. CASE StopTerminated
  <2>1. PhaseOpen /\ PhaseOpen'
    BY <1>2, ContributionInPhase DEF StopTerminated, PhaseOpen, Contributing
  <2>2. pc \notin {"activate", "activating", "invoke", "invoking"}
    BY <1>2 DEF StopTerminated, AtContribution
  <2>3. PhaseOpen' = PhaseOpen
    BY <2>1 DEF PhaseOpen
  <2> QED  BY <1>2, <2>2, <2>3, MarkNests DEF StopTerminated
<1>3. ASSUME UNCHANGED <<events, activePhase, index>>,
             pc' \in Contributing => PhaseOpen,
             pc \in Contributing \cup {"loop"} => pc' \in Contributing \cup {"loop"},
             pc' = "loop" => PhaseOpen \/ activePhase = NoPhase,
             pc \in {"activate", "activating"} => pc' \in {"activate", "activating"},
             pc \in {"invoke", "invoking"} => pc' \in {"invoke", "invoking"}
      PROVE  Nesting'
  <2>1. PhaseOpen => PhaseOpen'
    BY <1>3, ExecutionAssumption DEF PhaseOpen, Contributing, Located
  <2>2. PhaseOpen' => PhaseOpen
    BY <1>3 DEF PhaseOpen, Contributing
  <2>3. \A i \in DOMAIN events : OpenNow(i) => OpenNow(i)'
    BY <1>3, <2>1 DEF OpenNow
  <2> QED  BY <1>3, <2>2, <2>3, QuietNests
<1>4. CASE NothingToExecute \/ BeginUncompiled \/ BeginNodes
  <2>1. /\ \A i \in DOMAIN events : ~OpenNow(i)
        /\ ~PhaseOpen' /\ UNCHANGED events
    BY <1>4 DEF NothingToExecute, BeginUncompiled, BeginNodes, InPhase, OpenNow, PhaseOpen,
                Contributing
  <2> QED  BY <2>1, QuietNests
<1>5. CASE AcceptOutput
  <2>1. /\ \A i \in DOMAIN events : OpenNow(i) => OpenNow(i)'
        /\ PhaseOpen /\ UNCHANGED <<events, activePhase>>
    BY <1>5, ExecutionAssumption DEF AcceptOutput, OpenNow, PhaseOpen, Contributing, Located
  <2> QED  BY <2>1, QuietNests
<1>6. CASE Reuse
  BY <1>3, <1>6, ContributionInPhase DEF Reuse, AtContribution, Contributing
<1>7. CASE Activate \/ Invoke \/ HandleFailure
  BY <1>3, <1>7 DEF Activate, Invoke, HandleFailure, PhaseOpen, Contributing
<1>8. CASE (\E ok \in BOOLEAN : Dispose(ok)) \/ Return
  BY <1>3, <1>8 DEF Dispose, Return, Contributing
<1>9. CASE UNCHANGED <<pc, index, activePhase, events>>
  BY <1>9, QuietNests DEF OpenNow, PhaseOpen
<1> QED
  BY <1>1, <1>2, <1>4, <1>5, <1>6, <1>7, <1>8, <1>9, PhaseEventsNest, PluginEventsNest
  DEF vars, Next, Kernel, InvocationReturns, Cancel, TimeOut, Terminate

-----------------------------------------------------------------------------
(* The document                                                             *)

(* Counting what is appended: an old count stays, and as many are counted   *)
(* of a new contribution as are appended for it.                            *)
LEMMA CountAppended ==
  ASSUME NEW m \in Nat, NEW r \in Seq(Nat), NEW t \in Seq(Nat),
         \A k \in DOMAIN r : r[k] < m,
         \A i \in DOMAIN t : t[i] = m
  PROVE  /\ \A k \in DOMAIN (r \o t) : (r \o t)[k] \in Nat /\ (r \o t)[k] <= m
         /\ \A c \in Nat : c < m => PatchesOf(r \o t, c) = PatchesOf(r, c)
         /\ PatchesOf(r \o t, m) = Len(t)
<1> DEFINE q == r \o t
           n == Len(r)
           g == Len(t)
<1>1. /\ n \in Nat /\ g \in Nat /\ DOMAIN r = 1..n /\ DOMAIN t = 1..g
      /\ DOMAIN q = 1..n + g
      /\ \A k \in 1..n + g : q[k] = IF k <= n THEN r[k] ELSE t[k - n]
      /\ \A k \in 1..n : r[k] \in Nat /\ r[k] < m
  BY ConcatProperties
<1> HIDE DEF q, n, g
<1>2. /\ \A k \in 1..n : q[k] = r[k]
      /\ \A k \in n + 1..n + g : q[k] = m
  <2>1. ASSUME NEW k \in n + 1..n + g
        PROVE  q[k] = m
    <3>1. k - n \in 1..g /\ k \in 1..n + g /\ ~(k <= n)
      BY <1>1
    <3>2. q[k] = t[k - n]
      BY <1>1, <3>1
    <3>3. t[k - n] = m
      BY <1>1, <3>1
    <3> QED  BY <3>2, <3>3
  <2>2. \A k \in 1..n : q[k] = r[k]
    BY <1>1
  <2> QED  BY <2>1, <2>2
<1>3. \A k \in 1..n + g : q[k] \in Nat /\ q[k] <= m /\ (q[k] = m <=> k \in n + 1..n + g)
  BY <1>1, <1>2
<1>4. {k \in DOMAIN q : q[k] = m} = n + 1..n + g
  BY <1>1, <1>3
<1>5. Cardinality(n + 1..n + g) = g
  BY <1>1, FS_Interval
<1>6. \A c \in Nat : c < m =>
        {k \in DOMAIN q : q[k] = c} = {k \in DOMAIN r : r[k] = c}
  BY <1>1, <1>2
<1>7. \A k \in DOMAIN q : q[k] \in Nat /\ q[k] <= m
  BY <1>1, <1>3
<1>8. PatchesOf(q, m) = g
  BY <1>4, <1>5 DEF PatchesOf
<1>9. \A c \in Nat : c < m => PatchesOf(q, c) = PatchesOf(r, c)
  BY <1>6 DEF PatchesOf
<1> QED  BY <1>7, <1>8, <1>9 DEF q, g

LEMMA StepProvenance ==
  ASSUME TypeOK, Provenance, [Next]_vars
  PROVE  Provenance'
<1> USE DEF outside, graph, lifetime, position, owned, document, summary, state
<1>1. CASE AcceptOutput
  <2>1. /\ pc = "settled" /\ index \in Nat
        /\ patchIds \in Seq(Nat) /\ artifacts \in Seq(Artifact)
        /\ output.good \in Nat /\ output.artifacts \in Seq(Proposal)
    <3>1. \A S, T : S \subseteq T => Seq(S) \subseteq Seq(T)
      OBVIOUS
    <3> QED  BY <1>1, <3>1, PlanEntries, OutputArtifacts DEF AcceptOutput, TypeOK
  <2>2. /\ patchIds' = patchIds \o Applied
        /\ Applied \in Seq(Nat) /\ Len(Applied) = output.good
        /\ \A i \in DOMAIN Applied : Applied[i] = index
    <3>1. patchIds' = patchIds \o Applied
      BY <1>1 DEF AcceptOutput
    <3>2. Applied \in Seq(Nat) /\ Len(Applied) = output.good
      BY <2>1 DEF Applied
    <3>3. \A i \in DOMAIN Applied : Applied[i] = index
      BY <2>1 DEF Applied
    <3> QED  BY <3>1, <3>2, <3>3
  <2>3. \A k \in DOMAIN patchIds : patchIds[k] < index
    BY <2>1 DEF Provenance
  <2>4. /\ \A k \in DOMAIN patchIds' : patchIds'[k] <= index
        /\ \A k \in DOMAIN patchIds' : patchIds'[k] \in Nat
        /\ \A c \in Nat : c < index => PatchesOf(patchIds', c) = PatchesOf(patchIds, c)
        /\ PatchesOf(patchIds', index) = output.good
    <3> DEFINE q == patchIds \o Applied
    <3>1. /\ \A k \in DOMAIN q : q[k] \in Nat /\ q[k] <= index
          /\ \A c \in Nat : c < index => PatchesOf(q, c) = PatchesOf(patchIds, c)
          /\ PatchesOf(q, index) = Len(Applied)
      BY <2>1, <2>2, <2>3, CountAppended
    <3>2. patchIds' = q
      BY <2>2
    <3> HIDE DEF q
    <3> QED  BY <2>2, <3>1, <3>2
  <2>5. ASSUME NEW i \in DOMAIN artifacts
        PROVE  artifacts[i].at \in Nat
    <3>1. artifacts[i] \in Artifact
      BY <2>1
    <3> QED  BY <3>1 DEF Artifact
  <2>6. CASE Acceptable
    <3>1. /\ index' = index + 1
          /\ artifacts' = artifacts \o
               [i \in DOMAIN output.artifacts |->
                  [proposal |-> output.artifacts[i], at |-> index, patches |-> output.good]]
      BY <1>1, <2>6 DEF AcceptOutput, Stamped
    <3>2. \A i \in DOMAIN artifacts' :
            \/ i \in DOMAIN artifacts /\ artifacts'[i] = artifacts[i]
            \/ artifacts'[i].at = index /\ artifacts'[i].patches = output.good
      BY <2>1, <3>1, SMTT(30)
    <3>3. ASSUME NEW i \in DOMAIN artifacts'
          PROVE  /\ artifacts'[i].at < index'
                 /\ artifacts'[i].patches = PatchesOf(patchIds', artifacts'[i].at)
      <4>1. CASE i \in DOMAIN artifacts /\ artifacts'[i] = artifacts[i]
        <5>1. /\ artifacts[i].at < index /\ artifacts[i].at \in Nat
              /\ artifacts[i].patches = PatchesOf(patchIds, artifacts[i].at)
          BY <2>5, <4>1 DEF Provenance
        <5> QED  BY <2>1, <2>4, <3>1, <4>1, <5>1
      <4>2. CASE artifacts'[i].at = index /\ artifacts'[i].patches = output.good
        BY <2>1, <2>4, <3>1, <4>2
      <4> QED  BY <3>2, <4>1, <4>2
    <3>4. \A k \in DOMAIN patchIds' : patchIds'[k] < index' /\ patchIds'[k] <= index'
      BY <2>1, <2>4, <3>1
    <3> QED  BY <2>1, <2>4, <3>1, <3>3, <3>4 DEF Provenance
  <2>7. CASE ~Acceptable
    <3>1. index' = index /\ artifacts' = artifacts /\ pc' = "failed"
      BY <1>1, <2>1, <2>7 DEF AcceptOutput, Stamped
    <3>2. ASSUME NEW i \in DOMAIN artifacts
          PROVE  artifacts[i].patches = PatchesOf(patchIds', artifacts[i].at)
      <4>1. /\ artifacts[i].at < index /\ artifacts[i].at \in Nat
            /\ artifacts[i].patches = PatchesOf(patchIds, artifacts[i].at)
        BY <2>5 DEF Provenance
      <4> QED  BY <2>4, <4>1
    <3> QED  BY <2>4, <3>1, <3>2 DEF Provenance
  <2> QED  BY <2>6, <2>7
<1>2. CASE /\ UNCHANGED <<index, artifacts, patchIds>>
           /\ pc \in {"failed", "dispose", "done"} => pc' \in {"failed", "dispose", "done"}
  BY <1>2 DEF Provenance
<1> QED
  BY <1>1, <1>2
  DEF vars, Next, Kernel, BeginCancelled, BeginUncompiled, BeginNodes, CompletePhase,
      StartPhase, NothingToExecute, AbandonPhase, Reuse, StartActivation, Activate,
      AtContribution, ActivationSucceeds, ActivationFails, StartInvocation, Invoke, Settle,
      StopTerminated, HandleFailure, Dispose, Return, InvocationReturns, Cancel, TimeOut,
      Terminate

-----------------------------------------------------------------------------
(* The phases that are completed                                            *)

LEMMA SetAppend ==
  ASSUME NEW S, NEW s \in Seq(S), NEW x \in S
  PROVE  ToSet(Append(s, x)) = ToSet(s) \cup {x}
<1>1. /\ DOMAIN s = 1..Len(s) /\ Len(s) \in Nat
      /\ DOMAIN Append(s, x) = 1..Len(s) + 1
      /\ \A i \in DOMAIN s : Append(s, x)[i] = s[i]
      /\ Append(s, x)[Len(s) + 1] = x
  OBVIOUS
<1> QED  BY <1>1 DEF ToSet

LEMMA SucceededNext ==
  ASSUME TypeOK, NEW of, NEW edge, NEW phase, NEW status, Emit(of, edge, phase, status), NEW p
  PROVE  Succeeded(p)' <=> Succeeded(p) \/ (of = "phase" /\ phase = p /\ status = "success")
<1>0. PICK n : n = Len(events) + 1
  OBVIOUS
<1>1. /\ DOMAIN events = 1..Len(events) /\ Len(events) \in Nat
      /\ DOMAIN events' = DOMAIN events \cup {n}
      /\ events'[n].of = of /\ events'[n].phase = phase /\ events'[n].status = status
      /\ \A i \in DOMAIN events : events'[i] = events[i]
  BY <1>0, Emitted DEF Emit
<1> QED  BY <1>1 DEF Succeeded, EventsOf

(* A phase whose contributions are together is not left and entered again.  *)
LEMMA PhaseIsNew ==
  ASSUME TypeOK, index \in DOMAIN plan, index > 1, node.phase # plan[index - 1].phase
  PROVE  node.phase \notin Behind
<1> SUFFICES ASSUME NEW i \in 1..index - 1, plan[i].phase = plan[index].phase
             PROVE  plan[index - 1].phase = plan[index].phase
  BY DEF Behind, node
<1>1. Len(plan) \in Nat /\ DOMAIN plan = 1..Len(plan)
  BY PlanEntries DEF TypeOK
<1>2. i \in DOMAIN plan /\ index - 1 \in i..index
  BY <1>1
<1> QED  BY <1>2, PlansAssumption DEF TypeOK

(* What is behind and what is unfinished share at most the phase between.   *)
LEMMA StoppedInside ==
  ASSUME TypeOK, index \in DOMAIN plan
  PROVE  Behind \ Unfinished = Behind \ {node.phase}
<1>1. Len(plan) \in Nat /\ DOMAIN plan = 1..Len(plan)
  BY PlanEntries DEF TypeOK
<1>2. node.phase \in Unfinished
  BY <1>1 DEF Unfinished, node
<1>3. ASSUME NEW i \in 1..index - 1, NEW k \in index..Len(plan),
             plan[i].phase = plan[k].phase
      PROVE  plan[i].phase = node.phase
  <2>1. i \in DOMAIN plan /\ k \in DOMAIN plan /\ index \in i..k
    BY <1>1
  <2> QED  BY <1>3, <2>1, PlansAssumption DEF TypeOK, node
<1>4. \A p \in Behind \cap Unfinished : p = node.phase
  BY <1>3 DEF Behind, Unfinished
<1> QED  BY <1>2, <1>4

(* Succeeding is a matter of the Events of phases.                          *)
LEMMA SameSuccesses ==
  ASSUME TypeOK,
         \/ UNCHANGED events
         \/ \E of, edge, phase, status :
              Emit(of, edge, phase, status) /\ (of # "phase" \/ status # "success")
  PROVE  {p \in Phases : Succeeded(p)'} = {p \in Phases : Succeeded(p)}
<1>1. CASE UNCHANGED events
  BY <1>1 DEF Succeeded, EventsOf
<1>2. ASSUME NEW of, NEW edge, NEW phase, NEW status,
             Emit(of, edge, phase, status), of # "phase" \/ status # "success"
      PROVE  {p \in Phases : Succeeded(p)'} = {p \in Phases : Succeeded(p)}
  <2>1. \A p : Succeeded(p)' <=> Succeeded(p)
    BY <1>2, SucceededNext
  <2> QED  BY <2>1
<1> QED  BY <1>1, <1>2

LEMMA CompleteProgress ==
  ASSUME TypeOK, Located, InPhase, Progress, CompletePhase
  PROVE  Progress'
<1> USE DEF outside, graph, lifetime, position, owned, document, summary, state
<1>0. /\ Len(plan) \in Nat /\ DOMAIN plan = 1..Len(plan) /\ index \in 1..Len(plan) + 1
  BY PlanEntries DEF TypeOK
<1>1. /\ pc = "loop" /\ activePhase \in Phases /\ index > 1
      /\ activePhase = plan[index - 1].phase
      /\ completedPhases' = Append(completedPhases, activePhase)
      /\ Emit("phase", "completed", activePhase, "success")
      /\ UNCHANGED <<plan, index, activePhase, cancelled, failedPhases>>
  BY DEF CompletePhase, InPhase, TypeOK
<1>2. activePhase \in Behind
  BY <1>0, <1>1 DEF Behind
<1>3. ToSet(completedPhases') = Behind
  <2>1. ToSet(completedPhases) = Behind \ {activePhase}
    BY <1>1 DEF Progress, Executing
  <2>2. ToSet(completedPhases') = ToSet(completedPhases) \cup {activePhase}
    BY <1>1, SetAppend DEF TypeOK
  <2> QED  BY <1>2, <2>1, <2>2
<1>4. ToSet(completedPhases') = {p \in Phases : Succeeded(p)'}
  <2>1. \A p : Succeeded(p)' <=> Succeeded(p) \/ activePhase = p
    BY <1>1, SucceededNext
  <2>2. ToSet(completedPhases') = ToSet(completedPhases) \cup {activePhase}
    BY <1>1, SetAppend DEF TypeOK
  <2>3. ToSet(completedPhases) = {p \in Phases : Succeeded(p)}
    BY DEF Progress
  <2> QED  BY <1>1, <2>1, <2>2, <2>3
<1>5. Behind' = Behind /\ Unfinished' = Unfinished
  BY <1>1 DEF Behind, Unfinished
<1>6. pc' = "phase" \/ (pc' = "dispose" /\ Unfinished = {})
  BY <1>0 DEF CompletePhase, Remaining, Unfinished
<1>7. failedPhases = <<>>
  BY <1>1 DEF Progress
<1> QED
  BY <1>1, <1>3, <1>4, <1>5, <1>6, <1>7
  DEF Progress, ToSet, Executing, Contributing

LEMMA AbandonProgress ==
  ASSUME TypeOK, Located, InPhase, Progress, AbandonPhase
  PROVE  Progress'
<1> USE DEF outside, graph, lifetime, position, owned, document, summary, state
<1>1. /\ pc = "failed" /\ pc' = "dispose" /\ index \in DOMAIN plan
      /\ activePhase = node.phase /\ activePhase \in Phases
      /\ failedPhases' = IF cancelled THEN failedPhases ELSE Append(failedPhases, activePhase)
      /\ Emit("phase", "completed", activePhase, "degraded")
      /\ UNCHANGED <<plan, index, activePhase, cancelled, completedPhases>>
  BY DEF AbandonPhase, InPhase, Located, Contributing
<1>2. {p \in Phases : Succeeded(p)'} = {p \in Phases : Succeeded(p)}
  BY <1>1, SameSuccesses
<1>3. ToSet(completedPhases) = Behind \ Unfinished
  BY <1>1, StoppedInside DEF Progress, Executing, Contributing
<1>4. Behind' = Behind /\ Unfinished' = Unfinished
  BY <1>1 DEF Behind, Unfinished
<1>5. /\ cancelled => failedPhases' = <<>>
      /\ ToSet(failedPhases') \subseteq {node.phase}
  <2>1. failedPhases = <<>> /\ ToSet(<<>>) = {}
    BY <1>1 DEF Progress, ToSet
  <2>2. ToSet(Append(failedPhases, activePhase)) = ToSet(failedPhases) \cup {activePhase}
    BY <1>1, SetAppend DEF TypeOK
  <2> QED  BY <1>1, <2>1, <2>2
<1>6. ToSet(failedPhases') \subseteq {plan[i].phase : i \in {index} \cap DOMAIN plan}
  BY <1>1, <1>5 DEF node
<1> QED
  BY <1>1, <1>2, <1>3, <1>4, <1>5, <1>6
  DEF Progress, Executing, Contributing

LEMMA StepProgress ==
  ASSUME TypeOK, CleanUntilStopped, Located, InPhase, Progress, [Next]_vars
  PROVE  Progress'
<1> USE DEF outside, graph, lifetime, position, owned, document, summary, state
<1>0. /\ Len(plan) \in Nat /\ DOMAIN plan = 1..Len(plan) /\ index \in 1..Len(plan) + 1
      /\ NoPhase \notin Phases /\ Behind \subseteq Phases
  <2>1. /\ Len(plan) \in Nat /\ DOMAIN plan = 1..Len(plan) /\ index \in 1..Len(plan) + 1
        /\ \A i \in DOMAIN plan : plan[i].phase \in Phases
    BY PlanEntries DEF TypeOK
  <2>2. \A i \in 1..index - 1 : i \in DOMAIN plan
    BY <2>1
  <2> QED  BY <2>1, <2>2, ExecutionAssumption DEF Behind
<1>1. index = 1 => Behind = {}
  BY DEF Behind
(* A step that completes no phase and goes nowhere else.                    *)
<1>2. ASSUME UNCHANGED <<plan, index, completedPhases, failedPhases>>,
             {p \in Phases : Succeeded(p)'} = {p \in Phases : Succeeded(p)},
             cancelled' => failedPhases = <<>>,
             \/ /\ pc \in {"begin"} \cup Executing /\ pc' \in {"begin"} \cup Executing
                /\ Behind \ {activePhase'} = Behind \ {activePhase}
             \/ pc = "phase" /\ pc' = "contribute" /\ activePhase' \notin Behind
             \/ pc' = pc /\ UNCHANGED activePhase
             \/ pc \in {"begin", "loop"} /\ pc' = "dispose" /\ Behind = {}
             \/ pc = "dispose" /\ pc' = "done"
      PROVE  Progress'
  <2>1. Behind' = Behind /\ Unfinished' = Unfinished
    BY <1>2 DEF Behind, Unfinished
  <2>2. /\ ToSet(completedPhases') = {p \in Phases : Succeeded(p)'}
        /\ pc' \in {"begin"} \cup Executing => ToSet(completedPhases') = Behind \ {activePhase'}
        /\ pc' = "phase" => ToSet(completedPhases') = Behind
        /\ pc' \in {"dispose", "done"} => ToSet(completedPhases') = Behind \ Unfinished
    BY <1>2 DEF Progress, Executing, Contributing
  <2>3. /\ pc' \notin {"dispose", "done"} => failedPhases' = <<>>
        /\ ToSet(failedPhases') \subseteq {plan[i].phase : i \in {index} \cap DOMAIN plan}
        /\ cancelled' => failedPhases' = <<>>
    BY <1>2 DEF Progress, Executing, Contributing
  <2> QED  BY <1>2, <2>1, <2>2, <2>3 DEF Progress
<1>3. CASE StartPhase
  <2>1. /\ Emit("phase", "started", node.phase, "none")
        /\ activePhase' = node.phase /\ pc' = "contribute"
        /\ pc = "phase" \/ (pc = "loop" /\ activePhase = NoPhase)
        /\ UNCHANGED <<plan, index, completedPhases, failedPhases, cancelled>>
    BY <1>3 DEF StartPhase
  <2>2. {p \in Phases : Succeeded(p)'} = {p \in Phases : Succeeded(p)}
    BY <2>1, SameSuccesses
  <2>3. failedPhases = <<>>
    BY <2>1 DEF Progress
  <2>4. CASE pc = "phase"
    <3>1. node.phase \notin Behind
      BY <2>4, PhaseIsNew DEF InPhase, Located
    <3> QED  BY <1>2, <2>1, <2>2, <2>3, <2>4, <3>1
  <2>5. CASE pc = "loop" /\ activePhase = NoPhase
    <3>1. Behind = {}
      BY <1>1, <2>5 DEF InPhase
    <3> QED  BY <1>2, <2>1, <2>2, <2>3, <2>5, <3>1 DEF Executing, Contributing
  <2> QED  BY <2>1, <2>4, <2>5
<1>4. CASE NothingToExecute \/ BeginUncompiled \/ BeginCancelled
  <2>1. /\ pc \in {"begin", "loop"} /\ pc' = "dispose" /\ index = 1
        /\ UNCHANGED <<plan, index, completedPhases, failedPhases>>
    BY <1>4 DEF NothingToExecute, BeginUncompiled, BeginCancelled, InPhase
  <2>2. failedPhases = <<>>
    BY <2>1 DEF Progress
  <2>3. {p \in Phases : Succeeded(p)'} = {p \in Phases : Succeeded(p)}
    BY <1>4, SameSuccesses DEF NothingToExecute, BeginUncompiled, BeginCancelled, MarkTermination
  <2> QED  BY <1>1, <1>2, <2>1, <2>2, <2>3
<1>5. CASE AcceptOutput
  <2>1. /\ pc = "settled" /\ index \in DOMAIN plan /\ activePhase = plan[index].phase
        /\ UNCHANGED <<plan, activePhase, completedPhases, failedPhases, cancelled, events>>
        /\ failedPhases = <<>>
    BY <1>5 DEF AcceptOutput, InPhase, Located, Contributing, node, Progress
  <2>2. {p \in Phases : Succeeded(p)'} = {p \in Phases : Succeeded(p)}
    BY <2>1, SameSuccesses
  <2>3. CASE Acceptable
    <3>1. index' = index + 1 /\ pc' = "loop"
      BY <1>5, <2>3 DEF AcceptOutput
    <3>2. Behind' = Behind \cup {activePhase}
      <4>1. \A i : i \in 1..index' - 1 <=> i \in 1..index - 1 \/ i = index
        BY <1>0, <2>1, <3>1
      <4> QED  BY <2>1, <4>1 DEF Behind
    <3>3. ToSet(completedPhases) = Behind \ {activePhase}
      BY <2>1 DEF Progress, Executing, Contributing
    <3>4. ToSet(failedPhases') = {}
      BY <2>1 DEF ToSet
    <3> QED  BY <2>1, <2>2, <3>1, <3>2, <3>3, <3>4 DEF Progress
  <2>4. CASE ~Acceptable
    <3>1. index' = index /\ pc' = "failed"
      BY <1>5, <2>4 DEF AcceptOutput
    <3> QED  BY <1>2, <2>1, <2>2, <3>1 DEF Executing, Contributing
  <2> QED  BY <2>3, <2>4
<1>6. CASE BeginNodes \/ Reuse \/ Activate \/ Invoke \/ HandleFailure
  <2>1. /\ pc \in {"begin"} \cup Executing /\ pc' \in {"begin"} \cup Executing
        /\ UNCHANGED <<plan, index, activePhase, completedPhases, failedPhases, cancelled, events>>
    BY <1>6 DEF BeginNodes, Reuse, Activate, Invoke, HandleFailure, AtContribution, Executing,
                Contributing
  <2>2. failedPhases = <<>>
    BY <2>1 DEF Progress, Executing, Contributing
  <2> QED  BY <1>2, <2>1, <2>2, SameSuccesses
<1>7. CASE \/ StartActivation \/ ActivationSucceeds \/ ActivationFails \/ StartInvocation
           \/ Settle \/ StopTerminated
  <2>1. /\ pc \in Executing /\ pc' \in Executing
        /\ UNCHANGED <<plan, index, activePhase, completedPhases, failedPhases>>
    BY <1>7 DEF StartActivation, ActivationSucceeds, ActivationFails, StartInvocation, Settle,
                StopTerminated, AtContribution, Executing, Contributing
  <2>2. failedPhases = <<>>
    BY <2>1 DEF Progress, Executing, Contributing
  <2>3. \/ UNCHANGED events
        \/ \E of, edge, phase, status :
             Emit(of, edge, phase, status) /\ (of # "phase" \/ status # "success")
    <3>1. \E of, edge, phase, status :
            \/ of \in {"activation", "invocation", "cancellation"} /\ Emit(of, edge, phase, status)
            \/ UNCHANGED events
      BY <1>7 DEF StartActivation, ActivationSucceeds, ActivationFails, StartInvocation, Settle,
                  StopTerminated, MarkTermination
    <3> QED  BY <3>1
  <2> QED  BY <1>2, <2>1, <2>2, <2>3, SameSuccesses
<1>8. CASE UNCHANGED <<plan, pc, index, activePhase, completedPhases, failedPhases, cancelled,
                       events>>
  BY <1>2, <1>8, SameSuccesses DEF Progress
<1>9. CASE Return
  BY <1>2, <1>9, SameSuccesses DEF Return, Progress
<1> QED
  BY <1>3, <1>4, <1>5, <1>6, <1>7, <1>8, <1>9, CompleteProgress, AbandonProgress
  DEF vars, Next, Kernel, Dispose, InvocationReturns, Cancel, TimeOut, Terminate

-----------------------------------------------------------------------------
(* The Result                                                               *)

LEMMA SameExposure ==
  ASSUME UNCHANGED artifacts
  PROVE  Primary' = Primary /\ \A kinds : OfKinds(kinds)' = OfKinds(kinds)
<1>1. Public' = Public
  BY DEF Public
<1>2. \A kinds : OfKinds(kinds)' = OfKinds(kinds)
  BY <1>1 DEF OfKinds
<1> DEFINE Least(S) == IF S = {} THEN Fallback ELSE CHOOSE i \in S : \A j \in S : i <= j
<1>3. Primary = Least(OfKinds({Policy.primary}))
  BY DEF Primary
<1>4. Primary' = Least(OfKinds({Policy.primary})')
  BY DEF Primary
<1>5. OfKinds({Policy.primary})' = OfKinds({Policy.primary})
  BY <1>1 DEF OfKinds
<1> HIDE DEF Least
<1> QED  BY <1>2, <1>3, <1>4, <1>5

LEMMA StepAccounted ==
  ASSUME TypeOK, CleanUntilStopped, Located, Located', InPhase, Progress, Accounted, [Next]_vars
  PROVE  Accounted'
<1> USE DEF outside, graph, lifetime, position, owned, document, summary, state
<1>0. /\ Len(plan) \in Nat /\ DOMAIN plan = 1..Len(plan) /\ index \in 1..Len(plan) + 1
  BY PlanEntries DEF TypeOK
<1>1. UNCHANGED <<plan, compiled>>
  BY DEF vars, Next, Kernel, BeginCancelled, BeginUncompiled, BeginNodes, CompletePhase,
         StartPhase, NothingToExecute, AbandonPhase, Reuse, StartActivation, Activate,
         ActivationSucceeds, ActivationFails, StartInvocation, Invoke, Settle, StopTerminated,
         HandleFailure, AcceptOutput, Dispose, Return, InvocationReturns, Cancel, TimeOut,
         Terminate
<1>2. CASE BeginCancelled
  <2>1. cancelled'
    BY <1>2 DEF BeginCancelled, MarkTermination
  <2> QED  BY <1>2, <2>1 DEF BeginCancelled, Accounted, Done
<1>3. CASE BeginUncompiled
  <2>1. diagnostics' # <<>>
    BY <1>3, DiagnoseNotEmpty DEF BeginUncompiled, DiagnosticCodes
  <2> QED  BY <1>1, <1>3, <2>1 DEF BeginUncompiled, Accounted, Done
<1>4. CASE ActivationFails \/ HandleFailure \/ (AcceptOutput /\ ~Acceptable)
  <2>1. diagnostics' # <<>>
    BY <1>4, DiagnoseNotEmpty DEF ActivationFails, HandleFailure, AcceptOutput, DiagnosticCodes
  <2>2. pc \notin {"begin", "dispose", "done"} /\ pc' = "failed"
    BY <1>4 DEF ActivationFails, HandleFailure, AcceptOutput
  <2> QED  BY <1>1, <2>1, <2>2 DEF Accounted, Done, Located, Contributing
<1>5. CASE StopTerminated
  <2>1. Reason \in {"cancelled", "timed-out"}
    BY DEF Reason, Terminated, TypeOK
  <2>2. diagnostics' # <<>>
    BY <1>5, <2>1, MarkNotEmpty DEF StopTerminated, CleanUntilStopped
  <2>3. pc \notin {"begin", "dispose", "done"} /\ pc' = "failed"
    BY <1>5 DEF StopTerminated, AtContribution
  <2> QED  BY <1>1, <2>2, <2>3 DEF Accounted, Done, Located, Contributing
<1>6. CASE AcceptOutput /\ Acceptable
  BY <1>1, <1>6 DEF AcceptOutput, Accounted, Done
<1>7. CASE CompletePhase \/ NothingToExecute
  <2>1. /\ pc = "loop" /\ compiled /\ diagnostics = <<>>
        /\ UNCHANGED <<index, cancelled, diagnostics>>
    BY <1>7 DEF CompletePhase, NothingToExecute, Accounted, CleanUntilStopped
  <2>2. pc' = "phase" \/ (pc' = "dispose" /\ index > Len(plan))
    BY <1>0, <1>7 DEF CompletePhase, NothingToExecute, Remaining
  <2> QED  BY <1>1, <2>1, <2>2 DEF Accounted, Done
<1>8. CASE AbandonPhase
  <2>1. /\ pc = "failed" /\ pc' = "dispose" /\ UNCHANGED <<index, cancelled, diagnostics>>
        /\ index \in DOMAIN plan /\ diagnostics # <<>>
    BY <1>8 DEF AbandonPhase, Accounted
  <2> QED  BY <1>0, <1>1, <2>1 DEF Accounted, Done
<1>9. CASE Return
  <2>1. /\ pc = "dispose" /\ pc' = "done" /\ result' = CreateResult
        /\ UNCHANGED <<index, cancelled, disposalFailed, artifacts, completedPhases, failedPhases>>
    BY <1>9 DEF Return
  <2>2. FinalDiagnostics = <<>> <=> diagnostics = <<>> /\ ~disposalFailed
    BY FailedDisposalTold
  <2>3. result'.status = IF cancelled THEN "cancelled"
                         ELSE IF compiled /\ index > Len(plan) /\ ~disposalFailed
                         THEN "success" ELSE "degraded"
    BY <2>1, <2>2 DEF CreateResult, Accounted
  <2>4. /\ result'.primary = Primary
        /\ result'.alternatives = OfKinds(Policy.alternatives) \ {Primary}
        /\ result'.exposed = OfKinds(Policy.exposed)
        /\ result'.completed = completedPhases
        /\ result'.failed = failedPhases
    BY <2>1 DEF CreateResult
  <2>5. Primary' = Primary /\ \A kinds : OfKinds(kinds)' = OfKinds(kinds)
    BY <2>1, SameExposure
  <2>6. /\ OfKinds(Policy.alternatives)' = OfKinds(Policy.alternatives)
        /\ OfKinds(Policy.exposed)' = OfKinds(Policy.exposed)
    BY <2>1 DEF OfKinds, Public
  <2> QED  BY <1>1, <2>1, <2>3, <2>4, <2>5, <2>6 DEF Accounted, Done
<1>10. ASSUME UNCHANGED <<index, cancelled, disposalFailed, diagnostics, artifacts,
                          completedPhases, failedPhases, result>>,
              \/ pc' = pc
              \/ /\ pc \notin {"begin", "dispose", "done", "failed"} \/ (pc = "begin" /\ compiled)
                 /\ pc' \notin {"begin", "dispose", "done", "failed"}
       PROVE  Accounted'
  <2>1. Primary' = Primary
    BY <1>10, SameExposure
  <2>2. /\ OfKinds(Policy.alternatives)' = OfKinds(Policy.alternatives)
        /\ OfKinds(Policy.exposed)' = OfKinds(Policy.exposed)
    BY <1>10 DEF OfKinds, Public
  <2>3. CASE pc' = pc
    BY <1>1, <1>10, <2>1, <2>2, <2>3 DEF Accounted, Done
  <2>4. CASE pc' # pc
    BY <1>1, <1>10, <2>4 DEF Accounted, Done
  <2> QED  BY <2>3, <2>4
<1>11. ASSUME NEW ok \in BOOLEAN, Dispose(ok)
       PROVE  Accounted'
  <2>1. pc = "dispose" /\ pc' = "dispose" /\ UNCHANGED <<index, cancelled, diagnostics>>
    BY <1>11 DEF Dispose
  <2> QED  BY <1>1, <2>1 DEF Accounted, Done
<1>12. CASE \/ BeginNodes \/ StartPhase \/ Reuse \/ StartActivation \/ Activate
            \/ StartInvocation \/ Invoke \/ Settle
  BY <1>10, <1>12
  DEF BeginNodes, StartPhase, Reuse, StartActivation, Activate, AtContribution,
      StartInvocation, Invoke, Settle
<1>13. CASE ActivationSucceeds
  BY <1>1, <1>13 DEF ActivationSucceeds, Accounted, Done
<1>14. ASSUME NEW i, NEW kind, NEW o, InvocationReturns(i, kind, o)
       PROVE  Accounted'
  BY <1>10, <1>14 DEF InvocationReturns
<1>15. ASSUME NEW cause, Terminate(cause)
       PROVE  Accounted'
  BY <1>10, <1>15 DEF Terminate
<1>16. CASE UNCHANGED vars
  BY <1>10, <1>16 DEF vars
<1> QED
  BY <1>2, <1>3, <1>4, <1>5, <1>6, <1>7, <1>8, <1>9, <1>11, <1>12, <1>13, <1>14, <1>15, <1>16
  DEF Next, Kernel, Cancel, TimeOut

-----------------------------------------------------------------------------
(* The theorems                                                             *)

LEMMA HistoryInductive == IInv /\ HInv /\ IInv' /\ [Next]_vars => HInv'
BY StepStopping, StepAnnounced, StepInPhase, StepNests, StepProvenance, StepProgress,
   StepAccounted
DEF IInv, HInv

LEMMA HistoryInvariant == Spec => [](IInv /\ HInv)
<1>1. IInv /\ HInv /\ [Next]_vars => (IInv /\ HInv)'
  BY Inductive, HistoryInductive
<1>2. Init => IInv /\ HInv
  BY InitIInv, InitHInv
<1> QED  BY <1>1, <1>2, PTL DEF Spec

(* What the Result names as primary is public, or it is the fallback.       *)
LEMMA PrimaryIsOfItsKind ==
  ASSUME TypeOK
  PROVE  Primary = Fallback \/ Primary \in OfKinds({Policy.primary})
<1> DEFINE S == OfKinds({Policy.primary})
<1>1. CASE S = {}
  BY <1>1 DEF Primary
<1>2. CASE S # {}
  <2>1. S \in SUBSET Nat
    BY DEF OfKinds, Public, TypeOK
  <2> HIDE DEF S
  <2>2. \E i \in S : \A j \in S : i <= j
    BY <1>2, <2>1, LeastNatural
  <2>3. (CHOOSE i \in S : \A j \in S : i <= j) \in S
    BY <2>2
  <2>4. Primary = CHOOSE i \in S : \A j \in S : i <= j
    BY <1>2 DEF Primary, S
  <2> QED  BY <2>3, <2>4 DEF S
<1> QED  BY <1>1, <1>2

(* executeNodes, executeContribution: whatever stops the Run, every started *)
(* phase, activation and invocation is completed before the Result exists,  *)
(* one at a time, and Plugin Events lie within their phase.                 *)
THEOREM EventsAreNested == Spec => []EventsNest
<1>1. HInv => EventsNest
  <2> SUFFICES ASSUME HInv, NEW i \in DOMAIN events
               PROVE  /\ Opens(i) =>
                           \/ Closed(i)
                           \/ ~Done /\ \A j \in EventsOf(events[i].of) : j <= i
                      /\ events[i].of \in {"activation", "invocation"} => InsidePhase(i)
    BY DEF EventsNest, Opens, Closed, InsidePhase
  <2>1. Done => ~OpenNow(i)
    BY DEF Done, OpenNow, PhaseOpen, Contributing
  <2> QED  BY <2>1 DEF HInv, Nesting, LastOfSort
<1> QED  BY <1>1, HistoryInvariant, PTL

(* markTermination: the Run's termination is announced once, with the cause *)
(* that came first, when and only when the Result will be cancelled.        *)
THEOREM CancellationIsAnnounced == Spec => []CancellationAnnounced
<1>1. HInv => CancellationAnnounced
  BY DEF HInv
<1> QED  BY <1>1, HistoryInvariant, PTL

(* createResult: each place of the Result holds only Artifacts of the kinds *)
(* the policy names for it, public, of a contribution that was accepted     *)
(* whole and with the Patches it applied; the primary is no alternative.    *)
THEOREM ExposureIsAuthorized == Spec => []ExposureAuthorized
<1>1. IInv /\ HInv => ExposureAuthorized
  <2> SUFFICES ASSUME IInv, HInv, Done
               PROVE  ExposureAuthorized
    BY DEF ExposureAuthorized
  <2>1. /\ result.primary = Primary
        /\ result.alternatives = OfKinds(Policy.alternatives) \ {Primary}
        /\ result.exposed = OfKinds(Policy.exposed)
    BY DEF HInv, Accounted
  <2>2. ChosenPrimary \subseteq OfKinds({Policy.primary})
    BY <2>1, PrimaryIsOfItsKind DEF IInv, ChosenPrimary
  <2>3. \A i \in ChosenPrimary \cup result.alternatives \cup result.exposed : i \in Public
    BY <2>1, <2>2 DEF OfKinds
  <2>4. ASSUME NEW i \in Public
        PROVE  /\ artifacts[i].proposal.public
               /\ artifacts[i].at < index
               /\ artifacts[i].patches =
                    Cardinality({k \in DOMAIN patchIds : patchIds[k] = artifacts[i].at})
    BY DEF Public, HInv, Provenance, PatchesOf
  <2>5. /\ KindsOf(ChosenPrimary) \subseteq {Policy.primary}
        /\ KindsOf(result.alternatives) \subseteq Policy.alternatives
        /\ KindsOf(result.exposed) \subseteq Policy.exposed
    BY <2>1, <2>2 DEF KindsOf, OfKinds
  <2>6. result.primary \notin result.alternatives
    BY <2>1
  <2> QED  BY <2>3, <2>4, <2>5, <2>6 DEF ExposureAuthorized
<1> QED  BY <1>1, HistoryInvariant, PTL

(* createResult: the Result is a success exactly when the whole plan was    *)
(* accepted and released without a failure or a cancellation, and its       *)
(* phases are those of the contributions up to where the Run stopped.       *)
THEOREM TheResultIsFaithful == Spec => []ResultIsFaithful
<1>1. IInv /\ HInv => ResultIsFaithful
  <2> SUFFICES ASSUME IInv, HInv, Done
               PROVE  ResultIsFaithful
    BY DEF ResultIsFaithful
  <2>1. /\ result.status = IF cancelled THEN "cancelled"
                           ELSE IF compiled /\ index > Len(plan) /\ ~disposalFailed
                           THEN "success" ELSE "degraded"
        /\ result.completed = completedPhases
        /\ result.failed = failedPhases
    BY DEF HInv, Accounted
  <2>2. /\ ToSet(completedPhases) = {p \in Phases : Succeeded(p)}
        /\ ToSet(completedPhases) = Behind \ Unfinished
        /\ ToSet(failedPhases) \subseteq {plan[i].phase : i \in {index} \cap DOMAIN plan}
        /\ cancelled => failedPhases = <<>>
    BY DEF HInv, Progress, Done
  <2>3. cancelled => Terminated
    BY DEF HInv, Stopping
  <2>4. (result.status = "success") <=>
          (compiled /\ index > Len(plan) /\ ~disposalFailed /\ ~cancelled)
    BY <2>1
  <2>5. (result.status = "cancelled") => Terminated /\ result.failed = <<>>
    BY <2>1, <2>2, <2>3
  <2> QED  BY <2>1, <2>2, <2>4, <2>5 DEF ResultIsFaithful, Behind
<1> QED  BY <1>1, HistoryInvariant, PTL

=============================================================================
