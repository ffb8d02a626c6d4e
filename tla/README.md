# Prompt Iris: specifications, model checking and proofs

Prompt Iris runs a *Recipe*, a selection of Plugins, over a prompt. The kernel
(`packages/core`) compiles the selected Plugins into one order of contributions,
invokes them one after the other under a lifetime that a caller or a deadline may
end, applies the Patches they propose to a revisioned Prompt Document, tells what
happens through an Event dispatcher, and always returns one Result. Around it are a
Node runtime that serves it over framed JSON-RPC, a supervisor for Plugins that are
child processes, a Go client, developer tools that observe a Run, and shell scripts
with which the agents that maintain the repository claim work.

This directory holds TLA+ modules of that code, the TLC configurations that check
them on small instances, and theorems about them that TLAPS checks for every
instance. `PROJECT.json` maps each definition to the lines it stands for.

    tlc -workers 2 -config PluginExecution.cfg MCPluginExecution
    tlapm PluginExecutionProofs.tla

## Inventory

| component | state | operations | what is hard | what makes it correct |
|---|---|---|---|---|
| Event dispatcher `core/event-dispatcher.ts` | sequence number, queue of stamped Events, subscriptions with a bounded queue and at most one waiting reader, who filled up | emit, subscribe, next, return, complete | the sink is called synchronously and may call back into all of them; a full queue; readers that wait | order, nothing critical lost silently, nobody waits for ever, one terminal Event |
| Plugin execution `core/plugin-execution.ts`, `run-lifetime.ts` | position in the plan, activated Plugins, document, Artifacts, Diagnostics, termination | executePluginPlan; abort; deadline | every `await` and every emitted Event lets the outside act; late answers; failing disposers | fail-open: contribute until the first failure, release everything, one Result that tells the truth |
| Plugin graph `core/plugin-graph.ts` | nodes, edges, indegrees, order, Diagnostics | compilePluginGraph | duplicate edges, phases against references, cycles | accepts exactly what has an order, and gives one order for it |
| Transformation state `core/transformation-state.ts` | document, revision, candidate | createTransformationState, applyPatch | operations written for one text applied to another; protected spans; atomicity | edits compose, protections follow, all or nothing |
| Native Plugin supervisor `runtime-node/native-plugin.ts` | child, in-flight flag; per request its timer, settlement and cancellation; the calls of `stopChild` | activate, invoke, dispose; data, exit, error, abort, timers | answer against timeout against abort against exit; respawn against disposal; a child that ignores SIGTERM | a request ends once with its first cause, a child serves one invocation, none is lost, everything ends |
| Lazy Plugin loading `runtime-node/lazy-plugin.ts` | none between calls | load | files that change between the authorized read and the import | what runs is what was authorized |
| Runtime server and framing `runtime-node/server.ts`, `index.ts`, `protocol/index.ts` | initialized flag, promise chain of requests, exit code, bytes not yet decoded | push; initialize, run, inspect, doctor, shutdown | chunks cut anywhere; one bad message or overlong answer on a shared stream | requests are answered once, in order, whatever the cuts |
| Go client `cli-go` | request id, child process | initialize, one command, shutdown; interruption | the far side dies or answers too much | its answer is its own, and it ends |
| Configuration resolution `core/configuration-*.ts`, `runtime-node/configuration.ts` | configuration, trace | load, validate, merge, trace, apply policies | value and trace are computed apart; policies set values below absent objects | the trace tells the truth, applied policies hold |
| Capability evidence `core/capability-evidence.ts` | none | resolve | contradicting claims in any order | only uncontradicted support satisfies |
| Observer devtools `observer-devtools` | retained Events, loop, attached and detached flags | attach, detach, onEvent, createBundle | retention limit, detaching under a waiting read, completion under a full queue | keeps the end of the Run; its loop ends |
| Provider SDK `plugin-sdk/provider.ts` | script cursor, closed | generate, close | concurrent calls, cancellation | an answer each, none after close |
| Agent work claims `scripts/agent-work` | lock directory, claim file with a lease | claim, stage, release | two agents, a stale lock, an agent that dies | one owner per branch |
| Debug Records, dashboard, quality scripts | | | no shared state or one process at a time | |

How they interact: the graph compiler's order is the plan of an execution; the
execution applies Patches to the transformation state and calls the dispatcher's
`emit`, whose sink may abort the Run; the lifetime's signal reaches the Plugin's
invocation, and through it the native supervisor, which speaks the framing to its
child as the Node runtime does to the Go client; the runtime resolves a project's
configuration and the capabilities it asks for when it is asked to inspect or to
doctor; devtools are a subscription of the dispatcher.

## Modules

| module | models |
|---|---|
| `EventDispatcher` | the dispatcher, split at every call out of it |
| `OrderedBroadcast` | what a dispatcher promises: one order, everyone sees a growing part of it, attached ones all of it |
| `PluginExecution` | one Run and its lifetime, split at every Event and every `await` |
| `FailOpenRun` | what a Run promises: contribute, stop, release, return |
| `ObserverDevtools` | developer tools composed with the dispatcher they are attached to (extends `EventDispatcher`) |
| `PluginGraph` | compilation, one step per visited contribution |
| `TransformationState` | documents and Patches, one step per operation |
| `NativePlugin` | the supervisor, its requests and its children |
| `RuntimeSession` | a Node runtime, its decoder and its server, with a host or the Go CLI at the other end |
| `ConfigurationResolution` | schemas, layers, merging, trace and policies, as operators |
| `CapabilityEvidence` | matching and decision, as operators |
| `ProjectConfiguration` | from layers to `doctor`'s verdict, one step per layer, policy and requirement (extends both) |
| `MC...` | the small instances for TLC |
| `EventDispatcherProofs` | theorems about the dispatcher: order, then delivery and the refinement |
| `PluginExecutionProofs` | theorems about a Run: what it does and refines, then what it tells |
| `ProjectConfigurationProofs` | theorems about configurations: sources, policies, readiness |
| `ObserverDevtoolsProofs`, `PluginGraphProofs`, `TransformationStateProofs`, `NativePluginProofs`, `RuntimeSessionProofs` | theorems about these components |

A definition named `Fault...` is its neighbour with a plausible bug. Nothing in a
specification uses it; exchanging the two must break the property `PROJECT.json`
names with it, which shows that the property says something about that code.

How the modules of this directory build on each other: `ObserverDevtools` runs the
dispatcher's own actions; `ProjectConfiguration` calls the operators of its two
libraries; `EventDispatcher` and `PluginExecution` instantiate the specifications they
refine. Elsewhere a neighbour is a choice: a Patch applies or not in
`PluginExecution`, a request is good or not in `RuntimeSession`, a child says anything in `NativePlugin`.

### EventDispatcher

`log` holds every Event stamped by `#stamp`; `queue` is `#queue`; `subs` are the
`BufferedSubscription`s in their insertion order. JavaScript runs to completion, so
the only places where others act are the awaits of readers and the calls into the
sink. `Publish` is the part of `#drain` that takes an Event and calls the sink,
`Deliver` the loop over subscriptions after it returned; between them every public
operation may come (an emit from inside the sink is stamped and left to the running
loop). `Take` and `Await` are `next()` with and without an Event ready, `Return`
and `Complete` the operations of those names; `PrepareTerminal` and the reports
`#report` queues are part of the step in which the code makes them.

`SinkSeesLogInOrder`, `ViewsInOrder`: order under reentrancy. `NoCriticalLost`: a
critical Event either reaches an attached observer or ends its subscription with a
report. `LagReportedOnce`: one report for each time an observer falls behind.
`NoReaderStranded`: no reader waits on a closed subscription. `NothingAfterTerminal`:
nothing is accepted after the terminal Event. `CompletionIsAnnounced`: a completion
asked for is eventually announced (checked as a part of `ObservationEnds` below). `ImplementsBroadcast`: the dispatcher refines
`OrderedBroadcast`.

### ObserverDevtools

`loop`, `detached` and `events` are the loop of `attachToDispatcher`, its flag and
`state.events`; `handled` says how far the loop is in what its subscription was
given, so `handled < Len(received[Dev])` is an Event in the loop's hand. `Attach` subscribes and
makes the first read in one call. `HandleEvent` is `onEvent` and the read the loop makes
next; `LoopBreaks` and `LoopDone` are its two ends; `Detach` flags and returns the
subscription. `AttachRefused`: `attached` is set before `subscribe` throws, so an
instance that was refused never attaches. The loop runs in microtasks, so its steps
wait until the dispatcher is idle; the calls may come from inside the sink.
Whether the type of an Event someone emits ends in `.failed`, `.completed` or
`.cancelled` is a choice made when it is handled (`endings`).

`RetainsTheEnd`: the limit is used up; the last critical Event that ended something,
so the terminal Event, is retained whatever follows; a critical Event is given up only
for a later ending, or when all that is retained is critical. `ObservationEnds`:
completion is announced, and once the Run completes or the devtools are detached the
loop ends, so `detach()` and `done` settle; devtools attached to the end have seen it.

### PluginExecution

`pc` names the function of the code that runs next. The sink and everything else
outside act in `Cancel` (the parent signal), `TimeOut` and `InvocationReturns`, which may
happen between any two steps of the kernel, because the kernel calls the sink or
awaits at each of them. `settlement` is the race of `settleInvocation`: an
invocation that comes second is still `running` and may return later, to no effect.
`CreateResult` computes the Result from the state, and `Return` is the end. Whether
a Patch applies is a choice here (`TransformationState` says when it does), and an
output is a number of good Patches, perhaps a rejected one, and a list of Artifacts.

`LateOutputIgnored`, `OneCallAfterTermination`, `CancellationAnnounced`: what
termination may still let happen, and that Event, Diagnostic and Result agree on its
cause. `ReleasedInReverse`: each resource once, in reverse, whatever throws.
`EventsNest`: what starts ends, inside what it started in. `ResultIsFaithful`: the
status follows from the Diagnostics and the phases. `ExposureAuthorized`: each
place of the Result holds only Artifacts of the kinds the policy names for it, all
public and of contributions accepted whole, and the primary is not among its alternatives. `RunReturns`: a Run with a
deadline ends. `ImplementsFailOpen`: it refines `FailOpenRun`.

### PluginGraph

`selectPlugins`, `collectContributions` and `buildEdges` are one step each, then
`Visit` takes the first ready contribution until none is left (`Finish`) or none is
ready (`ReportCycle`). A name is a number, its place in the order of
`localeCompare`. `Plans` defines, from the arguments alone, every order that has
each contribution once, phases ascending, references respected and nothing in
conflict. `PlanWheneverPossible`: compilation succeeds exactly
when there is one and returns one, also when several references declare one edge.
`PlanIsLeast`: it returns the least, so the result
does not depend on the order of discovery. `CycleNamesTheStuck`:
what is reported as a cycle is the greatest set of contributions whose members each
have a predecessor in it, that is, all that lie on a cycle or behind one.

### TransformationState

A text is a sequence of Unicode scalars. Where its graphemes start is the constant operator
`Segments`, which gets the whole text, so that a boundary may depend on what is on both sides of
it and farther away, as it does for `Intl.Segmenter`; the proofs assume nothing else of it. The instance has a combining
mark, CR and LF, and regional indicators that pair up. `candidate` is the private copy of
`applyPatch`; `RefusePatch` and `BeginPatch` are the checks before the loop in their
order, one `Apply...` action is one operation, `RefuseOperation` its failures,
`Commit` and `RefuseCandidate` are `finalizeCandidate`. `EditsAreSimultaneous`
compares the text at every operation with a reference that cuts the base text once.
`ProtectionsFollow`: a protected span is the same occurrence after every operation.
`ChangesTellTheStory`: the recorded changes lead from the base to the new document.
`PatchIsAtomic`: a Patch is applied whole or not at all. `PlainPatchesCommit`: the
final check refuses a Patch exactly when the document has grown too long or a protection is
disturbed (`Disturbed`): its block was edited, and at the place where the text in front of it now ends
one of its ends is no boundary, or its quoted context is not around it. No single operation can see that: an edit next to a
protection with context passes and has its whole Patch refused as `quote-mismatch`, and an
insertion that leaves a protected occurrence alone may join it, as a CR in front of a protected LF,
a combining mark behind a protected letter or a third regional indicator in front of two do
(`invalid-selector`). That place is computed from the base text (`Place`), apart from the
offsets the code shifts edit by edit.

A protection with an empty span is left out of `ProtectionsFollow`: it protects
nothing, and whether an insertion at its place after a deletion leaves it in front
or behind depends on the order of the operations.

### NativePlugin

Steps are turns of Node's event loop: an event (a message, a timer, an exit, a call)
comes only when no continuation is due (`Resumed`), and `Initialized`, `Invoked`, `ShutDown`,
`Lingered` and `Stopped` are what runs between two events. `request` is the
`RpcRequest` in progress, whose timer is the timeout or the cancellation's grace;
`stops` are the calls of `stopChild` that wait, with the signal they sent; `pc` is
where `activate` or `invoke` awaits. A child is what it was sent and whether it is
alive. It may answer, say anything else, hang, or exit at any time, and timers fire
in any order. `Dispose` may come at any time after activation, also while an invocation is spawning.

`NoOrphan`: a child that lives is `#child`, worked with, being stopped, or was sent
SIGKILL. `OneShot`: no child serves two invocations or is sent anything after a
cancellation. `FirstCauseWins`: a request ends with what happened to it first; a late
answer is ignored, and the exit that follows hides nothing. `EverythingEnds`: every
invocation ends, and after disposal no child is left. `TypeOK` includes that nothing waits for a child that is gone.

### RuntimeSession

A frame is what stands between two headers; the stream may be cut anywhere, which the
decoder can tell in three ways only (no header yet, a header without all of its
body, a complete frame), so received bytes are counted in halves of frames. `Push` is the
data handler: it decodes what is complete, throws at a bad header (which stays in the buffer)
or a bad body (which is gone, with what was decoded before it in this chunk), and chains
the requests. `Handle` is the turn of a request, `Skip` that of one behind a rejected
promise. A session is either a host that wrote a script, or the CLI with its three
calls (`Call`, `Read`, `Lose`, `Leave`), which may be interrupted (`Die`).

`AnswersFollowTheStream`: answers are in the order of requests, one each, a run's
Events just before its own; none is skipped but those lost with their own chunk (`Lost`: `push` throws away what it decoded ahead of a
bad body, and the handler stops at a bare value), whatever is wrong in other chunks; nothing is answered behind a bad
header, and what is answered does not depend on cuts; the client never meets an answer that is not its own.
`EveryRequestAnswered`: what arrived is answered, also when a later chunk is broken. `Excused` names
the four other ends: lost with its own chunk, behind a bad header, in the buffer behind a bad body while nothing
more arrives, and behind (or with) an answer too long. The CLI ends. `taken` records with which chunk each frame was taken out.

What the module shows besides: an answer too long for a frame rejects the chain, so that
nothing after it is answered and the CLI waits until it is interrupted, which
`EveryRequestAnswered` names as its exception; and the notification `run/cancel` the CLI sends is
served by nobody (`docs/architecture/protocol.md:164` lists it).

### ConfigurationResolution, CapabilityEvidence, ProjectConfiguration

A pointer is the sequence of its keys. A value is the function from the pointers it has
to the node there, and a schema the function from the pointers it declares to their
rules, so that what the code does by descending (`at`, `setAt`, `validateConfig`,
`merge`) is said of all pointers at once and no operator recurs. `At`, `SetAt`,
`ValidConfig`, `Merge`, `MakeTrace` and `ApplyPolicy` are the functions of those names. An
object that merges is always there; the settings below it, the first pointers that do not merge,
are each decided whole from their `Sources`: the default of their own rule, what the defaults
of the objects around them hold there, then the layers, lowest first. A policy's limit is the set of the
bound it gives. A claim counts before another (`Before`) when it is stronger;
`ResolveOne` is `resolveOne`. `ProjectConfiguration` goes through layers, policies and requirements
in the code's order, with a refusal at each place the code has one.

`TraceIsTrue`: the trace is computed from the layers apart from the value, and every value, at every declared pointer
of every schema, came from where the trace of its *decider* says. The decider (`Decider`) of a pointer is the
outermost object on the way that does not merge, which is decided whole, and else the pointer itself.
A replacing decider has all of what its effective source has there, or what is there by default
when that is no layer: of the defaults of the objects around it and its own the outermost that says something
(`ByDefault`). An accumulated array has the items of the accepted candidates and of the defaults
around it; a member of a merging object is one of an accepted candidate or of a default.
`PoliciesHold`: an applied policy holds of what is returned, unless a later one forces or clamps
the same place or part of it (`Overrides`); a policy that only allows or denies excuses nothing. `ReadyIsProven`: `doctor` says ready only if each
required capability has support no claim as strong contradicts, in whatever order claims come.

## Runs

| run | bounds | size | shows |
|---|---|---|---|
| `dispatcher_backpressure` | two observers with room for one and two Events, three emits | 1.2 million states | all safety properties and the refinement |
| `devtools` | devtools and a plain subscription under one observer id, room for one, two Events retained, three emits | 389,000 | retention and the end of observation; completion is announced |
| `dispatcher_terminal_last` | as the first, room for one each | stops at the violation | finding 1 |
| `execution` | plans of none, two and four contributions in two phases; a Plugin twice, one unregistered, one without disposer; outputs of up to two Patches | 133,000 | all safety properties, the refinement, termination |
| `execution_degraded_original` | as above | stops at the violation | finding 2 |
| `graph` | three contributions in three Plugins, every pair of references (also to missing names and Plugins) and every four that order, two phases; clashing names, unknown phases, partial selections | 15,080 inputs, 104,000 | compilation is exact |
| `patches` | a block of three units and a second block; up to three text edits or two operations of any type, then one more Patch; protections with and without context; scalars that join on either side: a mark, CR and LF, regional indicators | 195,000 | Patches compose and are atomic |
| `native` | two children, one after the other, any number of invocations | 58,900 | requests, children and disposal |
| `native_grace` | one child | stops at the violation | finding 3 |
| `configuration` | nested objects that merge or replace with defaults at every level, up to two layers; arrays of each merge mode, up to three; up to two of eleven policies; up to three claims about one capability, two about two | 310,000 | trace, policies, readiness |
| `configuration_policies` | one configuration, two policies that should change it | stops at the violation | findings 4 and 5, the second and the first policy of its trace |
| `session` | every sequence of up to three frames of fourteen kinds, every cut; every CLI command, good, bad, too long, interrupted anywhere | 144,000 | order and completeness of answers |

Why the bounds are enough. Dispatcher: every decision of `enqueue` compares a queue
with its capacity or an Event with its kind; with one and two places, an observer is
filled by an Event, by the report on the other, and by the terminal Event, and three
emits leave one Event before, one in and one after each. Execution: a contribution's
steps depend on the others only through "same phase", "same Plugin" and the
resources so far, and the plans have each of these both ways. Graph: two references
make every cycle of two, four every cycle of three with a doubled edge. Patches: three edits are two before
a third, in every order, touching, empty or overlapping. Devtools: with two retained, the oldest and the
first progress Event are two places or one, and three emits, the reports and the
terminal Event overflow them twice. Native: one child is what an invocation works with, and a
second is its successor, spawned while the first may still be stopping; what came before is garbage
(`End`). Session: of three frames each can be the good or bad one before, at and after
another, and nothing in the code counts further than one back. Configuration: a
setting is decided by a layer against one other and a default, and a policy by one that
came before; claims by two against a third.

`CHECK_DEADLOCK FALSE` stands where the program ends: a Run has returned, a
compilation is done, no further Patch is proposed (`MaxRevision`), a session is over,
a configuration answered, no further child may be spawned (`MaxChildren`). `MaxEmits` bounds
what callers emit; it is a guard of `Emit`, never of the reports the dispatcher adds.

Fairness. `EventDispatcher`: weak fairness of `Drain`, a synchronous loop that
continues as soon as the sink returns. Nothing is assumed of readers or callers.
`PluginExecution`: weak fairness of the kernel's own steps, and of the deadline's timer. Activation
and disposal are awaited without a bound in the code, and the model assumes that they
settle; an invocation may never return, and the
Run then ends by its deadline. Without a deadline it may wait for ever, and
`RunReturns` does not claim otherwise. `ObserverDevtools`: weak fairness of the dispatcher's loop
and of the devtools' own loop, whose steps are promise continuations.
`NativePlugin`: promises are continued, timers fire (timeout, grace, linger and the waits of
`stopChild`), and a process that was sent SIGKILL exits; nothing is assumed of any other child.
`RuntimeSession`: the pipe delivers, the chain is continued, and the client runs on;
a host never has to write, and the runtime never has to die.

## Findings

1. *The terminal Event is not always the final critical Event*
   (`docs/architecture/events-and-diagnostics.md:31` says it is). `#prepareTerminal`
   reports those who have no room for the terminal Event before it is stamped, but these
   reports are Events too: they fill an observer that had one place left, which then
   cannot take the terminal Event and is reported after it. `TerminalIsFinalCritical`
   fails.
2. *A degraded Result can carry a partial transformation*
   (`docs/product/default-enhance.md:32`, `docs/architecture/events-and-diagnostics.md:136`
   say it derives from the original Input). Patches accepted before the failure stay
   in the document, and the Result reports `transformed`. `DegradedIsOriginal` fails.
3. *Disposal cuts the cancellation grace short*
   (`docs/architecture/plugins-and-recipes.md:54` allows 500 ms for cooperative completion, line 31 says
   that adapters preserve it). The kernel disposes a cancelled Run's Plugins without
   waiting for the invocation it abandoned, and `asyncDispose` sends SIGTERM at once.
   `GraceBeforeTermination` fails.
4. *A forced setting can be recorded as applied and be missing*
   (`configuration-resolution.ts:266`; `docs/architecture/protocol.md:152`). Forcing a setting below an absent object
   gives no configuration at all, the root schema's default is validated in its place, and
   the resolution returns `ok` without the setting. `PoliciesHold` fails.
5. *A minimum alone does not clamp* (`configuration-resolution.ts:287`; `docs/architecture/protocol.md:152`).
   Without a maximum the outer `Math.min` is taken with the current value itself, so a number
   below the minimum stays, and the policy is recorded as clamped. `PoliciesHold` fails.

Also met, and not a run: `docs/architecture/protocol.md:154` says that each trace entry
records the effective source, and at two kinds of pointer the entry does not name where the value is from. Below a
replacing object each member is traced by itself, and names a lower layer that has it although
the object was decided whole by a higher one that has not (`traceCandidates`,
`configuration-resolution.ts:164`); and a value that comes from a default of an object around a setting is traced as
`default` only if the setting's own rule has a default too, else to no source (line 196).
`TraceIsTrue` states what holds at these pointers instead, by their decider. Further: the quarantine after three exits that
`docs/architecture/plugins-and-recipes.md:56` describes has no code yet; a support bundle takes the first
256 retained Events before it sorts them, so with a larger `maxEvents` the terminal
Event can be missing from it.

## Theorems

All hold for every value of the constants that the named assumptions of the modules
allow: any number of subscriptions, capacities, Plugins, plans, phases and Patches.

`EventDispatcherProofs`. `TypeCorrect` (`TypeOK`, which includes that no queue
exceeds its capacity), `SinkOrdered` and `ViewsOrdered`. None of these is inductive
by itself. `Deliver` reads the Event the sink was last given, which exists only because
the sink's log and the pending queue together count the log (`InOrder`,
`SinkHasEvent`); and an Event handed to a waiting reader joins what it has read, which
keeps the order only if nothing is queued for it (`WaitsOnEmpty`) and all it has is
no later than what was delivered (`ViewsAscending`). `IInv` is their conjunction with
`TypeOK`; each action is one step of the proof that it is preserved.

Its second part: `NothingCriticalIsLost`, `LagIsReportedOnce`,
`ReadersAreReleased`, `TheTerminalEnds`, and `DispatcherImplementsBroadcast`: every
dispatcher implements `OrderedBroadcast`. `Delivery` is added to `IInv`: a subscription
is attached exactly while it is open and shares its observer with no other attached
one (`Phases`); from the call of `complete()` on only its own Events are stamped, behind the
terminal Event only reports of detached subscriptions, and nobody is attached once
it is delivered (`Closing`), without which nothing says that a stream which ended was sent the terminal
Event; and what `#dropReported` stands for (`Lagging`): set, there is exactly one
report since the last read; clear, there is none and nothing was skipped.

`PluginExecutionProofs`. `TypeCorrect`, `LateIgnored`, `Released`,
`AtMostOneLateCall`, and `RunIsFailOpen`: every Run implements `FailOpenRun`.
The inductive invariant `IInv` adds to the properties where a step of the kernel
finds itself (`Located`: the index is in the plan while a contribution is in
progress), that a race is decided by what came first (`RaceIsFair`), that a late call is the last (`LateCallIsLast`),
that resources are the activated Plugins not yet disposed, in order (`Acquired`),
and that nothing has failed while the Run still contributes (`CleanUntilStopped`).
`InitMaps` and `StepMaps` show that initial states map to initial states and steps to
steps or stutters of `FailOpenRun`.

Its second part: `EventsAreNested`, `CancellationIsAnnounced`,
`ExposureIsAuthorized`, `TheResultIsFaithful`. `HInv` is added to `IInv`. `Stopping`
says where the kernel is once a Run is cancelled and which Diagnostic explains it; `InPhase`
that the contribution at hand is one of the open phase; `Nesting` which Events are open
at each `pc`; `Provenance` where Artifacts come from;
`Progress` that the completed phases are those of the contributions behind `index`, without the
one the Run is in; `Accounted` that what stops a Run early leaves a Diagnostic, and what the
Result says of both. A phase is opened once only if the contributions of a phase stand together in the plan: that is the assumption `PlansAssumption`,
which is part of what `PlansAreCompiled` (below) proves of every compiled graph.

`PluginGraphProofs`. `TypeCorrect`, `PlansAreCompiled`, `ThePlanIsLeast`,
`CyclesAreNamed`. The degrees the code decrements are the numbers of predecessors not yet
visited (`Counted`, over the successor lists of `Linked`); each contribution was visited
behind its predecessors and before every other one that was ready then (`Sorted`); while there is no
Diagnostic the input is what it should be (`Complete`), and with one there is no plan
(`Refuted`). That every plan is at or after the one found is an argument about the first place where
they differ; that no plan exists when nothing is ready, one about the unvisited contribution a plan would put first.

`TransformationStateProofs`. `TypeCorrect`, `PatchesAreAtomic`, `ChangesTell`,
`EditsApplyAtOnce`, `ProtectionsHold`, `PlainPatchesAreCommitted`, for documents
of any blocks, texts and protections that the schemas accept. The first part is lemmas about a text and
the edits made to it: one more disjoint edit, placed by the lengths added and removed before it, gives what cutting
the base text once gives (`OneMoreEdit`); no edit touches a protected occurrence, so it stays where its
anchor says (`AnchorsStay`, `AnchorsHold`). Then `IInv`: the accepted document passes its own check (`Valid`) and the candidate's blocks
stay distinct (`Whole`); the Patch passed the checks before the loop (`Checked`) and the recorded edits are operations
of it (`Sourced`), so they are disjoint; a block that is protected or edited holds what its recorded edits make of its base
text, and the sums that place the next edit are right (`Tracked`); each protection is the quoted text at its anchor (`Guarded`).
`PlainPatchesAreCommitted` follows: what the final check sees at the shifted offsets is what is at the anchors, whatever `Segments` is.

`NativePluginProofs`. `TypeCorrect`, `NoChildIsLost`, `ChildrenServeOnce`,
`TheFirstCauseWins`, for any number of children. They lean on each other: a request
is settled by its own child only because the call in progress waits for it
(`Attended`, `Located`); a child is not lost because a call that is between two turns still
has to stop it (`Killing`); what a child was sent is where the
conversation stands (`Conversing`); and a request that is pending has the cause it will
be settled with (`Causal`).

`ObserverDevtoolsProofs`. `TheEndIsRetained`. The dispatcher's `IInv` and
`Phases` are carried over to the steps of the composition (`StepOfDispatcher`), and `Reading` says what
the loop has handled and that everything handled is retained while there is room.

`RuntimeSessionProofs`. `AnswersFollow`, for any frames and commands. What a
message says is stated of the messages in front of it alone (`Entry`), so that it survives a stream that
is cut when the runtime dies; the queue holds, in order, requests behind all that were answered, and no
request is missing between them but those lost with their chunk (`SkipsNone`, `Queued`), which stay lost because
`taken` never changes (`LostStays`); `#initialized` stands for an answered
initialize until an answer was too long (`Gate`); no bad header was decoded (`Decoded`), and the CLI has read a result to
each call but the last, so what it has not read is about that one (`Calling`).

`ProjectConfigurationProofs`. `ConfigurationIsValue`, `SourcesAreTrue`,
`PoliciesAreApplied`, `PoliciesAreEnforced`, `ReadinessIsProven`, for schemas of any depth, any
layers, policies, requirements and claims. Most of it is lemmas about the
operators, none of them by induction over a value.
- No setting is below another (`SettingsApart`), so every pointer of a merged configuration is in
  exactly one setting or is an object that merges (`MergedPointers`, `MergedSetting`). The sources of a
  setting are the defaults around it, innermost first, and the layers (`SourcesAround`); the latest present one is the
  one the trace names, or the outermost default that says something (`LatestSource`). What decides a pointer
  is reached through objects that merge (`DeciderIs`), and what is below it is part of it (`AtChain`), which gives
  `SourceOfSetting` for every pointer; an accumulated list has the items of all sources
  (`AccumulatedItems`), and a member of an object that merges one that has it
  (`MemberHasSource`).
- What policies do to a pointer shows at that pointer (`SetThenAt`) and at no pointer that
  does not overlap it (`SetElsewhere`); so an applied policy holds afterwards (`PolicyApplied`) and one
  more policy leaves the earlier ones true unless it changes what they are about (`PolicyLeaves`, `OneMorePolicy`).
- Among the claims a verdict of `satisfied` was drawn from there is a strongest
  supported one, which none at its strength or above contradicts (`SatisfiedIsSupported`).

`IInv` is what the assumption says of the problem (`WellPosed`), `TypeOK`, that the policies behind the loop are kept
(`PoliciesAreKept`), that trace and merged value are those of the layers
(`TraceIsMade`), and that what `doctor` weighs are the resolutions of the requirements
behind the loop (`EvidenceIsHeard`). `PoliciesAreApplied` is the invariant with the exceptions
the proof met: after a policy set a value below an absent object the configuration is absent (finding 4),
and a clamp with a minimum alone does nothing (finding 5, which was found by the attempt to prove
`ClampedBounds`). `PoliciesAreEnforced` shows that there is no other: `PoliciesHold` under every schema
whose root has no default and all policies but such clamps (`Enforceable`).

Assumptions. Each is named in the module that declares the constant, and TLC evaluates it on
every run. They are types and limits of the code's own schemas and constructors
(subscriptions are finitely many with positive capacities, an unknown phase comes after the known ones, a
document is what `PromptDocument` accepts; `FamiliesAssumption`: pointers of values and schemas lead through
objects, lists are lists, a limit is at most one number), and `PlansAssumption`.

Model-checked only: liveness (`RunReturns`, `ObservationEnds`, `EverythingEnds`,
`EveryRequestAnswered`), since fairness is outside the prover's reach. Every safety
property that a passing run checks is a theorem.

## What is abstracted

Event payloads, identifiers, clocks, durations and Debug Records: nothing branches on
them. Texts of Diagnostics: codes only. The schema validation of inputs: inputs are
values the schemas accept, and where the code checks a value at run time (an output,
an Artifact, a Patch) the model has bad ones. Allocation failure, and a sink that
throws (the dispatcher swallows it at the call).

Child processes are their messages and exits; pids, environment and stderr are left out.
The bytes of a frame, JSON and ids beyond "is it this request"; schema values beyond two numbers,
strings, objects and arrays.

## Not modelled

- The JSONC parser, previews of values and secret references (`configuration-jsonc.ts`, parts of
  `configuration-schema.ts`): text to value and value to text, with no state; the
  model starts from the value or from "unreadable".
- The validators and types of `packages/protocol` beyond the framing: a request is
  good or not.
- CLI flags, printing and the decoding of Results (`transformation.go`, parts of `main.go`).
- Copies of Events to the console and JSON sinks, redaction and byte caps of support
  bundles: projections that no later decision reads.
- Lazy Plugin loading: one check between two reads of the file system, which is
  outside the model; its outcomes are those of an activation.
- Debug Records: bounded copies of errors that reach no decision.
- The Provider SDK: types, and a scripted fake for tests.
- Agent work claims, quality scripts, dashboard: tools of the maintainers over git and files.
- Two hazards no property covers. `activate()` is awaited without the abort signal
  (`plugin-execution.ts:188`): the code gives no bound to check, and the fairness of
  `PluginExecution` names the assumption. An activation value that is no
  implementation is dropped without being disposed (line 189): the kernel keeps no
  reference to it.

## Plan

The next step is composition: the plan of `PluginGraph` as the plan of `PluginExecution`, Patches of
`TransformationState` as its outputs, and `NativePlugin` as one of its Plugins, whose disposal
follows the abandoned invocation of finding 3.
