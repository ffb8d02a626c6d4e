---------------------------- MODULE NativePlugin ----------------------------
(***************************************************************************)
(* The supervisor of a native Plugin (apps/runtime-node/src/               *)
(* native-plugin.ts): one child process at a time, spoken to in requests    *)
(* that a timer and an abort signal can cancel, and stopped by signals.     *)
(*                                                                         *)
(* Steps are turns of the event loop.  An event (a message, a timer, an     *)
(* exit, a call) only comes when no promise is left to be continued, and    *)
(* the continuations it causes run before the next event.  The child is     *)
(* arbitrary: it may say anything or nothing at any time, and exit at any    *)
(* time.  Timers fire in any order, as delays are not bounded.              *)
(***************************************************************************)
EXTENDS Naturals, Sequences, SequencesExt

CONSTANT MaxChildren   (* bound: children one supervisor spawns *)
ASSUME ChildrenAssumption == MaxChildren \in Nat

VARIABLES
  children,   (* per spawned child: its status and the messages it was sent *)
  child,      (* #child, 0 when undefined                                 *)
  pc,         (* where activate() or invoke() is                          *)
  current,    (* the child it works with, 0 for none                      *)
  inFlight,   (* #inFlight                                                *)
  aborted,    (* the signal of the invocation                             *)
  request,    (* the RpcRequest that was last started                     *)
  stops,      (* the calls of stopChild that wait for an exit             *)
  outcome,    (* of the last call: its result, or the error it throws     *)
  disposed,   (* history: asyncDispose has been called                    *)
  cause       (* history: what happened first to the request              *)

vars == <<children, child, pc, current, inFlight, aborted, request, stops,
          outcome, disposed, cause>>

NoRequest == [child |-> 0, method |-> "initialize", timer |-> "off",
              cancellation |-> "none", outcome |-> "result"]
Live(c) == children[c].status # "exited"

Init ==
  /\ children = <<>>
  /\ child = 0
  /\ pc = "inactive"
  /\ current = 0
  /\ inFlight = FALSE
  /\ aborted = FALSE
  /\ request = NoRequest
  /\ stops = {}
  /\ outcome = "none"
  /\ disposed = FALSE
  /\ cause = "none"

-----------------------------------------------------------------------------
(* The event loop                                                          *)

Pending == request.outcome = "pending"
Requesting == pc \in {"initialize", "invoke", "shutdown"}
Stopping == pc \in {"stop-spawned", "stop-lingering", "stop-shutdown", "stop-invoked"}

(* activate() or invoke() has been handed what it awaits.                  *)
Resumed ==
  \/ Requesting /\ ~Pending
  \/ pc = "linger" /\ ~Live(current)
  \/ Stopping /\ \A s \in stops : s.by # "main"

-----------------------------------------------------------------------------
(* RpcRequest                                                              *)

Finished(r, result) == [r EXCEPT !.outcome = result, !.timer = "off"]
(* #finishError: what cancelled the request comes before what ended it.    *)
Failed(r) == Finished(r, IF r.cancellation = "none" THEN "exited" ELSE r.cancellation)

FaultAccepts(r) == r.outcome = "pending"

(* Whether #acceptMessage, #protocolError and #cancel still do anything.   *)
Accepts(r) == r.outcome = "pending" /\ r.cancellation = "none"

First(event) == cause' = IF cause = "none" THEN event ELSE cause

Told(c, messages) == [children EXCEPT ![c].sent = @ \o messages]

(* run: the request is written, and cancelled at once when the signal is    *)
(* aborted already.                                                        *)
Started(c, method, cancelled) ==
  [child |-> c, method |-> method,
   timer |-> IF cancelled THEN "grace" ELSE "armed",
   cancellation |-> IF cancelled THEN "cancelled" ELSE "none",
   outcome |-> "pending"]
Request(c, method, cancelled) ==
  /\ request' = Started(c, method, cancelled)
  /\ children' = Told(c, <<method>> \o IF cancelled THEN <<"plugin/cancel">> ELSE <<>>)
  /\ cause' = IF cancelled THEN "cancelled" ELSE "none"

(* #cancel: the child is told, and stopped when the grace is over.         *)
Cancel(message) ==
  /\ request' = [request EXCEPT !.cancellation = message, !.timer = "grace"]
  /\ children' = Told(request.child, <<"plugin/cancel">>)

(* stopChild up to its first wait: SIGTERM, unless the child has exited.   *)
StopSet(by, c) == IF Live(c) THEN {[by |-> by, child |-> c, signal |-> "SIGTERM"]} ELSE {}
Stop(by, c) == stops' = stops \cup StopSet(by, c)

supervision == <<child, pc, current, inFlight, aborted, outcome, disposed>>

(* #onData: an answer to this request.  Only `initialize' looks at the      *)
(* result.                                                                 *)
Answer(result) ==
  /\ ~Resumed /\ Pending
  /\ result = "invalid" => request.method = "initialize"
  /\ First(result)
  /\ request' = IF Accepts(request) THEN Finished(request, result) ELSE request
  /\ UNCHANGED <<supervision, children, stops>>

(* #onData: a wrong id, an error, a request, or bytes that do not decode.  *)
Garble ==
  /\ ~Resumed /\ Pending
  /\ First("protocol error")
  /\ Accepts(request)
  /\ request' = [request EXCEPT !.cancellation = "protocol error", !.timer = "off"]
  /\ Stop("request", request.child)
  /\ UNCHANGED <<supervision, children>>

TimeOut ==
  /\ ~Resumed /\ Pending
  /\ request.timer = "armed"
  /\ Cancel("timed out")
  /\ First("timed out")
  /\ UNCHANGED <<supervision, stops>>

GraceEnds ==
  /\ ~Resumed /\ Pending
  /\ request.timer = "grace"
  /\ request' = [request EXCEPT !.timer = "off"]
  /\ Stop("request", request.child)
  /\ UNCHANGED <<supervision, children, cause>>

(* The write fails or stdin breaks while the child may live on.            *)
BreakPipe ==
  /\ ~Resumed /\ Pending
  /\ First("exited")
  /\ request' = Failed(request)
  /\ UNCHANGED <<supervision, children, stops>>

-----------------------------------------------------------------------------
(* The child and the signals it is sent                                    *)

(* Nobody listens for the exit while stopChild waits.                      *)
FaultExit(c) ==
  /\ ~Resumed /\ Live(c)
  /\ children' = [children EXCEPT ![c].status = "exited"]
  /\ IF Pending /\ request.child = c
     THEN request' = Failed(request) /\ First("exited")
     ELSE UNCHANGED <<request, cause>>
  /\ UNCHANGED <<supervision, stops>>

Exit(c) ==
  /\ ~Resumed /\ Live(c)
  /\ children' = [children EXCEPT ![c].status = "exited"]
  /\ stops' = {s \in stops : s.child # c}
  /\ IF Pending /\ request.child = c
     THEN request' = Failed(request) /\ First("exited")
     ELSE UNCHANGED <<request, cause>>
  /\ UNCHANGED supervision

(* SIGTERM is all a child is ever sent.                                    *)
FaultStopWaited(s) ==
  /\ ~Resumed /\ s \in stops
  /\ stops' = stops \ {s}
  /\ UNCHANGED <<supervision, children, request, cause>>

(* waitForExit gives up: stopChild sends SIGKILL, or is done.              *)
StopWaited(s) ==
  /\ ~Resumed /\ s \in stops
  /\ IF s.signal = "SIGTERM"
     THEN /\ stops' = (stops \ {s}) \cup {[s EXCEPT !.signal = "SIGKILL"]}
          /\ children' = [children EXCEPT ![s.child].status = "killed"]
     ELSE /\ stops' = stops \ {s}
          /\ UNCHANGED children
  /\ UNCHANGED <<supervision, request, cause>>

-----------------------------------------------------------------------------
(* NativePluginSupervisor                                                  *)

(* #spawnInitialized: a child and its `initialize' request.                *)
Spawn ==
  /\ Len(children) < MaxChildren
  /\ children' = Append(children, [status |-> "running", sent |-> <<"initialize">>])
  /\ current' = Len(children) + 1
  /\ request' = Started(current', "initialize", FALSE)
  /\ cause' = "none"
  /\ pc' = "initialize"
  /\ outcome' = "pending"
  /\ UNCHANGED <<child, stops, disposed>>

Activate ==
  /\ pc = "inactive"
  /\ Spawn
  /\ UNCHANGED <<inFlight, aborted>>

(* A call while another is in flight is denied and changes nothing.        *)
Invoke(signal) ==
  /\ pc = "idle"
  /\ inFlight' = TRUE
  /\ aborted' = signal
  /\ IF child # 0 /\ Live(child)
     THEN /\ Request(child, "plugin/invoke", signal)
          /\ current' = child
          /\ pc' = "invoke"
          /\ outcome' = "pending"
          /\ UNCHANGED <<child, stops, disposed>>
     ELSE Spawn

(* The call is over: it returns, or throws.  What it used is garbage.      *)
End(where, result) ==
  /\ pc' = where
  /\ outcome' = result
  /\ inFlight' = FALSE /\ aborted' = FALSE
  /\ current' = 0 /\ request' = NoRequest /\ cause' = "none"
  /\ UNCHANGED <<children, stops, disposed>>

(* spawn itself throws: there is no child.                                 *)
SpawnThrows ==
  \/ /\ pc = "inactive"
     /\ End("failed", "exited")
     /\ UNCHANGED child
  \/ /\ pc = "idle"
     /\ child # 0 => ~Live(child)
     /\ End("idle", "exited")
     /\ child' = 0

(* A child that fails to initialize is forgotten.                          *)
FaultStopThen(where, thrown) ==
  /\ IF where = "stop-spawned" THEN UNCHANGED stops ELSE Stop("main", current)
  /\ pc' = where
  /\ outcome' = thrown
  /\ UNCHANGED <<children, child, current, inFlight, aborted, request, disposed, cause>>

(* A failed step stops the child before its error is thrown on.            *)
StopThen(where, thrown) ==
  /\ Stop("main", current)
  /\ pc' = where
  /\ outcome' = thrown
  /\ UNCHANGED <<children, child, current, inFlight, aborted, request, disposed, cause>>

(* The error #request rejects with, or the refusal of its result.          *)
Failure == IF request.outcome = "invalid" THEN "protocol error" ELSE request.outcome

Initialized ==
  /\ pc = "initialize" /\ ~Pending
  /\ \/ /\ request.outcome = "result" /\ inFlight
        /\ child' = current
        /\ Request(current, "plugin/invoke", aborted)
        /\ pc' = "invoke"
        /\ UNCHANGED <<current, stops, inFlight, aborted, outcome, disposed>>
     \/ /\ request.outcome = "result" /\ ~inFlight
        /\ child' = current
        /\ End("idle", "result")
     \/ /\ request.outcome # "result"
        /\ StopThen("stop-spawned", Failure)

(* The child is kept for the next invocation.                              *)
FaultInvoked ==
  /\ pc = "invoke" /\ ~Pending
  /\ \/ request.outcome = "result" /\ End("idle", "result") /\ UNCHANGED child
     \/ request.outcome # "result" /\ StopThen("stop-invoked", request.outcome)

Invoked ==
  /\ pc = "invoke" /\ ~Pending
  /\ \/ /\ request.outcome = "result"
        /\ Request(current, "plugin/shutdown", FALSE)
        /\ pc' = "shutdown"
        /\ UNCHANGED <<stops, child, current, inFlight, aborted, outcome, disposed>>
     \/ /\ request.outcome # "result"
        /\ StopThen("stop-invoked", request.outcome)

ShutDown ==
  /\ pc = "shutdown" /\ ~Pending
  /\ \/ /\ request.outcome = "result"
        /\ pc' = "linger"
        /\ UNCHANGED <<children, stops, request, cause, child, current, inFlight, aborted,
                       outcome, disposed>>
     \/ /\ request.outcome # "result"
        /\ StopThen("stop-shutdown", request.outcome)

WithoutCurrent == IF child = current THEN 0 ELSE child

(* The child exited after its shutdown was acknowledged.                   *)
Lingered ==
  /\ pc = "linger" /\ ~Live(current)
  /\ End("idle", "result")
  /\ child' = WithoutCurrent

LingerEnds ==
  /\ pc = "linger" /\ Live(current)
  /\ StopThen("stop-lingering", "shutdown timed out")

(* The error passes the next catch, which stops the child again.           *)
Stopped ==
  /\ Stopping
  /\ \A s \in stops : s.by # "main"
  /\ \/ /\ pc = "stop-lingering"
        /\ StopThen("stop-shutdown", outcome)
     \/ /\ pc = "stop-shutdown"
        /\ Stop("main", current)
        /\ pc' = "stop-invoked"
        /\ child' = WithoutCurrent
        /\ UNCHANGED <<children, outcome, current, inFlight, aborted, request, disposed, cause>>
     \/ /\ pc = "stop-invoked" \/ (pc = "stop-spawned" /\ inFlight)
        /\ End("idle", outcome)
        /\ child' = 0
     \/ /\ pc = "stop-spawned" /\ ~inFlight
        /\ End("failed", outcome)
        /\ UNCHANGED child

(* The signal of the invocation: only its plugin/invoke request listens.   *)
Abort ==
  /\ ~Resumed
  /\ inFlight /\ ~aborted
  /\ aborted' = TRUE
  /\ IF Pending /\ request.method = "plugin/invoke"
     THEN /\ First("cancelled")
          /\ IF Accepts(request) THEN Cancel("cancelled") ELSE UNCHANGED <<request, children>>
     ELSE UNCHANGED <<request, children, cause>>
  /\ UNCHANGED <<child, pc, current, inFlight, stops, outcome, disposed>>

(* asyncDispose, at any time after activation: the child is let go and      *)
(* stopped; without one there is nothing to do.                            *)
Dispose ==
  /\ ~Resumed
  /\ pc \notin {"inactive", "failed"} /\ (pc \in {"initialize", "stop-spawned"} => inFlight)
  /\ disposed' = TRUE
  /\ child' = 0
  /\ IF child # 0 THEN Stop("dispose", child) ELSE UNCHANGED stops
  /\ UNCHANGED <<children, pc, current, inFlight, aborted, request, outcome, cause>>

-----------------------------------------------------------------------------
Continue == Initialized \/ Invoked \/ ShutDown \/ Lingered \/ Stopped

Next ==
  \/ Activate \/ SpawnThrows \/ (\E signal \in BOOLEAN : Invoke(signal))
  \/ Abort \/ Dispose
  \/ (\E result \in {"result", "invalid"} : Answer(result))
  \/ Garble \/ TimeOut \/ GraceEnds \/ BreakPipe
  \/ (\E c \in DOMAIN children : Exit(c))
  \/ (\E s \in stops : StopWaited(s))
  \/ LingerEnds
  \/ Continue

(* Promises are continued, timers fire, and a process that was sent SIGKILL *)
(* exits.  Nothing is assumed of a child that was not.                     *)
Reap == \E c \in DOMAIN children : children[c].status = "killed" /\ Exit(c)
Fairness ==
  /\ WF_vars(Continue)
  /\ WF_vars(TimeOut) /\ WF_vars(GraceEnds) /\ WF_vars(LingerEnds)
  /\ WF_vars(\E s \in stops : StopWaited(s))
  /\ WF_vars(Reap)

Spec == Init /\ [][Next]_vars /\ Fairness

-----------------------------------------------------------------------------
(* Properties                                                              *)

Conversation == <<"initialize", "plugin/invoke", "plugin/shutdown">>
Causes == {"result", "invalid", "timed out", "cancelled", "protocol error", "exited"}
Errors == {"timed out", "cancelled", "protocol error", "exited", "shutdown timed out"}

(* The state is well formed.  What waits, waits for a child that lives:     *)
(* a request or a stopChild whose child is gone would never be settled      *)
(* (RpcRequest.#onExit, waitForExit).                                      *)
TypeOK ==
  /\ \A c \in DOMAIN children :
       /\ children[c].status \in {"running", "killed", "exited"}
       /\ children[c].sent \in Seq({"plugin/cancel"} \cup ToSet(Conversation))
  /\ {child, current} \subseteq {0} \cup DOMAIN children
  /\ Requesting \/ Stopping \/ pc \in {"inactive", "failed", "idle", "linger"}
  /\ inFlight \in BOOLEAN /\ aborted \in BOOLEAN /\ disposed \in BOOLEAN
  /\ request.outcome \in {"pending"} \cup Causes
  /\ Pending => request.child \in DOMAIN children /\ Live(request.child)
  /\ \A s \in stops : s.child \in DOMAIN children /\ Live(s.child)
  /\ outcome \in {"none", "pending", "result"} \cup Errors
  /\ cause \in {"none"} \cup Causes

(* Every child that lives is in somebody's hands: kept as #child, worked    *)
(* with by the call in progress, or being stopped.  One that is not has     *)
(* been sent SIGKILL.  Whatever fails, and whenever disposal comes          *)
(* (#spawnInitialized, invoke, #shutdown, asyncDispose).                    *)
NoOrphan ==
  \A c \in DOMAIN children :
    Live(c) => \/ c \in {child, current}
               \/ \E s \in stops : s.child = c
               \/ children[c].status = "killed"

(* No child serves two invocations: what it is sent is the conversation up  *)
(* to some point, and nothing after a cancellation, so that no answer of    *)
(* one invocation can be taken for an answer of another (invoke, #shutdown).*)
OneShot ==
  \A c \in DOMAIN children :
    \E n \in 1..Len(Conversation) :
      children[c].sent \in {SubSeq(Conversation, 1, n),
                            Append(SubSeq(Conversation, 1, n), "plugin/cancel")}

(* A request ends with what happened to it first: an answer that is late    *)
(* for a timeout, a cancellation or a protocol error is ignored, and the    *)
(* exit these lead to does not hide them (#acceptMessage, #finishError).    *)
FirstCauseWins == Pending \/ request.outcome = cause \/ request = NoRequest

(* Every invocation ends, and after disposal no child is left, whatever the *)
(* child does or fails to do (#cancel, stopChild, asyncDispose).            *)
EverythingEnds ==
  /\ inFlight ~> ~inFlight
  /\ disposed ~> \A c \in DOMAIN children : ~Live(c)

(* docs/architecture/plugins-and-recipes.md:54 and 31: a cancelled          *)
(* invocation has its grace for cooperative completion before the process   *)
(* is terminated, and disposal preserves it (asyncDispose).                 *)
InGrace(c) == Pending /\ request.child = c /\ request.timer = "grace"
GraceBeforeTermination ==
  [][\A s \in stops' \ stops : s.signal = "SIGTERM" => ~InGrace(s.child)']_vars

=============================================================================
