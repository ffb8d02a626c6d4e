------------------------- MODULE NativePluginProofs -------------------------
(***************************************************************************)
(* What holds of a supervisor for any number of children, however they      *)
(* behave and whenever its calls, timers and signals come.                  *)
(***************************************************************************)
EXTENDS NativePlugin, SequenceTheorems, TLAPS

Messages == {"initialize", "plugin/invoke", "plugin/shutdown", "plugin/cancel"}
ChildRecord == [status : {"running", "killed", "exited"}, sent : Seq(Messages)]
RequestRecord ==
  [child : Nat, method : {"initialize", "plugin/invoke", "plugin/shutdown"},
   timer : {"off", "armed", "grace"},
   cancellation : {"none", "timed out", "cancelled", "protocol error"},
   outcome : {"pending"} \cup Causes]
StopRecord == [by : {"main", "request", "dispose"}, child : Nat,
               signal : {"SIGTERM", "SIGKILL"}]
Points == {"inactive", "failed", "idle", "linger", "initialize", "invoke", "shutdown",
           "stop-spawned", "stop-lingering", "stop-shutdown", "stop-invoked"}

Typed ==
  /\ children \in Seq(ChildRecord)
  /\ child \in {0} \cup DOMAIN children
  /\ pc \in Points
  /\ current \in {0} \cup DOMAIN children
  /\ inFlight \in BOOLEAN
  /\ aborted \in BOOLEAN
  /\ request \in RequestRecord
  /\ stops \subseteq StopRecord
  /\ outcome \in {"none", "pending", "result"} \cup Errors
  /\ disposed \in BOOLEAN
  /\ cause \in {"none"} \cup Causes

(* What waits, waits for a child that lives.                               *)
Attended ==
  /\ Pending => request.child \in DOMAIN children /\ Live(request.child)
  /\ Requesting /\ request.outcome = "result" => Live(current)
  /\ \A s \in stops : s.child \in DOMAIN children /\ Live(s.child)

(* Where activate() or invoke() is, which child and request it works with,  *)
(* and which child is kept meanwhile: while a successor is spawned only a   *)
(* dead one, from the invocation on only the one that serves it.           *)
AtRest == pc \in {"inactive", "failed", "idle"}
Spawning == pc \in {"initialize", "stop-spawned"}
Located ==
  /\ AtRest <=> current = 0
  /\ Pending => Requesting
  /\ Requesting => request.child = current
  /\ Spawning => child = 0 \/ ~Live(child)
  /\ ~AtRest /\ ~Spawning => child \in {0, current}
  /\ pc = "inactive" => child = 0

(* A call that stops its child waits, or has sent SIGKILL, or has seen it   *)
(* exit; and a stopChild that sent SIGKILL has left no other way.           *)
Killing ==
  /\ \A s \in stops : s.signal = "SIGKILL" => children[s.child].status = "killed"
  /\ Stopping => \/ children[current].status # "running"
                 \/ \E s \in stops : s.by = "main" /\ s.child = current

(* What a child has been sent: a part of the conversation, and perhaps a    *)
(* cancellation behind it.                                                 *)
Talk(n) == SubSeq(Conversation, 1, n)
Spoken(sent) ==
  \E n \in 1..Len(Conversation) : sent \in {Talk(n), Append(Talk(n), "plugin/cancel")}
Method(n) == Conversation[n]
Turn == IF pc = "initialize" THEN 1 ELSE IF pc = "invoke" THEN 2 ELSE 3
Told2 == request.cancellation \in {"cancelled", "timed out"}
Conversing ==
  /\ \A c \in DOMAIN children : Spoken(children[c].sent)
  /\ Requesting =>
       /\ request.method = Method(Turn)
       /\ children[current].sent = IF Told2 THEN Append(Talk(Turn), "plugin/cancel")
                                            ELSE Talk(Turn)
  /\ pc = "idle" /\ child # 0 => children[child].sent = Talk(1)

(* A request is settled only with its cause, and is cancelled only once.    *)
Causal ==
  /\ Pending => cause = request.cancellation
  /\ request.timer = "armed" => request.cancellation = "none"
  /\ ~Pending => request.outcome = cause \/ request = NoRequest
  /\ request.outcome \in {"result", "invalid"} => request.cancellation = "none"
  /\ request.outcome = "invalid" => request.method = "initialize"

IInv == Typed /\ Attended /\ Located /\ Killing /\ NoOrphan /\ Conversing /\ Causal

-----------------------------------------------------------------------------
(* What children are sent                                                  *)

LEMMA ConversationFacts ==
  /\ Conversation \in Seq(Messages)
  /\ Len(Conversation) = 3
  /\ Conversation[1] = "initialize"
  /\ Conversation[2] = "plugin/invoke"
  /\ Conversation[3] = "plugin/shutdown"
  /\ \A m \in Messages : <<m>> \in Seq(Messages)
BY DEF Conversation, Messages

LEMMA TalkFacts ==
  /\ Talk(1) = <<"initialize">>
  /\ Talk(2) = Talk(1) \o <<"plugin/invoke">>
  /\ Talk(3) = Talk(2) \o <<"plugin/shutdown">>
  /\ \A n \in 1..3 : Talk(n) \in Seq(Messages)
<1>1. \A n \in 1..3 : Talk(n) = SubSeq(Conversation, 1, n - 1) \o <<Conversation[n]>>
  BY ConversationFacts, SubSeqRecursiveSecond DEF Talk
<1>2. SubSeq(Conversation, 1, 0) = <<>>
  BY SubSeqEmpty
<1>3. <<>> \o <<"initialize">> = <<"initialize">>
  BY ConversationFacts, ConcatEmptySeq DEF Messages
<1>4. \A n \in 1..3 : Talk(n) \in Seq(Messages)
  <2>1. \A n \in 1..3 : \A i \in 1..n : Conversation[i] \in Messages
    BY ConversationFacts DEF Messages
  <2>2. QED BY <2>1, SubSeqProperties DEF Talk
<1>5. 2 - 1 = 1 /\ 3 - 1 = 2 /\ 1 - 1 = 0
  OBVIOUS
<1>6. Talk(1) = <<"initialize">>
  BY <1>1, <1>2, <1>3, <1>5, ConversationFacts
<1>7. Talk(2) = Talk(1) \o <<"plugin/invoke">>
  BY <1>1, <1>5, ConversationFacts DEF Talk
<1>8. Talk(3) = Talk(2) \o <<"plugin/shutdown">>
  BY <1>1, <1>5, ConversationFacts DEF Talk
<1>9. QED BY <1>4, <1>6, <1>7, <1>8

(* A request follows on the one before, and perhaps a cancellation on it.   *)
Saying(method, cancelled) == <<method>> \o IF cancelled THEN <<"plugin/cancel">> ELSE <<>>

LEMMA TalkOn ==
  /\ \A n \in 1..3 : /\ Talk(n) \o <<"plugin/cancel">> = Append(Talk(n), "plugin/cancel")
                     /\ Append(Talk(n), "plugin/cancel") \in Seq(Messages)
  /\ \A cancelled \in BOOLEAN :
       /\ Saying("plugin/invoke", cancelled) \in Seq(Messages)
       /\ Saying("plugin/shutdown", cancelled) \in Seq(Messages)
       /\ Talk(1) \o Saying("plugin/invoke", cancelled)
            = IF cancelled THEN Append(Talk(2), "plugin/cancel") ELSE Talk(2)
       /\ Talk(2) \o Saying("plugin/shutdown", cancelled)
            = IF cancelled THEN Append(Talk(3), "plugin/cancel") ELSE Talk(3)
<1>1. {"plugin/invoke", "plugin/shutdown", "plugin/cancel"} \subseteq Messages
  BY DEF Messages
<1>2. ASSUME NEW n \in 1..3
      PROVE  /\ Talk(n) \o <<"plugin/cancel">> = Append(Talk(n), "plugin/cancel")
             /\ Append(Talk(n), "plugin/cancel") \in Seq(Messages)
  BY <1>1, TalkFacts, AppendIsConcat, AppendProperties
<1>3. ASSUME NEW n \in 1..3, NEW k \in 1..3, NEW method \in {"plugin/invoke", "plugin/shutdown"},
             Talk(k) = Talk(n) \o <<method>>, NEW cancelled \in BOOLEAN
      PROVE  /\ Saying(method, cancelled) \in Seq(Messages)
             /\ Talk(n) \o Saying(method, cancelled)
                  = IF cancelled THEN Append(Talk(k), "plugin/cancel") ELSE Talk(k)
  <2>1. /\ Talk(n) \in Seq(Messages)
        /\ <<method>> \in Seq(Messages)
        /\ <<"plugin/cancel">> \in Seq(Messages)
    BY <1>1, TalkFacts, ConversationFacts
  <2>2. CASE cancelled
    <3>1. Saying(method, cancelled) = <<method>> \o <<"plugin/cancel">>
      BY <2>2 DEF Saying
    <3>2. Talk(n) \o (<<method>> \o <<"plugin/cancel">>) = Talk(k) \o <<"plugin/cancel">>
      BY <1>3, <2>1, ConcatAssociative
    <3>3. Talk(k) \o <<"plugin/cancel">> = Append(Talk(k), "plugin/cancel")
      BY <1>2, <2>1
    <3>4. <<method>> \o <<"plugin/cancel">> \in Seq(Messages)
      BY <2>1, ConcatProperties
    <3>5. QED BY <3>1, <3>2, <3>3, <3>4, <2>2
  <2>3. CASE ~cancelled
    <3>1. Saying(method, cancelled) = <<method>>
      BY <2>1, <2>3, ConcatEmptySeq DEF Saying
    <3>2. QED BY <3>1, <1>3, <2>1, <2>3
  <2>4. QED BY <2>2, <2>3
<1>4. QED
  <2>0. 1 \in 1..3 /\ 2 \in 1..3 /\ 3 \in 1..3
    OBVIOUS
  <2>1. \A cancelled \in BOOLEAN :
          /\ Saying("plugin/invoke", cancelled) \in Seq(Messages)
          /\ Talk(1) \o Saying("plugin/invoke", cancelled)
               = IF cancelled THEN Append(Talk(2), "plugin/cancel") ELSE Talk(2)
    BY <1>3, <2>0, TalkFacts
  <2>2. \A cancelled \in BOOLEAN :
          /\ Saying("plugin/shutdown", cancelled) \in Seq(Messages)
          /\ Talk(2) \o Saying("plugin/shutdown", cancelled)
               = IF cancelled THEN Append(Talk(3), "plugin/cancel") ELSE Talk(3)
    BY <1>3, <2>0, TalkFacts
  <2>3. QED BY <1>2, <2>1, <2>2

LEMMA TalkIsSpoken ==
  \A n \in 1..3 : Spoken(Talk(n)) /\ Spoken(Append(Talk(n), "plugin/cancel"))
BY ConversationFacts DEF Spoken

LEMMA TurnFacts == Turn \in 1..3
<1>1. 1 \in 1..3 /\ 2 \in 1..3 /\ 3 \in 1..3
  OBVIOUS
<1>2. QED BY <1>1 DEF Turn

LEMMA ToldChildren ==
  ASSUME children \in Seq(ChildRecord), NEW c \in DOMAIN children,
         NEW messages \in Seq(Messages), children' = Told(c, messages)
  PROVE  /\ children' \in Seq(ChildRecord)
         /\ DOMAIN children' = DOMAIN children
         /\ \A d \in DOMAIN children : children'[d].status = children[d].status
         /\ children'[c].sent = children[c].sent \o messages
         /\ \A d \in DOMAIN children : d # c => children'[d] = children[d]
<1>1. children[c] \in ChildRecord
  BY ElementOfSeq
<1>2. children[c].sent \o messages \in Seq(Messages)
  BY <1>1, ConcatProperties DEF ChildRecord
<1>3. [children[c] EXCEPT !.sent = @ \o messages] \in ChildRecord
  BY <1>1, <1>2 DEF ChildRecord
<1>4. children' = [children EXCEPT ![c] = [children[c] EXCEPT !.sent = @ \o messages]]
  BY DEF Told
<1>5. children' \in Seq(ChildRecord) /\ DOMAIN children' = DOMAIN children
  BY <1>3, <1>4, ExceptSeq
<1>6. QED BY <1>1, <1>4, <1>5 DEF ChildRecord

LEMMA MarkedChildren ==
  ASSUME children \in Seq(ChildRecord), NEW c \in DOMAIN children,
         NEW status \in {"running", "killed", "exited"},
         children' = [children EXCEPT ![c].status = status]
  PROVE  /\ children' \in Seq(ChildRecord)
         /\ DOMAIN children' = DOMAIN children
         /\ \A d \in DOMAIN children : children'[d].sent = children[d].sent
         /\ children'[c].status = status
         /\ \A d \in DOMAIN children : d # c => children'[d] = children[d]
<1>1. children[c] \in ChildRecord
  BY ElementOfSeq
<1>2. [children[c] EXCEPT !.status = status] \in ChildRecord
  BY <1>1 DEF ChildRecord
<1>3. children' = [children EXCEPT ![c] = [children[c] EXCEPT !.status = status]]
  OBVIOUS
<1>4. children' \in Seq(ChildRecord) /\ DOMAIN children' = DOMAIN children
  BY <1>2, <1>3, ExceptSeq
<1>5. QED BY <1>1, <1>3, <1>4 DEF ChildRecord

LEMMA NewChild ==
  ASSUME children \in Seq(ChildRecord),
         children' = Append(children, [status |-> "running", sent |-> <<"initialize">>])
  PROVE  /\ children' \in Seq(ChildRecord)
         /\ DOMAIN children' = DOMAIN children \cup {Len(children) + 1}
         /\ Len(children) + 1 \notin DOMAIN children
         /\ children'[Len(children) + 1] = [status |-> "running", sent |-> Talk(1)]
         /\ \A d \in DOMAIN children : children'[d] = children[d]
<1>1. [status |-> "running", sent |-> <<"initialize">>] \in ChildRecord
  BY DEF ChildRecord, Messages
<1>2. QED BY <1>1, TalkFacts, AppendProperties

LEMMA InitIInv == Init => IInv
<1> SUFFICES ASSUME Init PROVE IInv
  OBVIOUS
<1> USE DEF Init
<1>1. children \in Seq(ChildRecord) /\ DOMAIN children = {}
  OBVIOUS
<1>2. Typed
  BY <1>1 DEF Typed, NoRequest, RequestRecord, Causes, Points
<1>3. Attended /\ Located /\ Killing
  BY DEF Attended, Located, Killing, Pending, Requesting, Stopping, AtRest, Spawning, NoRequest
<1>4. NoOrphan
  BY <1>1 DEF NoOrphan
<1>5. Conversing /\ Causal
  BY <1>1 DEF Conversing, Causal, Pending, Requesting, NoRequest
<1>6. QED BY <1>2, <1>3, <1>4, <1>5 DEF IInv
-----------------------------------------------------------------------------
(* What comes from the child, and what its timers do                       *)

(* A request that waits is worked on, and what happened to it is known.     *)
LEMMA PendingFacts ==
  ASSUME IInv, Pending
  PROVE  /\ Requesting /\ ~AtRest
         /\ ~Spawning \/ pc = "initialize"
         /\ request.child = current
         /\ current \in DOMAIN children
         /\ Live(current)
         /\ cause = request.cancellation
         /\ request.outcome = "pending"
         /\ Requesting
BY DEF IInv, Pending, Attended, Located, Causal, Requesting, AtRest, Spawning

(* The supervision and the children stay as they are; the request may settle *)
(* or change, and more children may be stopped.                            *)
LEMMA RequestStep ==
  ASSUME IInv, Pending, UNCHANGED <<supervision, children>>,
         request' \in RequestRecord,
         request'.child = request.child, request'.method = request.method,
         Told2' <=> Told2,
         cause' \in {"none"} \cup Causes,
         stops' = stops \/ Stop("request", request.child),
         Causal'
  PROVE  IInv'
<1>1. Typed'
  <2>1. Typed /\ current \in Nat
    BY DEF IInv, Typed
  <2>2. stops' \subseteq StopRecord
    BY <2>1, PendingFacts DEF Typed, Stop, StopSet, StopRecord
  <2>3. QED BY <2>1, <2>2 DEF Typed, supervision
<1>2. Attended'
  BY PendingFacts DEF IInv, Attended, supervision, Stop, StopSet, Live, Pending, Requesting
<1>3. Located'
  BY PendingFacts DEF IInv, Located, supervision, Live, Pending, Requesting, AtRest, Spawning
<1>4. Killing'
  BY PendingFacts DEF IInv, Killing, supervision, Stop, StopSet, Stopping, Requesting
<1>5. NoOrphan'
  BY DEF IInv, NoOrphan, supervision, Live, Stop
<1>6. Conversing'
  BY DEF IInv, Conversing, supervision, Requesting, Spoken, Talk, Method, Turn
<1>7. QED BY <1>1, <1>2, <1>3, <1>4, <1>5, <1>6 DEF IInv

LEMMA StepAnswer ==
  ASSUME IInv, NEW result \in {"result", "invalid"}, Answer(result)
  PROVE  IInv'
<1>1. request \in RequestRecord /\ Pending /\ cause = request.cancellation
  BY PendingFacts DEF IInv, Typed, Answer
<1>2. CASE Accepts(request)
  <2>1. request' = Finished(request, result)
    BY <1>2 DEF Answer
  <2>2. /\ request' \in RequestRecord
        /\ request'.child = request.child /\ request'.method = request.method
        /\ request'.cancellation = "none" /\ request.cancellation = "none"
        /\ request'.outcome = result /\ request'.timer = "off"
    BY <1>1, <1>2, <2>1 DEF Finished, RequestRecord, Causes, Accepts
  <2>3. cause' = result
    BY <1>1, <2>2 DEF Answer, First
  <2>4. Causal'
    BY <2>2, <2>3 DEF Causal, Pending, Answer
  <2>5. QED BY <1>1, <2>2, <2>3, <2>4, RequestStep DEF Answer, Told2, Causes
<1>3. CASE ~Accepts(request)
  <2>1. request' = request /\ cause' = cause
    BY <1>1, <1>3 DEF Answer, First, Accepts, Pending
  <2>2. Causal'
    BY <2>1 DEF IInv, Causal, Pending
  <2>3. QED BY <1>1, <2>1, <2>2, RequestStep DEF Answer, Told2, IInv, Typed
<1>4. QED BY <1>2, <1>3

LEMMA StepGarble == ASSUME IInv, Garble PROVE IInv'
<1>1. request \in RequestRecord /\ Pending /\ cause = request.cancellation
  BY PendingFacts DEF IInv, Typed, Garble
<1>2. /\ request' \in RequestRecord
      /\ request'.child = request.child /\ request'.method = request.method
      /\ request'.cancellation = "protocol error" /\ request.cancellation = "none"
      /\ request'.outcome = "pending" /\ request'.timer = "off"
  BY <1>1 DEF Garble, RequestRecord, Accepts
<1>3. cause' = "protocol error"
  BY <1>1, <1>2 DEF Garble, First
<1>4. Causal'
  BY <1>2, <1>3 DEF Causal, Pending
<1>5. QED BY <1>1, <1>2, <1>3, <1>4, RequestStep DEF Garble, Told2, Causes

LEMMA StepGraceEnds == ASSUME IInv, GraceEnds PROVE IInv'
<1>1. request \in RequestRecord /\ Pending /\ cause = request.cancellation
  BY PendingFacts DEF IInv, Typed, GraceEnds
<1>2. /\ request' \in RequestRecord
      /\ request'.child = request.child /\ request'.method = request.method
      /\ request'.cancellation = request.cancellation
      /\ request'.outcome = "pending" /\ request'.timer = "off"
  BY <1>1 DEF GraceEnds, RequestRecord, Pending
<1>3. Causal'
  BY <1>1, <1>2 DEF Causal, Pending, GraceEnds
<1>4. cause' \in {"none"} \cup Causes
  BY DEF GraceEnds, IInv, Typed
<1>5. QED BY <1>1, <1>2, <1>3, <1>4, RequestStep DEF GraceEnds, Told2

LEMMA FailedRequest ==
  ASSUME IInv, Pending, request' = Failed(request), First("exited")
  PROVE  /\ request' \in RequestRecord
         /\ request'.child = request.child /\ request'.method = request.method
         /\ request'.cancellation = request.cancellation
         /\ request'.outcome \in Causes \ {"result", "invalid"}
         /\ cause' \in Causes
         /\ Causal'
<1>1. request \in RequestRecord /\ Pending /\ cause = request.cancellation
  BY PendingFacts DEF IInv, Typed
<1>2. /\ request' \in RequestRecord
      /\ request'.child = request.child /\ request'.method = request.method
      /\ request'.cancellation = request.cancellation
      /\ request'.timer = "off"
      /\ request'.outcome = IF request.cancellation = "none" THEN "exited"
                                                            ELSE request.cancellation
  BY <1>1 DEF Failed, Finished, RequestRecord, Causes
<1>3. cause' = request'.outcome
  BY <1>1, <1>2 DEF First
<1>4. request'.outcome \in Causes \ {"result", "invalid"}
  BY <1>1, <1>2 DEF RequestRecord, Causes
<1>5. Causal'
  BY <1>2, <1>3, <1>4 DEF Causal, Pending, Causes
<1>6. QED BY <1>2, <1>3, <1>4, <1>5

LEMMA StepBreakPipe == ASSUME IInv, BreakPipe PROVE IInv'
<1>1. Pending /\ request' = Failed(request) /\ First("exited")
  BY DEF BreakPipe
<1>2. QED BY <1>1, FailedRequest, RequestStep DEF BreakPipe, Told2

(* Timeout and abort: the child is told, once.                             *)
LEMMA Cancelling ==
  ASSUME IInv, Pending, request.cancellation = "none",
         NEW message \in {"timed out", "cancelled"}, Cancel(message), First(message),
         UNCHANGED <<child, pc, current, inFlight, stops, outcome, disposed>>,
         aborted' \in BOOLEAN
  PROVE  IInv'
<1>1. /\ request \in RequestRecord /\ cause = "none"
      /\ request.child = current /\ current \in DOMAIN children /\ Live(current)
      /\ Requesting /\ children \in Seq(ChildRecord)
  BY PendingFacts DEF IInv, Typed
<1>2. /\ request' \in RequestRecord
      /\ request'.child = request.child /\ request'.method = request.method
      /\ request'.cancellation = message
      /\ request'.outcome = "pending" /\ request'.timer = "grace"
  BY <1>1 DEF Cancel, RequestRecord, Pending
<1>3. cause' = message
  BY <1>1 DEF First
<1>4. /\ children' \in Seq(ChildRecord)
      /\ DOMAIN children' = DOMAIN children
      /\ \A d \in DOMAIN children : children'[d].status = children[d].status
      /\ children'[current].sent = children[current].sent \o <<"plugin/cancel">>
      /\ \A d \in DOMAIN children : d # current => children'[d] = children[d]
  <2>1. <<"plugin/cancel">> \in Seq(Messages)
    BY ConversationFacts DEF Messages
  <2>2. children' = Told(current, <<"plugin/cancel">>)
    BY <1>1 DEF Cancel
  <2>3. QED BY <1>1, <2>1, <2>2, ToldChildren
<1>5. Typed'
  BY <1>2, <1>3, <1>4 DEF IInv, Typed, Causes
<1>6. Attended'
  BY <1>1, <1>2, <1>4 DEF IInv, Attended, Live, Pending, Requesting
<1>7. Located'
  BY <1>1, <1>2, <1>4 DEF IInv, Located, Live, Pending, Requesting, AtRest, Spawning, Typed
<1>8. Killing'
  BY <1>1, <1>4 DEF IInv, Killing, Stopping, Requesting, Attended
<1>9. NoOrphan'
  BY <1>4 DEF IInv, NoOrphan, Live
<1>10. Conversing'
  <2>0. pc' = pc
    OBVIOUS
  <2>1. Turn \in 1..3 /\ Turn' = Turn
    BY <2>0, TurnFacts DEF Turn
  <2>2. children[current].sent = Talk(Turn) /\ request.method = Method(Turn)
    BY <1>1 DEF IInv, Conversing, Told2
  <2>3. children'[current].sent = Append(Talk(Turn), "plugin/cancel")
    BY <1>4, <2>1, <2>2, TalkOn
  <2>4. Spoken(children'[current].sent)
    BY <2>1, <2>3, TalkIsSpoken
  <2>5. \A d \in DOMAIN children' : Spoken(children'[d].sent)
    BY <1>4, <2>4 DEF IInv, Conversing
  <2>6. Told2' /\ ~(pc' = "idle")
    BY <1>1, <1>2 DEF Told2, Requesting
  <2>7. request'.method = Method(Turn')
    BY <1>2, <2>1, <2>2
  <2>8. children'[current'].sent = Append(Talk(Turn'), "plugin/cancel")
    BY <2>1, <2>3
  <2>9. QED BY <2>5, <2>6, <2>7, <2>8 DEF Conversing, Spoken, Talk, Method
<1>11. Causal'
  BY <1>2, <1>3 DEF Causal, Pending
<1>12. QED BY <1>5, <1>6, <1>7, <1>8, <1>9, <1>10, <1>11 DEF IInv

LEMMA StepTimeOut == ASSUME IInv, TimeOut PROVE IInv'
<1>1. request.cancellation = "none"
  BY DEF IInv, Causal, TimeOut
<1>2. aborted' \in BOOLEAN
  BY DEF IInv, Typed, TimeOut, supervision
<1>3. QED BY <1>1, <1>2, Cancelling DEF TimeOut, supervision

LEMMA StepAbort == ASSUME IInv, Abort PROVE IInv'
<1>1. CASE Pending /\ request.method = "plugin/invoke" /\ Accepts(request)
  BY <1>1, Cancelling DEF Abort, Accepts
<1>2. CASE ~(Pending /\ request.method = "plugin/invoke" /\ Accepts(request))
  <2>1. UNCHANGED <<request, children, child, pc, current, inFlight, stops, outcome, disposed>>
    BY <1>2 DEF Abort
  <2>2. cause' = cause
    BY <1>2, PendingFacts DEF Abort, First, Accepts
  <2>3. aborted' \in BOOLEAN
    BY DEF Abort
  <2>4. Typed'
    BY <2>1, <2>2, <2>3 DEF IInv, Typed
  <2>5. Attended' /\ NoOrphan' /\ Killing'
    BY <2>1 DEF IInv, Attended, NoOrphan, Killing, Live, Pending, Requesting, Stopping
  <2>6. Located'
    BY <2>1 DEF IInv, Located, Live, Pending, Requesting, AtRest, Spawning
  <2>7. Conversing'
    BY <2>1 DEF IInv, Conversing, Requesting, Spoken, Talk, Method, Turn, Told2
  <2>8. Causal'
    BY <2>1, <2>2 DEF IInv, Causal, Pending
  <2>9. QED BY <2>4, <2>5, <2>6, <2>7, <2>8 DEF IInv
<1>3. QED BY <1>1, <1>2

-----------------------------------------------------------------------------
(* Children that exit, and those that are made to                          *)

LEMMA StepExit == ASSUME IInv, NEW c \in DOMAIN children, Exit(c) PROVE IInv'
<1>1. /\ children \in Seq(ChildRecord)
      /\ children' = [children EXCEPT ![c].status = "exited"]
  BY DEF Exit, IInv, Typed
<1>2. /\ children' \in Seq(ChildRecord)
      /\ DOMAIN children' = DOMAIN children
      /\ \A d \in DOMAIN children : children'[d].sent = children[d].sent
      /\ children'[c].status = "exited"
      /\ \A d \in DOMAIN children : d # c => children'[d] = children[d]
  BY <1>1, MarkedChildren
<1>3. /\ stops' = {s \in stops : s.child # c}
      /\ UNCHANGED <<child, pc, current, inFlight, aborted, outcome, disposed>>
      /\ ~Resumed /\ Live(c)
  BY DEF Exit, supervision
<1>4. /\ request' \in RequestRecord
      /\ request'.child = request.child /\ request'.method = request.method
      /\ Told2' <=> Told2
      /\ cause' \in {"none"} \cup Causes
      /\ Pending' => Pending /\ request.child # c
      /\ Pending /\ ~Pending' => request'.outcome # "result"
      /\ ~Pending => request' = request
      /\ Causal'
  <2>1. CASE Pending /\ request.child = c
    <3>1. request' = Failed(request) /\ First("exited")
      BY <2>1 DEF Exit
    <3>2. request'.outcome # "pending" /\ request'.outcome # "result"
      BY <2>1, <3>1, FailedRequest DEF Causes
    <3>3. QED BY <2>1, <3>1, <3>2, FailedRequest DEF Told2, Pending
  <2>2. CASE ~(Pending /\ request.child = c)
    <3>1. request' = request /\ cause' = cause
      BY <2>2 DEF Exit
    <3>2. QED BY <2>2, <3>1 DEF IInv, Typed, Told2, Causal, Pending
  <2>3. QED BY <2>1, <2>2
<1>5. Typed'
  BY <1>2, <1>3, <1>4 DEF IInv, Typed
<1>6. Attended'
  <2>1. Pending' => (request.child \in DOMAIN children)' /\ Live(request.child)'
    BY <1>2, <1>3, <1>4 DEF IInv, Attended, Live
  <2>2. ~(Requesting' /\ request'.outcome = "result")
    BY <1>3, <1>4 DEF Requesting, Resumed, Pending
  <2>3. \A s \in stops' : s.child \in DOMAIN children' /\ Live(s.child)'
    BY <1>2, <1>3 DEF IInv, Attended, Live
  <2>4. QED BY <2>1, <2>2, <2>3 DEF Attended, Live
<1>7. Located'
  BY <1>2, <1>3, <1>4 DEF IInv, Typed, Located, Live, Requesting, AtRest, Spawning
<1>8. Killing'
  <2>1. \A s \in stops' : s.signal = "SIGKILL" => children'[s.child].status = "killed"
    BY <1>2, <1>3 DEF IInv, Killing, Attended
  <2>2. Stopping => current \in DOMAIN children
    BY DEF IInv, Typed, Located, AtRest, Stopping
  <2>3. Stopping => \/ children'[current].status # "running"
                    \/ \E s \in stops' : s.by = "main" /\ s.child = current
    BY <1>2, <1>3, <2>2 DEF IInv, Killing
  <2>4. QED BY <1>3, <2>1, <2>3 DEF Killing, Stopping
<1>9. NoOrphan'
  BY <1>2, <1>3 DEF IInv, NoOrphan, Live
<1>10. Conversing'
  <2>1. Requesting => current \in DOMAIN children
    BY DEF IInv, Typed, Located, AtRest, Requesting
  <2>2. \A d \in DOMAIN children' : Spoken(children'[d].sent)
    BY <1>2 DEF IInv, Conversing
  <2>3. Turn' = Turn
    BY <1>3 DEF Turn
  <2>4. child # 0 => child \in DOMAIN children
    BY DEF IInv, Typed
  <2>5. QED BY <1>2, <1>3, <1>4, <2>1, <2>2, <2>3, <2>4
             DEF IInv, Conversing, Requesting, Spoken, Talk, Method
<1>11. QED BY <1>4, <1>5, <1>6, <1>7, <1>8, <1>9, <1>10 DEF IInv

LEMMA StepStopWaited == ASSUME IInv, NEW s \in stops, StopWaited(s) PROVE IInv'
<1>1. /\ s \in StopRecord /\ s.child \in DOMAIN children /\ Live(s.child)
      /\ children \in Seq(ChildRecord) /\ stops \subseteq StopRecord
      /\ UNCHANGED <<child, pc, current, inFlight, aborted, outcome, disposed, request, cause>>
  BY DEF IInv, Typed, Attended, StopWaited, supervision
<1>2. CASE s.signal = "SIGTERM"
  <2> DEFINE k == [s EXCEPT !.signal = "SIGKILL"]
  <2>1. k \in StopRecord /\ k.by = s.by /\ k.child = s.child /\ k.signal = "SIGKILL"
    BY <1>1 DEF StopRecord
  <2>2. stops' = (stops \ {s}) \cup {k}
    BY <1>2 DEF StopWaited
  <2> HIDE DEF k
  <2>3. children' = [children EXCEPT ![s.child].status = "killed"]
    BY <1>2 DEF StopWaited
  <2>4. /\ children' \in Seq(ChildRecord)
        /\ DOMAIN children' = DOMAIN children
        /\ \A d \in DOMAIN children : children'[d].sent = children[d].sent
        /\ children'[s.child].status = "killed"
        /\ \A d \in DOMAIN children : d # s.child => children'[d] = children[d]
    BY <1>1, <2>3, MarkedChildren
  <2>5. \A d \in DOMAIN children : Live(d)' <=> Live(d)
    BY <1>1, <2>4 DEF Live
  <2>6. Typed'
    BY <1>1, <2>1, <2>2, <2>4 DEF IInv, Typed
  <2>7. Attended'
    <3>1. Pending' => (request.child \in DOMAIN children)' /\ Live(request.child)'
      BY <1>1, <2>4, <2>5 DEF IInv, Attended, Live, Pending
    <3>2. Requesting => current \in DOMAIN children
      BY DEF IInv, Typed, Located, AtRest, Requesting
    <3>3. Requesting' /\ request'.outcome = "result" => Live(current)'
      BY <1>1, <2>4, <2>5, <3>2 DEF IInv, Attended, Live, Requesting
    <3>4. \A t \in stops' : t.child \in DOMAIN children' /\ Live(t.child)'
      BY <1>1, <2>1, <2>2, <2>4, <2>5 DEF IInv, Attended, Live
    <3>5. QED BY <3>1, <3>3, <3>4 DEF Attended, Live
  <2>8. Located'
    <3>1. Spawning => child = 0 \/ ~Live(child)'
      BY <1>1, <2>4, <2>5 DEF IInv, Typed, Located, Live, Spawning
    <3>2. QED BY <1>1, <3>1 DEF IInv, Located, Live, Pending, Requesting, AtRest, Spawning
  <2>9. Killing'
    <3>1. \A t \in stops' : t.signal = "SIGKILL" => children'[t.child].status = "killed"
      BY <1>1, <2>1, <2>2, <2>4 DEF IInv, Killing, Attended
    <3>2. Stopping => current \in DOMAIN children
      BY DEF IInv, Typed, Located, AtRest, Stopping
    <3>3. Stopping => \/ children'[current].status # "running"
                      \/ \E t \in stops' : t.by = "main" /\ t.child = current
      BY <1>1, <2>1, <2>2, <2>4, <3>2 DEF IInv, Killing
    <3>4. QED BY <1>1, <3>1, <3>3 DEF Killing, Stopping
  <2>10. NoOrphan'
    <3>1. ASSUME NEW d \in DOMAIN children', Live(d)'
          PROVE  \/ d \in {child', current'}
                 \/ \E t \in stops' : t.child = d
                 \/ children'[d].status = "killed"
      BY <3>1, <1>1, <2>1, <2>2, <2>4, <2>5 DEF IInv, NoOrphan
    <3>2. QED BY <3>1 DEF NoOrphan, Live
  <2>11. Conversing'
    <3>1. Requesting => current \in DOMAIN children
      BY DEF IInv, Typed, Located, AtRest, Requesting
    <3>2. \A d \in DOMAIN children' : Spoken(children'[d].sent)
      BY <2>4 DEF IInv, Conversing
    <3>3. Turn' = Turn /\ (Told2' <=> Told2)
      BY <1>1 DEF Turn, Told2
    <3>4. child # 0 => child \in DOMAIN children
      BY DEF IInv, Typed
    <3>5. QED BY <1>1, <2>4, <3>1, <3>2, <3>3, <3>4
               DEF IInv, Conversing, Requesting, Spoken, Talk, Method
  <2>12. Causal'
    BY <1>1 DEF IInv, Causal, Pending
  <2>13. QED BY <2>6, <2>7, <2>8, <2>9, <2>10, <2>11, <2>12 DEF IInv
<1>3. CASE s.signal # "SIGTERM"
  <2>1. stops' = stops \ {s} /\ children' = children /\ children[s.child].status = "killed"
    BY <1>1, <1>3 DEF StopWaited, IInv, Killing, StopRecord
  <2>2. Typed'
    BY <1>1, <2>1 DEF IInv, Typed
  <2>3. Attended' /\ NoOrphan' /\ Killing'
    BY <1>1, <2>1 DEF IInv, Attended, NoOrphan, Killing, Live, Pending, Requesting, Stopping
  <2>4. Located'
    BY <1>1, <2>1 DEF IInv, Located, Live, Pending, Requesting, AtRest, Spawning
  <2>5. Conversing'
    BY <1>1, <2>1 DEF IInv, Conversing, Requesting, Spoken, Talk, Method, Turn, Told2
  <2>6. Causal'
    BY <1>1, <2>1 DEF IInv, Causal, Pending
  <2>7. QED BY <2>2, <2>3, <2>4, <2>5, <2>6 DEF IInv
<1>4. QED BY <1>2, <1>3

-----------------------------------------------------------------------------
(* What activate() and invoke() do                                         *)

(* A request begins: a child that has been told the conversation so far is  *)
(* told the next part of it, and from now on is the one in hand.           *)
LEMMA RequestBegins ==
  ASSUME IInv, NEW c \in DOMAIN children, Live(c),
         NEW cancelled \in BOOLEAN, NEW n \in {2, 3}, NEW method, method = Method(n),
         children[c].sent = Talk(n - 1), Request(c, method, cancelled),
         pc' = IF n = 2 THEN "invoke" ELSE "shutdown",
         current' = c, child' \in {0, c}, UNCHANGED <<stops, disposed>>,
         inFlight' \in BOOLEAN, aborted' \in BOOLEAN,
         outcome' \in {"none", "pending", "result"} \cup Errors,
         \A d \in DOMAIN children : d \in {child, current} /\ Live(d) => d = c
  PROVE  IInv'
<1>1. /\ children \in Seq(ChildRecord) /\ c \in Nat
      /\ method \in {"plugin/invoke", "plugin/shutdown"}
  BY ConversationFacts DEF IInv, Typed, Method
<1>2. /\ request' \in RequestRecord
      /\ request'.child = c /\ request'.method = method
      /\ request'.timer = IF cancelled THEN "grace" ELSE "armed"
      /\ request'.cancellation = IF cancelled THEN "cancelled" ELSE "none"
      /\ request'.outcome = "pending"
  BY <1>1 DEF Request, Started, RequestRecord
<1>3. Saying(method, cancelled) \in Seq(Messages)
      /\ Talk(n - 1) \o Saying(method, cancelled)
           = IF cancelled THEN Append(Talk(n), "plugin/cancel") ELSE Talk(n)
  <2>1. CASE n = 2
    <3>1. n - 1 = 1 /\ method = "plugin/invoke"
      BY <2>1, ConversationFacts DEF Method
    <3>2. QED BY <2>1, <3>1, TalkOn
  <2>2. CASE n = 3
    <3>1. n - 1 = 2 /\ method = "plugin/shutdown"
      BY <2>2, ConversationFacts DEF Method
    <3>2. QED BY <2>2, <3>1, TalkOn
  <2>3. QED BY <2>1, <2>2
<1>4. children' = Told(c, Saying(method, cancelled))
  BY DEF Request, Saying
<1>5. /\ children' \in Seq(ChildRecord)
      /\ DOMAIN children' = DOMAIN children
      /\ \A d \in DOMAIN children : children'[d].status = children[d].status
      /\ children'[c].sent = children[c].sent \o Saying(method, cancelled)
      /\ \A d \in DOMAIN children : d # c => children'[d] = children[d]
  BY <1>1, <1>3, <1>4, ToldChildren
<1>6. cause' = IF cancelled THEN "cancelled" ELSE "none"
  BY DEF Request
<1>7. Typed'
  BY <1>2, <1>5, <1>6 DEF IInv, Typed, Points, Causes
<1>8. Attended'
  BY <1>2, <1>5 DEF IInv, Attended, Live, Pending
<1>9. Located'
  BY <1>1, <1>2, <1>5 DEF IInv, Typed, Located, Pending, Requesting, AtRest, Spawning
<1>10. Killing'
  BY <1>5 DEF IInv, Killing, Attended, Stopping
<1>11. NoOrphan'
  BY <1>5 DEF IInv, NoOrphan, Live
<1>12. Conversing'
  <2>1. Turn' = n
    BY DEF Turn
  <2>2. n \in 1..3
    OBVIOUS
  <2>3. Told2' <=> cancelled
    BY <1>2 DEF Told2
  <2>4. children'[c].sent = IF cancelled THEN Append(Talk(n), "plugin/cancel") ELSE Talk(n)
    BY <1>3, <1>5
  <2>5. Spoken(children'[c].sent)
    BY <2>2, <2>4, TalkIsSpoken
  <2>6. \A d \in DOMAIN children' : Spoken(children'[d].sent)
    BY <1>5, <2>5 DEF IInv, Conversing
  <2>7. request'.method = Method(Turn')
    BY <1>2, <2>1
  <2>8. children'[current'].sent = IF Told2' THEN Append(Talk(Turn'), "plugin/cancel")
                                             ELSE Talk(Turn')
    BY <2>1, <2>3, <2>4
  <2>9. pc' # "idle"
    OBVIOUS
  <2>10. QED BY <2>6, <2>7, <2>8, <2>9 DEF Conversing, Spoken, Talk, Method
<1>13. Causal'
  BY <1>2, <1>6 DEF Causal, Pending
<1>14. QED BY <1>7, <1>8, <1>9, <1>10, <1>11, <1>12, <1>13 DEF IInv

(* A child is spawned when the one kept before is gone.                    *)
LEMMA SpawnBegins ==
  ASSUME IInv, pc \in {"inactive", "idle"}, child = 0 \/ ~Live(child), Spawn,
         inFlight' \in BOOLEAN, aborted' \in BOOLEAN
  PROVE  IInv'
<1> DEFINE c == Len(children) + 1
<1>1. /\ children \in Seq(ChildRecord) /\ c \in Nat \ {0}
      /\ current' = c /\ pc' = "initialize" /\ UNCHANGED <<child, stops, disposed>>
      /\ outcome' = "pending" /\ cause' = "none"
      /\ child = 0 \/ child \in DOMAIN children
      /\ current = 0
  BY DEF Spawn, IInv, Typed, Located, AtRest
<1>2. /\ children' \in Seq(ChildRecord)
      /\ DOMAIN children' = DOMAIN children \cup {c}
      /\ c \notin DOMAIN children
      /\ children'[c] = [status |-> "running", sent |-> Talk(1)]
      /\ \A d \in DOMAIN children : children'[d] = children[d]
  BY <1>1, NewChild DEF Spawn
<1> HIDE DEF c
<1>3. request' = Started(c, "initialize", FALSE)
  BY <1>1 DEF Spawn
<1>4. /\ request' \in RequestRecord
      /\ request'.child = c /\ request'.method = "initialize" /\ request'.timer = "armed"
      /\ request'.cancellation = "none" /\ request'.outcome = "pending"
  BY <1>1, <1>3 DEF Started, RequestRecord
<1>5. children'[c].status = "running" /\ children'[c].sent = Talk(1)
  BY <1>2
<1>6. Typed'
  BY <1>1, <1>2, <1>4 DEF IInv, Typed, Points, Causes
<1>7. Attended'
  BY <1>1, <1>2, <1>4, <1>5 DEF IInv, Attended, Live, Pending
<1>8. Located'
  BY <1>1, <1>2, <1>4 DEF IInv, Typed, Located, Pending, Requesting, AtRest, Spawning, Live
<1>9. Killing'
  BY <1>1, <1>2 DEF IInv, Killing, Attended, Stopping
<1>10. NoOrphan'
  BY <1>1, <1>2 DEF IInv, NoOrphan, Live
<1>11. Conversing'
  <2>1. Spoken(Talk(1)) /\ Turn' = 1 /\ ~Told2' /\ Method(1) = "initialize"
    BY <1>1, <1>4, TalkIsSpoken, ConversationFacts DEF Turn, Told2, Method
  <2>2. \A d \in DOMAIN children' : Spoken(children'[d].sent)
    BY <1>2, <1>5, <2>1 DEF IInv, Conversing
  <2>3. QED BY <1>1, <1>4, <1>5, <2>1, <2>2 DEF Conversing, Spoken, Talk, Method
<1>12. Causal'
  BY <1>1, <1>4 DEF Causal, Pending
<1>13. QED BY <1>6, <1>7, <1>8, <1>9, <1>10, <1>11, <1>12 DEF IInv

LEMMA StopIsSet ==
  ASSUME NEW by \in {"main", "request", "dispose"}, NEW c, Stop(by, c), Live(c)
  PROVE  \E s \in stops' : s.by = by /\ s.child = c
<1>1. [by |-> by, child |-> c, signal |-> "SIGTERM"] \in stops'
  BY DEF Stop, StopSet
<1>2. QED BY <1>1

(* A failed call stops its child, and waits.                               *)
LEMMA StopBegins ==
  ASSUME IInv, ~AtRest, ~Pending, Stop("main", current),
         NEW where \in {"stop-spawned", "stop-lingering", "stop-shutdown", "stop-invoked"},
         pc' = where, UNCHANGED <<children, current, inFlight, aborted, request, disposed, cause>>,
         outcome' \in {"none", "pending", "result"} \cup Errors,
         where = "stop-spawned" <=> Spawning, child' \in {child, 0},
         child' # child => child = current
  PROVE  IInv'
<1>1. current \in DOMAIN children /\ current \in Nat /\ current # 0
  BY DEF IInv, Typed, Located
<1>2. Stopping' /\ ~Requesting' /\ ~AtRest' /\ ~Pending' /\ pc' # "idle"
  BY DEF Stopping, Requesting, AtRest, Pending
<1>3. Typed'
  BY <1>1 DEF IInv, Typed, Stop, StopSet, StopRecord, Points
<1>4. Attended'
  BY <1>1, <1>2 DEF IInv, Attended, Stop, StopSet, Live
<1>5. Located'
  BY <1>1, <1>2 DEF IInv, Typed, Located, Live, AtRest, Spawning
<1>6. Killing'
  <2>1. \A s \in stops' : s.signal = "SIGKILL" => children'[s.child].status = "killed"
    BY DEF IInv, Killing, Stop, StopSet
  <2>2. Live(current) => \E s \in stops' : s.by = "main" /\ s.child = current
    BY StopIsSet
  <2>3. QED BY <1>2, <2>1, <2>2 DEF Killing, Live
<1>7. NoOrphan'
  BY DEF IInv, NoOrphan, Live, Stop
<1>8. Conversing'
  BY <1>2 DEF IInv, Conversing, Spoken, Talk
<1>9. Causal'
  BY DEF IInv, Causal, Pending
<1>10. QED BY <1>3, <1>4, <1>5, <1>6, <1>7, <1>8, <1>9 DEF IInv

(* A call ends, and leaves no child behind but the one that is kept.       *)
LEMMA CallEnds ==
  ASSUME IInv, NEW where \in {"idle", "failed"}, NEW result \in {"none", "pending", "result"} \cup Errors,
         End(where, result), child' \in {0} \cup DOMAIN children,
         where = "idle" /\ child' # 0 => children[child'].sent = Talk(1),
         \A d \in DOMAIN children :
           d \in {child, current} /\ Live(d) => d = child' \/ children[d].status = "killed"
  PROVE  IInv'
<1>1. /\ request' = NoRequest /\ pc' = where /\ current' = 0 /\ cause' = "none"
      /\ UNCHANGED <<children, stops, disposed>> /\ outcome' = result
      /\ inFlight' = FALSE /\ aborted' = FALSE
  BY DEF End
<1>2. NoRequest \in RequestRecord /\ NoRequest.outcome = "result" /\ NoRequest.timer = "off"
      /\ NoRequest.cancellation = "none"
  BY DEF NoRequest, RequestRecord, Causes
<1>3. AtRest' /\ ~Pending' /\ ~Requesting' /\ ~Spawning' /\ ~Stopping' /\ pc' # "inactive"
  BY <1>1, <1>2 DEF AtRest, Pending, Requesting, Spawning, Stopping
<1>4. Typed'
  BY <1>1, <1>2 DEF IInv, Typed, Points
<1>5. Attended' /\ Located' /\ Killing'
  BY <1>1, <1>3 DEF IInv, Attended, Located, Killing, Live
<1>6. NoOrphan'
  BY <1>1 DEF IInv, NoOrphan, Live
<1>7. Conversing'
  BY <1>1, <1>3 DEF IInv, Conversing, Spoken, Talk
<1>8. Causal'
  BY <1>1, <1>2, <1>3 DEF Causal
<1>9. QED BY <1>4, <1>5, <1>6, <1>7, <1>8 DEF IInv

LEMMA StepInvoke ==
  ASSUME IInv, NEW signal \in BOOLEAN, Invoke(signal) PROVE IInv'
<1>1. CASE child # 0 /\ Live(child)
  <2>1. /\ child \in DOMAIN children /\ current = 0 /\ children[child].sent = Talk(1)
        /\ \A d \in DOMAIN children : d # 0
    BY <1>1 DEF Invoke, IInv, Typed, Located, AtRest, Conversing
  <2>2. /\ Request(child, "plugin/invoke", signal) /\ pc' = "invoke" /\ current' = child
        /\ UNCHANGED <<child, stops, disposed>> /\ outcome' = "pending"
        /\ inFlight' \in BOOLEAN /\ aborted' \in BOOLEAN
    BY <1>1 DEF Invoke
  <2>3. Method(2) = "plugin/invoke" /\ 2 - 1 = 1
    BY ConversationFacts DEF Method
  <2>4. QED BY <1>1, <2>1, <2>2, <2>3, RequestBegins
<1>2. CASE ~(child # 0 /\ Live(child))
  BY <1>2, SpawnBegins DEF Invoke
<1>3. QED BY <1>1, <1>2

LEMMA StepActivate == ASSUME IInv, Activate PROVE IInv'
BY SpawnBegins DEF Activate, IInv, Typed, Located

LEMMA StepSpawnThrows == ASSUME IInv, SpawnThrows PROVE IInv'
<1>1. current = 0 /\ child \in {0} \cup DOMAIN children /\ \A d \in DOMAIN children : d # 0
  BY DEF SpawnThrows, IInv, Located, AtRest, Typed
<1>2. CASE pc = "inactive" /\ End("failed", "exited") /\ UNCHANGED child
  BY <1>1, <1>2, CallEnds DEF Errors
<1>3. CASE pc = "idle" /\ (child # 0 => ~Live(child)) /\ End("idle", "exited") /\ child' = 0
  BY <1>1, <1>3, CallEnds DEF Errors
<1>4. QED BY <1>2, <1>3 DEF SpawnThrows

(* A request that is worked on no more, but answered or failed.            *)
LEMMA Returned ==
  ASSUME IInv, Requesting, ~Pending
  PROVE  /\ ~AtRest /\ current \in DOMAIN children /\ current # 0
         /\ \A d \in DOMAIN children : d # 0
         /\ request.outcome = "result" =>
              Live(current) /\ children[current].sent = Talk(Turn)
         /\ Failure \in Causes \ {"result", "invalid"} \/ request.outcome = "result"
         /\ request.outcome \in Causes
         /\ request.outcome = "invalid" => request.method = "initialize"
         /\ request.method = Method(Turn)
         /\ child \in {0} \cup DOMAIN children
         /\ outcome \in {"none", "pending", "result"} \cup Errors
         /\ inFlight \in BOOLEAN /\ aborted \in BOOLEAN
<1>1. current \in DOMAIN children /\ current # 0 /\ ~AtRest
  BY DEF IInv, Typed, Located, AtRest, Requesting
<1>2. request.outcome = "result" => ~Told2
  BY DEF IInv, Causal, Told2
<1>3. request.outcome \in Causes
  BY DEF IInv, Typed, RequestRecord, Pending
<1>4. Failure \in Causes \ {"result", "invalid"} \/ request.outcome = "result"
  BY <1>3 DEF Failure, Causes
<1>5. QED BY <1>1, <1>2, <1>3, <1>4 DEF IInv, Typed, Attended, Conversing, Causal

LEMMA StepInitialized == ASSUME IInv, Initialized PROVE IInv'
<1>1. Requesting /\ ~Pending /\ Turn = 1 /\ Spawning
  BY DEF Initialized, Requesting, Turn, Spawning
<1>2. child = 0 \/ ~Live(child)
  BY <1>1 DEF IInv, Located
<1>3. CASE request.outcome = "result" /\ inFlight
  <2>1. /\ child' = current /\ Request(current, "plugin/invoke", aborted) /\ pc' = "invoke"
        /\ UNCHANGED <<current, stops, inFlight, aborted, outcome, disposed>>
    BY <1>3 DEF Initialized
  <2>2. Method(2) = "plugin/invoke" /\ 2 - 1 = 1
    BY ConversationFacts DEF Method
  <2>3. QED BY <1>1, <1>2, <1>3, <2>1, <2>2, Returned, RequestBegins
<1>4. CASE request.outcome = "result" /\ ~inFlight
  <2>1. child' = current /\ End("idle", "result")
    BY <1>4 DEF Initialized
  <2>2. QED BY <1>1, <1>2, <1>4, <2>1, Returned, CallEnds
<1>5. CASE request.outcome # "result"
  <2>1. StopThen("stop-spawned", Failure)
    BY <1>5 DEF Initialized
  <2>2. Failure \in Errors
    BY <1>1, <1>5, Returned DEF Causes, Errors
  <2>3. QED BY <1>1, <2>1, <2>2, Returned, StopBegins DEF StopThen
<1>6. QED BY <1>3, <1>4, <1>5, <1>1, Returned

LEMMA StepInvoked == ASSUME IInv, Invoked PROVE IInv'
<1>1. Requesting /\ ~Pending /\ Turn = 2 /\ ~Spawning /\ child \in {0, current}
  BY DEF Invoked, Requesting, Turn, Spawning, IInv, Located, AtRest
<1>2. CASE request.outcome = "result"
  <2>1. /\ Request(current, "plugin/shutdown", FALSE) /\ pc' = "shutdown"
        /\ UNCHANGED <<stops, child, current, inFlight, aborted, outcome, disposed>>
    BY <1>2 DEF Invoked
  <2>2. Method(3) = "plugin/shutdown" /\ 3 - 1 = 2
    BY ConversationFacts DEF Method
  <2>3. /\ current \in DOMAIN children /\ Live(current) /\ children[current].sent = Talk(2)
        /\ \A d \in DOMAIN children : d \in {child, current} => d = current
        /\ inFlight' \in BOOLEAN /\ aborted' \in BOOLEAN
        /\ outcome' \in {"none", "pending", "result"} \cup Errors
    BY <1>1, <1>2, <2>1, Returned
  <2>4. current' = current /\ child' \in {0, current}
    BY <1>1, <2>1
  <2>5. \E cancelled \in BOOLEAN : Request(current, "plugin/shutdown", cancelled)
    BY <2>1, Zenon
  <2>6. QED BY <2>1, <2>2, <2>3, <2>4, <2>5, RequestBegins
<1>3. CASE request.outcome # "result"
  <2>1. StopThen("stop-invoked", request.outcome)
    BY <1>3 DEF Invoked
  <2>2. request.outcome # "invalid"
    BY <1>1, Returned, ConversationFacts DEF Method
  <2>3. request.outcome \in Errors
    BY <1>1, <1>3, <2>2, Returned DEF Causes, Errors
  <2>4. QED BY <1>1, <2>1, <2>3, Returned, StopBegins DEF StopThen
<1>4. QED BY <1>2, <1>3

LEMMA StepShutDown == ASSUME IInv, ShutDown PROVE IInv'
<1>1. Requesting /\ ~Pending /\ Turn = 3 /\ ~Spawning /\ child \in {0, current}
  BY DEF ShutDown, Requesting, Turn, Spawning, IInv, Located, AtRest
<1>2. CASE request.outcome = "result"
  <2>1. /\ pc' = "linger"
        /\ UNCHANGED <<children, stops, request, cause, child, current, inFlight, aborted,
                       outcome, disposed>>
    BY <1>2 DEF ShutDown
  <2>2. Typed'
    BY <2>1 DEF IInv, Typed, Points
  <2>3. ~Requesting' /\ ~Stopping' /\ ~AtRest' /\ ~Spawning' /\ ~Pending'
    BY <1>1, <2>1 DEF Requesting, Stopping, AtRest, Spawning, Pending
  <2>4. Attended' /\ Killing' /\ NoOrphan'
    BY <2>1, <2>3 DEF IInv, Attended, Killing, NoOrphan, Live
  <2>5. Located'
    BY <1>1, <2>1, <2>3, Returned DEF IInv, Located, Live
  <2>6. Conversing'
    BY <2>1, <2>3 DEF IInv, Conversing, Spoken, Talk
  <2>7. Causal'
    BY <2>1 DEF IInv, Causal, Pending
  <2>8. QED BY <2>2, <2>4, <2>5, <2>6, <2>7 DEF IInv
<1>3. CASE request.outcome # "result"
  <2>1. StopThen("stop-shutdown", request.outcome)
    BY <1>3 DEF ShutDown
  <2>2. request.outcome # "invalid"
    BY <1>1, Returned, ConversationFacts DEF Method
  <2>3. request.outcome \in Errors
    BY <1>1, <1>3, <2>2, Returned DEF Causes, Errors
  <2>4. QED BY <1>1, <2>1, <2>3, Returned, StopBegins DEF StopThen
<1>4. QED BY <1>2, <1>3

LEMMA StepLingered == ASSUME IInv, Lingered PROVE IInv'
<1>1. child \in {0, current} /\ \A d \in DOMAIN children : d # 0
  BY DEF Lingered, IInv, Typed, Located, AtRest, Spawning
<1>2. End("idle", "result") /\ child' = 0 /\ ~Live(current)
  BY <1>1 DEF Lingered, WithoutCurrent
<1>3. QED BY <1>1, <1>2, CallEnds

LEMMA StepLingerEnds == ASSUME IInv, LingerEnds PROVE IInv'
<1>1. ~AtRest /\ ~Spawning /\ ~Pending
  BY DEF LingerEnds, IInv, Located, AtRest, Spawning, Requesting
<1>2. StopThen("stop-lingering", "shutdown timed out")
  BY DEF LingerEnds
<1>3. QED BY <1>1, <1>2, StopBegins DEF StopThen, Errors

LEMMA StepStopped == ASSUME IInv, Stopped PROVE IInv'
<1>1. /\ ~AtRest /\ ~Pending /\ \A d \in DOMAIN children : d # 0
      /\ outcome \in {"none", "pending", "result"} \cup Errors
      /\ children[current].status # "running"
      /\ current \in DOMAIN children
      /\ child \in {0} \cup DOMAIN children
      /\ IF Spawning THEN child = 0 \/ ~Live(child) ELSE child \in {0, current}
  BY DEF Stopped, Stopping, IInv, Typed, Located, Killing, AtRest, Spawning, Requesting
<1>2. children[current].status \in {"killed", "exited"}
  <2>1. children[current] \in ChildRecord
    BY <1>1, ElementOfSeq DEF IInv, Typed
  <2>2. QED BY <1>1, <2>1 DEF ChildRecord
<1>3. CASE pc = "stop-lingering" /\ StopThen("stop-shutdown", outcome)
  BY <1>1, <1>3, StopBegins DEF StopThen, Spawning
<1>4. CASE /\ pc = "stop-shutdown"
           /\ Stop("main", current)
           /\ pc' = "stop-invoked"
           /\ child' = WithoutCurrent
           /\ UNCHANGED <<children, outcome, current, inFlight, aborted, request, disposed, cause>>
  BY <1>1, <1>4, StopBegins DEF Spawning, WithoutCurrent
<1>5. CASE /\ pc = "stop-invoked" \/ (pc = "stop-spawned" /\ inFlight)
           /\ End("idle", outcome)
           /\ child' = 0
  BY <1>1, <1>2, <1>5, CallEnds DEF Spawning, Live
<1>6. CASE /\ pc = "stop-spawned" /\ ~inFlight
           /\ End("failed", outcome)
           /\ UNCHANGED child
  BY <1>1, <1>2, <1>6, CallEnds DEF Spawning, Live
<1>7. QED BY <1>3, <1>4, <1>5, <1>6 DEF Stopped

LEMMA StepDispose == ASSUME IInv, Dispose PROVE IInv'
<1>1. /\ UNCHANGED <<children, pc, current, inFlight, aborted, request, outcome, cause>>
      /\ child' = 0 /\ disposed' = TRUE
      /\ IF child # 0 THEN Stop("dispose", child) ELSE UNCHANGED stops
      /\ child \in {0} \cup DOMAIN children
  BY DEF Dispose, IInv, Typed
<1>2. child # 0 => child \in DOMAIN children /\ child \in Nat
  BY <1>1 DEF IInv, Typed
<1>3. stops' \subseteq StopRecord
  BY <1>1, <1>2 DEF IInv, Typed, Stop, StopSet, StopRecord
<1>4. Typed'
  BY <1>1, <1>3 DEF IInv, Typed
<1>5. Attended'
  BY <1>1, <1>2 DEF IInv, Attended, Stop, StopSet, Live, Pending, Requesting
<1>6. Located'
  BY <1>1 DEF IInv, Located, Pending, Requesting, AtRest, Spawning
<1>7. Killing'
  BY <1>1 DEF IInv, Killing, Stop, StopSet, Stopping
<1>8. NoOrphan'
  <2>1. child # 0 /\ Live(child) => \E s \in stops' : s.child = child
    BY <1>1, StopIsSet
  <2>2. stops \subseteq stops'
    BY <1>1 DEF Stop
  <2>3. QED BY <1>1, <2>1, <2>2 DEF IInv, NoOrphan, Live
<1>9. Conversing'
  BY <1>1 DEF IInv, Conversing, Requesting, Spoken, Talk, Method, Turn, Told2
<1>10. Causal'
  BY <1>1 DEF IInv, Causal, Pending
<1>11. QED BY <1>4, <1>5, <1>6, <1>7, <1>8, <1>9, <1>10 DEF IInv

LEMMA StepStutter == ASSUME IInv, UNCHANGED vars PROVE IInv'
<1>1. Typed' /\ Attended' /\ NoOrphan' /\ Killing'
  BY DEF vars, IInv, Typed, Attended, NoOrphan, Killing, Live, Pending, Requesting, Stopping
<1>2. Located'
  BY DEF vars, IInv, Located, Live, Pending, Requesting, AtRest, Spawning
<1>3. Conversing'
  BY DEF vars, IInv, Conversing, Requesting, Spoken, Talk, Method, Turn, Told2
<1>4. Causal'
  BY DEF vars, IInv, Causal, Pending
<1>5. QED BY <1>1, <1>2, <1>3, <1>4 DEF IInv

-----------------------------------------------------------------------------
(* What is always so                                                       *)

LEMMA StepIInv == IInv /\ [Next]_vars => IInv'
<1> SUFFICES ASSUME IInv, [Next]_vars PROVE IInv'
  OBVIOUS
<1>1. CASE Continue
  BY <1>1, StepInitialized, StepInvoked, StepShutDown, StepLingered, StepStopped DEF Continue
<1>2. CASE Activate \/ SpawnThrows \/ \E signal \in BOOLEAN : Invoke(signal)
  BY <1>2, StepActivate, StepSpawnThrows, StepInvoke
<1>3. CASE Abort \/ Dispose \/ \E result \in {"result", "invalid"} : Answer(result)
  BY <1>3, StepAbort, StepDispose, StepAnswer
<1>4. CASE Garble \/ TimeOut \/ GraceEnds \/ BreakPipe \/ LingerEnds
  BY <1>4, StepGarble, StepTimeOut, StepGraceEnds, StepBreakPipe, StepLingerEnds
<1>5. CASE (\E c \in DOMAIN children : Exit(c)) \/ (\E s \in stops : StopWaited(s))
  BY <1>5, StepExit, StepStopWaited
<1>6. CASE UNCHANGED vars
  BY <1>6, StepStutter
<1>7. QED BY <1>1, <1>2, <1>3, <1>4, <1>5, <1>6 DEF Next

LEMMA Inductive == Spec => []IInv
<1>1. QED BY InitIInv, StepIInv, PTL DEF Spec

(* The state is always well formed, and nothing waits for a child that is   *)
(* gone: not a request (RpcRequest.#onExit), not a stopChild (waitForExit). *)
THEOREM TypeCorrect == Spec => []TypeOK
<1>1. IInv => TypeOK
  <2> SUFFICES ASSUME IInv PROVE TypeOK
    OBVIOUS
  <2>1. \A c \in DOMAIN children : children[c] \in ChildRecord
    BY ElementOfSeq DEF IInv, Typed
  <2>2. Messages = {"plugin/cancel"} \cup ToSet(Conversation)
    <3>1. ToSet(Conversation) = {"initialize", "plugin/invoke", "plugin/shutdown"}
      <4>1. DOMAIN Conversation = 1..3
        BY DEF Conversation
      <4>2. QED BY <4>1, ConversationFacts DEF ToSet
    <3>2. QED BY <3>1 DEF Messages
  <2>3. QED BY <2>1, <2>2
             DEF IInv, Typed, Attended, TypeOK, ChildRecord, RequestRecord, Points, Requesting,
                 Stopping
<1>2. QED BY <1>1, Inductive, PTL

(* Every child that lives is kept, worked with, being stopped or has been   *)
(* sent SIGKILL, whatever fails and whenever disposal comes.               *)
THEOREM NoChildIsLost == Spec => []NoOrphan
<1>1. IInv => NoOrphan
  BY DEF IInv
<1>2. QED BY <1>1, Inductive, PTL

(* No child ever serves two invocations, nor is told anything after a       *)
(* cancellation.                                                           *)
THEOREM ChildrenServeOnce == Spec => []OneShot
<1>1. IInv => OneShot
  BY DEF IInv, Conversing, Spoken, Talk, OneShot
<1>2. QED BY <1>1, Inductive, PTL

(* A request ends with what happened to it first, in every order in which   *)
(* answers, timeouts, aborts, protocol errors and exits can come.          *)
THEOREM TheFirstCauseWins == Spec => []FirstCauseWins
<1>1. IInv => FirstCauseWins
  BY DEF IInv, Causal, FirstCauseWins
<1>2. QED BY <1>1, Inductive, PTL

=============================================================================
