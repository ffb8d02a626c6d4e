--------------------------- MODULE RuntimeSession ---------------------------
(***************************************************************************)
(* A Node runtime and the peer at the other end of its pipes: the Go CLI,   *)
(* which makes one call after the other and kills the runtime when it is    *)
(* done (apps/cli-go), or a host that writes its requests without waiting   *)
(* (apps/runtime-node/src/index.ts, server.ts and ContentLengthDecoder of   *)
(* packages/protocol).                                                     *)
(*                                                                         *)
(* A frame is what stands between two headers.  The stream may be cut       *)
(* anywhere, which matters to the decoder only in three ways: the header of *)
(* a frame is not there yet, or is there without all of the body, or the    *)
(* frame is complete.  Received bytes are counted in these halves.          *)
(***************************************************************************)
EXTENDS Naturals, Sequences, FiniteSets, FiniteSetsExt, SequencesExt

CONSTANTS
  Scripts,    (* the frames a host writes: a set of sequences             *)
  Commands    (* what the CLI is run for: a set of requests               *)

(* A frame: a request, or something else with only a kind.  The size is     *)
(* that of the answer ("long": too long for a frame) or, when it is         *)
(* "refused", that of the request itself.  "run/resume" stands for every    *)
(* method there is no handler for.                                         *)
Methods == {"initialize", "shutdown", "run/start", "inspect", "doctor", "run/resume"}
Requests == [kind : {"request"}, method : Methods, good : BOOLEAN,
             size : {"short", "long", "refused"}]
Others == [kind : {"notification", "bad header", "bad body", "bare value"}]

ASSUME SessionAssumption == Scripts \subseteq Seq(Requests \cup Others) /\ Commands \subseteq Requests

VARIABLES
  frames,        (* written to the runtime so far                         *)
  received,      (* how many halves of them its decoder has been given     *)
  decoded,       (* the frames the decoder has taken out of its buffer    *)
  taken,         (* history: how much had been received when it took each *)
  queue,         (* requests chained to `processing' and not yet handled  *)
  initialized,   (* #initialized                                          *)
  rejected,      (* `processing' is rejected                              *)
  exitCode,      (* process.exitCode                                      *)
  stream,        (* what the runtime has written                          *)
  alive,         (* the runtime process                                   *)
  peer,          (* where the peer is                                     *)
  calls,         (* the calls the CLI has yet to make                     *)
  read,          (* how many messages of the stream it has read           *)
  outcome        (* what the CLI ends with                                *)

input == <<frames, received, decoded, taken>>
server == <<queue, initialized, rejected, exitCode, stream>>
client == <<frames, peer, calls, read, outcome>>
vars == <<frames, received, decoded, taken, queue, initialized, rejected, exitCode, stream,
          alive, peer, calls, read, outcome>>

Request(method, good, size) ==
  [kind |-> "request", method |-> method, good |-> good, size |-> size]
Other(kind) == [kind |-> kind]

Handshake == Request("initialize", TRUE, "short")
Goodbye == Request("shutdown", TRUE, "short")

Init ==
  /\ received = 0 /\ decoded = 0 /\ taken = <<>>
  /\ queue = <<>> /\ initialized = FALSE /\ rejected = FALSE /\ exitCode = 0
  /\ stream = <<>>
  /\ alive = TRUE
  /\ read = 0
  /\ outcome = "none"
  /\ \/ frames \in Scripts /\ peer = "host" /\ calls = <<>>
     \/ /\ frames = <<>> /\ peer = "calling"
        /\ \E command \in Commands : calls = <<Handshake, command, Goodbye>>

-----------------------------------------------------------------------------
(* ContentLengthDecoder                                                    *)

HeaderOf(k) == 2 * k - 1
Complete(k, to) == 2 * k <= to

(* push throws at the first header that is wrong or announces too much, and *)
(* at the first complete body that is not JSON.                            *)
BreaksAt(k, to) ==
  \/ frames[k].kind = "bad header" /\ HeaderOf(k) <= to
  \/ frames[k].kind = "bad body" /\ Complete(k, to)
Breaking(to) == {k \in (decoded + 1)..Len(frames) : BreaksAt(k, to)}

(* One frame per chunk, the others are left in the buffer.                 *)
FaultDecodable(to) ==
  {k \in {decoded + 1} \cap DOMAIN frames : Complete(k, to)}

Decodable(to) == {k \in (decoded + 1)..Len(frames) : Complete(k, to)}

(* The bad body is gone from the buffer, the bad header stays.             *)
AfterBreak(k) == IF frames[k].kind = "bad header" THEN k - 1 ELSE k

-----------------------------------------------------------------------------
(* index.ts: the data handler, and the chain of requests                   *)

(* Of the decoded messages those that have a method and an id are handled;  *)
(* looking for them in one that is not an object throws.                   *)
Valued(ks) == LET bare == {k \in ks : frames[k].kind = "bare value"}
              IN {k \in ks : \A b \in bare : k < b}
Dispatched(ks) ==
  LET requests == {k \in Valued(ks) : frames[k].kind = "request"}
  IN CHOOSE q \in [1..Cardinality(requests) -> requests] :
       \A i, j \in DOMAIN q : i < j => q[i] < q[j]

Push(to) ==
  /\ alive
  /\ received < to
  /\ received' = to
  /\ IF Breaking(to) = {}
     THEN LET ks == Decodable(to)
          IN /\ decoded' = decoded + Cardinality(ks)
             /\ queue' = queue \o Dispatched(ks)
             /\ exitCode' = IF Valued(ks) = ks THEN exitCode ELSE 1
     ELSE /\ decoded' = AfterBreak(Min(Breaking(to)))
          /\ exitCode' = 1
          /\ UNCHANGED queue
  /\ taken' = [k \in 1..decoded' |-> IF k \in DOMAIN taken THEN taken[k] ELSE to]
  /\ UNCHANGED <<frames, initialized, rejected, stream, alive, peer, calls, read, outcome>>

-----------------------------------------------------------------------------
(* RuntimeServer                                                           *)

Message(k, kind) == [to |-> k, kind |-> kind]
Events == <<"phase.started", "phase.completed", "run.completed">>

(* What the request is answered.  Only the methods that work on something   *)
(* need the peer to be initialized.                                        *)
Verdict(request) ==
  CASE request.method = "initialize" -> IF request.good THEN "result" ELSE "invalid params"
    [] request.method = "shutdown" -> "result"
    [] request.method \in {"run/start", "inspect", "doctor"} ->
         IF ~initialized THEN "not initialized"
         ELSE IF request.good THEN "result" ELSE "invalid params"
    [] OTHER -> "method not found"

Messages(k) ==
  LET verdict == Verdict(frames[k])
      events == IF frames[k].method = "run/start" /\ verdict = "result" THEN Events ELSE <<>>
  IN [i \in DOMAIN events |-> Message(k, events[i])] \o <<Message(k, verdict)>>

(* write: what encodeMessage refuses to frame is not written.              *)
Overlong(k) == frames[k].size = "long" /\ Verdict(frames[k]) = "result"

(* A broken chunk ends the session too.                                     *)
FaultChained == ~rejected /\ exitCode = 0
(* Only a callback that throws ends the chain.                              *)
Chained == ~rejected

(* Requests are not chained: a later one may be done first.                *)
FaultHandle ==
  /\ alive /\ Chained
  /\ \E i \in DOMAIN queue :
       /\ queue' = RemoveAt(queue, i)
       /\ stream' = stream \o Messages(queue[i])
       /\ initialized' = (initialized \/ (/\ frames[queue[i]].method = "initialize"
                                          /\ Verdict(frames[queue[i]]) = "result"))
  /\ UNCHANGED <<input, rejected, exitCode, alive, peer, calls, read, outcome>>

(* The turn of a request, from its handler to the last write.              *)
Handle ==
  /\ alive /\ Chained /\ queue # <<>>
  /\ LET k == Head(queue)
     IN /\ IF Overlong(k)
           THEN /\ stream' = stream \o Front(Messages(k))
                /\ rejected' = TRUE /\ exitCode' = 1
           ELSE /\ stream' = stream \o Messages(k)
                /\ UNCHANGED <<rejected, exitCode>>
        /\ initialized' = (initialized \/ (/\ frames[k].method = "initialize"
                                           /\ Verdict(frames[k]) = "result"))
  /\ queue' = Tail(queue)
  /\ UNCHANGED <<input, alive, peer, calls, read, outcome>>

(* The callbacks chained to a rejected promise are never called.           *)
Skip ==
  /\ alive /\ rejected /\ queue # <<>>
  /\ queue' = Tail(queue)
  /\ UNCHANGED <<input, initialized, rejected, exitCode, stream, alive, peer, calls, read, outcome>>

-----------------------------------------------------------------------------
(* The Go client                                                           *)

End(how) == peer' = "leaving" /\ outcome' = how

(* Call up to its read: ids count the calls, as frames do here.            *)
Call ==
  /\ peer = "calling"
  /\ calls' = Tail(calls)
  /\ IF Head(calls).size = "refused" \/ ~alive
     THEN End("not written") /\ UNCHANGED frames
     ELSE /\ frames' = Append(frames, Head(calls))
          /\ peer' = "waiting"
          /\ UNCHANGED outcome
  /\ UNCHANGED <<received, decoded, taken, server, alive, read>>

Answers(message) == message.to = Len(frames)
IsEvent(message) == Contains(Events, message.kind)

Read ==
  /\ peer = "waiting" /\ read < Len(stream)
  /\ read' = read + 1
  /\ LET message == stream[read + 1]
     IN CASE IsEvent(message) -> UNCHANGED <<peer, outcome>>
          [] ~IsEvent(message) /\ ~Answers(message) -> End("unexpected id")
          [] ~IsEvent(message) /\ Answers(message) /\ message.kind # "result" -> End("refused")
          [] OTHER -> IF calls = <<>> THEN End("ok")
                      ELSE peer' = "calling" /\ UNCHANGED outcome
  /\ UNCHANGED <<input, server, alive, calls>>

(* End of file, or a message cut short; or Call sees that its context is    *)
(* done.  A notification `run/cancel' finds nobody.                        *)
Lose ==
  /\ peer = "waiting" /\ ~alive
  /\ End("lost")
  /\ UNCHANGED <<input, server, alive, calls, read>>

(* The runtime dies, or the user interrupts and exec.CommandContext kills   *)
(* it.  What it had not yet handed to the pipe is gone.                     *)
Die ==
  /\ alive /\ peer \in {"calling", "waiting"}
  /\ alive' = FALSE
  /\ \E n \in read..Len(stream) : stream' = SubSeq(stream, 1, n)
  /\ queue' = <<>>
  /\ UNCHANGED <<input, initialized, rejected, exitCode, peer, calls, read, outcome>>

(* The deferred close, kill and wait.                                      *)
Leave ==
  /\ peer = "leaving"
  /\ peer' = "left"
  /\ alive' = FALSE
  /\ queue' = <<>>
  /\ UNCHANGED <<input, initialized, rejected, exitCode, stream, calls, read, outcome>>

-----------------------------------------------------------------------------
Deliver == \E to \in 1..(2 * Len(frames)) : Push(to)
Client == Call \/ Read \/ Lose \/ Leave

Next == Deliver \/ Handle \/ Skip \/ Client \/ Die

(* The pipe delivers, promises are continued, and the client runs on.  A    *)
(* peer never has to write, and the runtime never has to die.               *)
Fairness == WF_vars(Deliver) /\ WF_vars(Handle) /\ WF_vars(Skip) /\ WF_vars(Client)

Spec == Init /\ [][Next]_vars /\ Fairness

-----------------------------------------------------------------------------
(* Properties                                                              *)

IsRequest(k) == frames[k].kind = "request"
AnswersTo(k) == {i \in DOMAIN stream : stream[i].to = k /\ ~IsEvent(stream[i])}
Answered(k) == AnswersTo(k) # {}
Broken(k) == frames[k].kind \in {"bad header", "bad body", "bare value"}

(* Not given to the server: what push throws away with the chunk it was to  *)
(* take the frame from, and what is behind a bare value in such a chunk.    *)
Lost(k) ==
  \/ \E j \in 1..decoded : /\ taken[j] = taken[k]
                           /\ \/ frames[j].kind = "bad body"
                              \/ frames[j].kind = "bare value" /\ j < k
  \/ \E j \in DOMAIN frames : frames[j].kind = "bad header" /\ HeaderOf(j) <= taken[k]

(* What a request is answered depends only on the requests ahead of it that *)
(* are answered, never on how the stream was cut or what else is waiting:   *)
(* it is `not initialized' until one of them was a good initialize.         *)
InitializedAt(i) ==
  \E j \in 1..(i - 1) : /\ frames[stream[j].to].method = "initialize"
                        /\ stream[j].kind = "result"
Gated(i) == frames[stream[i].to].method \in {"run/start", "inspect", "doctor"}

(* The runtime writes the answers in the order of the requests, one each,   *)
(* with the Events of a run just before its own.  It skips none but those   *)
(* that were lost with their own chunk, whatever is wrong in others, and    *)
(* behind a header that is not one it answers nothing.  So the client,      *)
(* which trusts the order, never meets an answer that is not its own        *)
(* (push, handle, Call).                                                   *)
AnswersFollowTheStream ==
  /\ \A i \in DOMAIN stream :
       /\ IsRequest(stream[i].to) /\ Complete(stream[i].to, received)
       /\ \A j \in 1..(i - 1) : \/ stream[j].to < stream[i].to
                                \/ stream[j].to = stream[i].to /\ IsEvent(stream[j])
       /\ Gated(i) => (stream[i].kind = "not initialized" <=> ~InitializedAt(i))
       /\ stream[i].kind = "result" /\ frames[stream[i].to].method = "run/start"
            => {stream[j].kind : j \in {j \in 1..(i - 1) : stream[j].to = stream[i].to}}
               = ToSet(Events)
       /\ \A k \in 1..(stream[i].to - 1) :
            /\ frames[k].kind # "bad header"
            /\ IsRequest(k) /\ ~Lost(k) => Answered(k)
  /\ exitCode = 1 => \E k \in DOMAIN frames : Broken(k) \/ (IsRequest(k) /\ frames[k].size = "long")
  /\ outcome # "unexpected id"
  /\ outcome = "ok" => \A k \in 1..3 : \E i \in AnswersTo(k) : stream[i].kind = "result"

(* Why a request that has arrived may wait for ever: it was lost with its   *)
(* chunk, it is behind a header that is none, it is in the buffer behind a  *)
(* body that is none and nothing more arrives, or an answer too long ended  *)
(* the chain, its own or one ahead of it.                                   *)
Excused(k) ==
  \/ k <= decoded /\ Lost(k)
  \/ \E j \in 1..k : frames[j].kind = "bad header"
  \/ /\ 0 < decoded /\ decoded < k
     /\ frames[decoded].kind = "bad body" /\ taken[decoded] = received
  \/ rejected /\ \E j \in 1..k : IsRequest(j) /\ frames[j].size = "long" /\ ~Answered(j)
Waiting(k) ==
  /\ k \in DOMAIN frames /\ IsRequest(k) /\ Complete(k, received)
  /\ alive /\ ~Answered(k) /\ ~Excused(k)

(* No other request that has arrived waits for ever, also when a later      *)
(* chunk is broken or a later answer too long, unless the runtime is gone.  *)
(* The CLI ends, unless its own answer was too long: then it waits until it *)
(* is interrupted (push, handle, Call).                                     *)
EveryRequestAnswered ==
  /\ \A k \in 1..3 : Waiting(k) ~> ~Waiting(k)
  /\ <>(peer \in {"host", "left"} \/ rejected)

=============================================================================
