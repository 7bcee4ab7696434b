------------------------- MODULE JsonRpcTransport -------------------------
(***************************************************************************)
(* packages/transport-jsonrpc-stdio/src/index.ts: the bounded, two-way     *)
(* JSON-RPC connection over a pair of streams that the Codex, Hermes, DSH  *)
(* and ACP adapters talk through.                                          *)
(*                                                                         *)
(* The class runs on one event loop.  A synchronous callback (a line of a  *)
(* data event, a timer, an abort listener, a host call up to its first     *)
(* await) is one action; a continuation that a settled promise schedules   *)
(* is an action of its own, so that everything that may run in between is  *)
(* interleaved.  An entry of the promise chain writeTail is an element of  *)
(* writeQueue, and pendingWrites of the code is Len(writeQueue).           *)
(*                                                                         *)
(* Abstracted: the content of methods, params and results; the bytes of a  *)
(* frame; error wording.  Every stream or protocol failure that ends in    *)
(* fail() is one action, whatever its error code.                          *)
(***************************************************************************)
EXTENDS Naturals, Sequences, FiniteSets

CONSTANTS
  Calls,              \* calls of request() or requestAfterInbound()
  Notices,            \* calls of notify()
  Closers,            \* calls of close()
  InboundIds,         \* keys of the identifiers the peer gives its requests
  MaxRequestId,       \* Number.MAX_SAFE_INTEGER, after which identifiers wrap
  MaxPendingRequests, MaxPendingWrites, MaxPendingInboundRequests,
  MaxBufferedMessages,
  MaxInbound,         \* bound: messages the peer sends
  NoCall, NoId        \* not a call, not an identifier

LimitsAssumption ==
  /\ MaxRequestId \in Nat \ {0}
  /\ MaxPendingRequests \in Nat \ {0}
  /\ MaxPendingWrites \in Nat \ {0}
  /\ MaxPendingInboundRequests \in Nat \ {0}
  /\ MaxBufferedMessages \in Nat \ {0}
  /\ MaxInbound \in Nat

NullAssumption ==
  /\ NoCall \notin Calls
  /\ NoId \notin InboundIds

ASSUME LimitsAssumption
ASSUME NullAssumption

VARIABLES
  open,               \* the field open
  calls,              \* per call: its promise, identifier and PendingRequest
  pendingRequests,    \* identifier -> the call it belongs to, or NoCall
  nextRequestId,
  writeQueue,         \* frames of writeTail that have not settled
  writing,            \* what the head of writeQueue is doing
  refused,            \* calls whose enqueueWrite was refused at once
  refusedResponses,   \* the same for respond(), by inbound identifier
  notices,            \* per notify() call: its promise
  inboundQueue,       \* InboundQueue.values
  inboundSequence,
  acknowledged,       \* inboundAcknowledgedSequence
  consumer,           \* the sole incoming() iterator
  pendingInbound, responding, abandoning,   \* the three ...RequestIds sets
  cleanup,            \* cleanupPromise
  closers             \* per close() call: its promise

(* History, read by properties and by no guard of the code's side. *)
VARIABLES
  written,            \* calls whose frame was handed to the stream
  received,           \* per inbound id: requests taken in
  answered            \* per inbound id: response frames handed to the stream

reqVars   == <<calls, pendingRequests, nextRequestId, refused>>
writeVars == <<writeQueue, writing, notices, written, answered>>
inVars    == <<inboundQueue, inboundSequence, acknowledged, consumer>>
idVars    == <<pendingInbound, responding, abandoning, refusedResponses, received>>
endVars   == <<open, cleanup, closers>>
vars      == <<reqVars, writeVars, inVars, idVars, endVars>>

RequestIds == 1..MaxRequestId

(* How a request() promise stands; every value but idle and pending is     *)
(* final: a validated response, a rejection before anything was sent, the  *)
(* local timer, the local AbortSignal, a refused or failed write, or the   *)
(* end of the connection.                                                  *)
Outcomes == {"idle", "pending", "response", "rejected", "request_timeout",
             "request_aborted", "write_failed", "terminated"}

(* PendingRequest with the call's own promise.  barrier is the fate of the *)
(* waiter of waitForInbound: "waiting" while it is in inboundBarrierWaiters*)
(* and "released" once its continuation settleResponse is scheduled.       *)
CallRecord ==
  [outcome: Outcomes, id: 0..MaxRequestId, afterInbound: BOOLEAN,
   writeStarted: BOOLEAN, responseReceived: BOOLEAN,
   barrier: {"none", "waiting", "released"}, target: 0..MaxInbound,
   answeredBy: Calls \cup {NoCall}]

Frames == [kind: {"request"}, of: Calls] \cup [kind: {"notification"}, of: Notices]
            \cup [kind: {"response"}, of: InboundIds]

Message == [sequence: 1..MaxInbound, id: InboundIds \cup {NoId}]

(* next() has not been called / is awaiting a value / the host holds the   *)
(* yielded message `held` / the iterator ended.                            *)
ConsumerState == [state: {"idle", "waiting", "yielded", "ended"},
                  held: 0..MaxInbound]

Init ==
  /\ open = TRUE
  /\ calls = [c \in Calls |->
                [outcome |-> "idle", id |-> 0, afterInbound |-> FALSE,
                 writeStarted |-> FALSE, responseReceived |-> FALSE,
                 barrier |-> "none", target |-> 0, answeredBy |-> NoCall]]
  /\ pendingRequests = [i \in RequestIds |-> NoCall]
  /\ nextRequestId = 1
  /\ writeQueue = <<>> /\ writing = "idle" /\ refused = {}
  /\ notices = [n \in Notices |-> "idle"]
  /\ inboundQueue = <<>> /\ inboundSequence = 0 /\ acknowledged = 0
  /\ consumer = [state |-> "idle", held |-> 0]
  /\ pendingInbound = {} /\ responding = {} /\ abandoning = {}
  /\ refusedResponses = {}
  /\ cleanup = "none"
  /\ closers = [x \in Closers |-> "idle"]
  /\ written = {}
  /\ received = [k \in InboundIds |-> 0]
  /\ answered = [k \in InboundIds |-> 0]

----------------------------------------------------------------------------
(* Settling a request, and ending the connection. *)

Pending(c) == calls[c].outcome = "pending"

PendingCount == Cardinality({i \in RequestIds : pendingRequests[i] # NoCall})

(* A call that settlePending ends: a waiter it had is resolved, so that    *)
(* the continuation of its barrier still runs.                             *)
Settled(c, outcome) ==
  [calls EXCEPT ![c].outcome = outcome,
                ![c].barrier = IF @ = "waiting" THEN "released" ELSE @]

(* settlePending(id, reject): whatever call holds the identifier now. *)
SettlePending(id, outcome) ==
  LET c == pendingRequests[id] IN
    IF c = NoCall
    THEN UNCHANGED <<calls, pendingRequests>>
    ELSE /\ calls' = Settled(c, outcome)
         /\ pendingRequests' = [pendingRequests EXCEPT ![id] = NoCall]

(* Mutant: the active write is not rejected. *)
TerminateLeavesActiveWrite ==
  /\ open' = FALSE
  /\ calls' = [c \in Calls |->
                 IF Pending(c)
                 THEN [calls[c] EXCEPT !.outcome = "terminated", !.barrier = "none"]
                 ELSE calls[c]]
  /\ pendingRequests' = [i \in RequestIds |-> NoCall]
  /\ pendingInbound' = {} /\ responding' = {} /\ abandoning' = {}
  /\ UNCHANGED writing
  /\ inboundQueue' = <<>>
  /\ cleanup' = IF cleanup = "none" THEN "running" ELSE cleanup

(* terminate(), after the step's own effects on the inbound sequence.  The *)
(* active write is rejected, its bookkeeping runs as a continuation; the   *)
(* frames queued behind it are rejected by assertOpen when their turn      *)
(* comes.                                                                  *)
Terminate ==
  /\ open' = FALSE
  /\ calls' = [c \in Calls |->
                 IF Pending(c)
                 THEN [calls[c] EXCEPT !.outcome = "terminated", !.barrier = "none"]
                 ELSE calls[c]]
  /\ pendingRequests' = [i \in RequestIds |-> NoCall]
  /\ pendingInbound' = {} /\ responding' = {} /\ abandoning' = {}
  /\ writing' = IF writing = "active" THEN "rejected" ELSE writing
  /\ inboundQueue' = <<>>
  /\ cleanup' = IF cleanup = "none" THEN "running" ELSE cleanup

(* A waiting next() is completed or rejected when the queue closes. *)
EndWaitingConsumer ==
  consumer' = IF consumer.state = "waiting"
              THEN [state |-> "ended", held |-> 0] ELSE consumer

----------------------------------------------------------------------------
(* Outbound requests. *)

(* The k-th identifier after nextRequestId, wrapping after MaxRequestId. *)
NthId(k) == IF nextRequestId + k <= MaxRequestId
            THEN nextRequestId + k ELSE nextRequestId + k - MaxRequestId

FreeId(i) == pendingRequests[i] = NoCall

(* Mutant: the next identifier is taken though a request still has it. *)
AllocateTaken(id) == id = NthId(0) /\ nextRequestId' = IF id = MaxRequestId THEN 1 ELSE id + 1

AllocateRequestId(id) ==
  \E k \in 0..(MaxRequestId - 1) :
    /\ id = NthId(k)
    /\ FreeId(id)
    /\ \A j \in 0..(k - 1) : ~FreeId(NthId(j))
    /\ nextRequestId' = IF id = MaxRequestId THEN 1 ELSE id + 1

WriteCapacity == Len(writeQueue) < MaxPendingWrites

(* requestInternal, when every synchronous check passes. *)
Request(c, afterInbound) ==
  /\ calls[c].outcome = "idle"
  /\ open
  /\ PendingCount < MaxPendingRequests
  /\ \E id \in RequestIds :
       /\ AllocateRequestId(id)
       /\ pendingRequests' = [pendingRequests EXCEPT ![id] = c]
       /\ calls' = [calls EXCEPT ![c].outcome = "pending", ![c].id = id,
                                 ![c].afterInbound = afterInbound]
  /\ IF WriteCapacity
     THEN /\ writeQueue' = Append(writeQueue, [kind |-> "request", of |-> c])
          /\ UNCHANGED refused
     ELSE refused' = refused \cup {c} /\ UNCHANGED writeQueue
  /\ UNCHANGED <<writing, notices, written, answered, inVars, idVars, endVars>>

(* requestInternal throws before it stores anything: closed, an illegal    *)
(* argument, an aborted signal, limit reached, no identifier left; or, once *)
(* it has an identifier, a frame that cannot be encoded.                   *)
RequestRejected(c) ==
  /\ calls[c].outcome = "idle"
  /\ calls' = [calls EXCEPT ![c].outcome = "rejected"]
  /\ \/ UNCHANGED nextRequestId
     \/ /\ open
        /\ PendingCount < MaxPendingRequests
        /\ \E id \in RequestIds : AllocateRequestId(id)
  /\ UNCHANGED <<pendingRequests, refused, writeVars, inVars, idVars, endVars>>

(* The catch of a refused enqueueWrite. *)
RefusedWrite(c) ==
  /\ c \in refused
  /\ refused' = refused \ {c}
  /\ SettlePending(calls[c].id, "write_failed")
  /\ UNCHANGED <<nextRequestId, writeVars, inVars, idVars, endVars>>

(* Mutant: the local end rejects the promise but keeps its entry. *)
LocalEndKeepsEntry(c, outcome) ==
  /\ Pending(c)
  /\ calls' = Settled(c, outcome)
  /\ UNCHANGED <<pendingRequests, nextRequestId, refused, writeVars, inVars, idVars,
                 endVars>>

(* The timer or the AbortSignal of a request still pending. *)
LocalEnd(c, outcome) ==
  /\ Pending(c)
  /\ SettlePending(calls[c].id, outcome)
  /\ UNCHANGED <<nextRequestId, refused, writeVars, inVars, idVars, endVars>>

(* Mutant: the timer is cleared as soon as a response is received. *)
TimeoutUntilResponse(c) ==
  ~calls[c].responseReceived /\ LocalEnd(c, "request_timeout")

RequestTimeout(c) == LocalEnd(c, "request_timeout")
RequestAborted(c) == LocalEnd(c, "request_aborted")

----------------------------------------------------------------------------
(* Outbound notifications and responses. *)

(* notify(): closed and full are rejected at once. *)
Notify(n) ==
  /\ notices[n] = "idle"
  /\ IF open /\ WriteCapacity
     THEN /\ writeQueue' = Append(writeQueue, [kind |-> "notification", of |-> n])
          /\ notices' = [notices EXCEPT ![n] = "pending"]
     ELSE /\ notices' = [notices EXCEPT ![n] = "failed"]
          /\ UNCHANGED writeQueue
  /\ UNCHANGED <<writing, written, answered, reqVars, inVars, idVars, endVars>>

(* Mutant: respond() does not look at respondingInboundRequestIds. *)
RespondAgain(k) ==
  /\ open
  /\ k \in pendingInbound
  /\ WriteCapacity
  /\ responding' = responding \cup {k}
  /\ writeQueue' = Append(writeQueue, [kind |-> "response", of |-> k])
  /\ UNCHANGED <<writing, notices, written, answered, pendingInbound, abandoning,
                 refusedResponses, received, reqVars, inVars, endVars>>

(* respond() and respondError(), past the checks. *)
Respond(k) ==
  /\ open
  /\ k \in pendingInbound \ responding
  /\ responding' = responding \cup {k}
  /\ IF WriteCapacity
     THEN /\ writeQueue' = Append(writeQueue, [kind |-> "response", of |-> k])
          /\ UNCHANGED refusedResponses
     ELSE refusedResponses' = refusedResponses \cup {k} /\ UNCHANGED writeQueue
  /\ UNCHANGED <<writing, notices, written, answered, pendingInbound, abandoning,
                 received, reqVars, inVars, endVars>>

(* abandonInboundRequest() of an identifier that is pending. *)
AbandonInboundRequest(k) ==
  /\ k \in pendingInbound
  /\ IF k \in responding
     THEN abandoning' = abandoning \cup {k} /\ UNCHANGED pendingInbound
     ELSE pendingInbound' = pendingInbound \ {k} /\ UNCHANGED abandoning
  /\ UNCHANGED <<responding, refusedResponses, received, reqVars, writeVars, inVars,
                 endVars>>

----------------------------------------------------------------------------
(* The serialized writer. *)

Head1 == Head(writeQueue)

(* Both settlements of a respond() promise. *)
ResponseWriteSettles(k, sent) ==
  /\ responding' = responding \ {k}
  /\ abandoning' = abandoning \ {k}
  /\ pendingInbound' = IF sent \/ k \in abandoning
                       THEN pendingInbound \ {k} ELSE pendingInbound

(* The continuation of a respond() whose enqueueWrite was refused. *)
RefusedResponse(k) ==
  /\ k \in refusedResponses
  /\ refusedResponses' = refusedResponses \ {k}
  /\ ResponseWriteSettles(k, FALSE)
  /\ UNCHANGED <<received, reqVars, writeVars, inVars, endVars>>

(* The head's promise settles: pendingWrites drops and the continuation of *)
(* the operation that queued the frame runs.                               *)
FrameSettles(sent) ==
  /\ writeQueue' = Tail(writeQueue)
  /\ writing' = "idle"
  /\ IF Head1.kind = "request" /\ ~sent
     THEN SettlePending(calls[Head1.of].id, "write_failed")
     ELSE UNCHANGED <<calls, pendingRequests>>
  /\ notices' = IF Head1.kind = "notification"
                THEN [notices EXCEPT ![Head1.of] = IF sent THEN "sent" ELSE "failed"]
                ELSE notices
  /\ IF Head1.kind = "response"
     THEN ResponseWriteSettles(Head1.of, sent)
     ELSE UNCHANGED <<pendingInbound, responding, abandoning>>
  /\ UNCHANGED <<nextRequestId, refused, written, answered, inVars,
                 refusedResponses, received, endVars>>

(* Mutant: a queued frame is written whatever became of its request. *)
AlwaysWrite(frame) == frame.kind \in {"request", "notification", "response"}

(* shouldWrite of a request frame: startPendingWrite finds its identifier. *)
ShouldWrite(frame) ==
  frame.kind = "request" => ~FreeId(calls[frame.of].id)

(* The operation at the head starts: writeFrame hands it to the stream. *)
StartWrite ==
  /\ writeQueue # <<>> /\ writing = "idle"
  /\ open /\ ShouldWrite(Head1)
  /\ writing' = "active"
  /\ IF Head1.kind = "request"
     THEN /\ calls' = [calls EXCEPT
                         ![pendingRequests[calls[Head1.of].id]].writeStarted = TRUE]
          /\ written' = written \cup {Head1.of}
     ELSE UNCHANGED <<calls, written>>
  /\ answered' = IF Head1.kind = "response"
                 THEN [answered EXCEPT ![Head1.of] = @ + 1] ELSE answered
  /\ UNCHANGED <<pendingRequests, nextRequestId, refused, writeQueue, notices,
                 inVars, idVars, endVars>>

(* The head's request settled before its turn: the frame is not sent. *)
SkipWrite ==
  /\ writeQueue # <<>> /\ writing = "idle"
  /\ open /\ ~ShouldWrite(Head1)
  /\ FrameSettles(TRUE)

(* assertOpen rejects the head, or terminate() rejected the active write. *)
RejectWrite ==
  /\ writeQueue # <<>>
  /\ \/ writing = "idle" /\ ~open
     \/ writing = "rejected"
  /\ FrameSettles(FALSE)

(* The stream calls the write callback without an error. *)
WriteFlushed ==
  /\ writing = "active"
  /\ FrameSettles(TRUE)

----------------------------------------------------------------------------
(* Inbound messages and the iterator. *)

(* Mutant: a message handed to the waiter is buffered as well. *)
PushTwice(m) ==
  /\ inboundQueue' = Append(inboundQueue, m)
  /\ consumer' = IF consumer.state = "waiting"
                 THEN [state |-> "yielded", held |-> m.sequence] ELSE consumer

(* InboundQueue.push of message m: to the waiting reader, or appended. *)
PushInbound(m) ==
  IF consumer.state = "waiting"
  THEN consumer' = [state |-> "yielded", held |-> m.sequence] /\ UNCHANGED inboundQueue
  ELSE inboundQueue' = Append(inboundQueue, m) /\ UNCHANGED consumer

QueueAccepts == consumer.state = "waiting" \/ Len(inboundQueue) < MaxBufferedMessages

(* The peer may send another message (bound), and the data handler is on.  *)
CanReceive == open /\ inboundSequence < MaxInbound

AcceptableRequest(k) ==
  /\ k \notin pendingInbound
  /\ Cardinality(pendingInbound) < MaxPendingInboundRequests

(* consumeMethodEnvelope and enqueueInbound: a notification (k = NoId) or  *)
(* a request with identifier k that is taken in.                           *)
ReceiveMessage(k) ==
  /\ CanReceive
  /\ k # NoId => AcceptableRequest(k)
  /\ QueueAccepts
  /\ inboundSequence' = inboundSequence + 1
  /\ PushInbound([sequence |-> inboundSequence + 1, id |-> k])
  /\ IF k = NoId
     THEN UNCHANGED <<pendingInbound, received>>
     ELSE /\ pendingInbound' = pendingInbound \cup {k}
          /\ received' = [received EXCEPT ![k] = @ + 1]
  /\ UNCHANGED <<acknowledged, responding, abandoning, refusedResponses, reqVars,
                 writeVars, endVars>>

(* An inbound message the transport cannot hold fails the connection: a    *)
(* request that is not acceptable is refused before it is counted, a full  *)
(* queue is found after.                                                   *)
ReceiveOverLimit(k) ==
  /\ CanReceive
  /\ \/ /\ k # NoId /\ ~AcceptableRequest(k)
        /\ UNCHANGED inboundSequence
     \/ /\ k # NoId => AcceptableRequest(k)
        /\ ~QueueAccepts
        /\ inboundSequence' = inboundSequence + 1
  /\ Terminate
  /\ EndWaitingConsumer
  /\ UNCHANGED <<nextRequestId, refused, writeQueue, notices, written, answered,
                 acknowledged, refusedResponses, received, closers>>

(* Mutant: the barrier of the next message is released too. *)
AcknowledgeOneAhead ==
  IF consumer.state = "yielded"
  THEN /\ acknowledged' = consumer.held
       /\ calls' = [c \in Calls |->
            IF calls[c].barrier = "waiting" /\ calls[c].target <= consumer.held + 1
            THEN [calls[c] EXCEPT !.barrier = "released"] ELSE calls[c]]
  ELSE UNCHANGED <<acknowledged, calls>>

(* next() of the iterator.  Resuming the generator acknowledges the        *)
(* message the host held and releases the barriers at or below it.         *)
Acknowledge ==
  LET held == consumer.held IN
    IF consumer.state = "yielded"
    THEN /\ acknowledged' = held
         /\ calls' = [c \in Calls |->
              IF calls[c].barrier = "waiting" /\ calls[c].target <= held
              THEN [calls[c] EXCEPT !.barrier = "released"] ELSE calls[c]]
    ELSE UNCHANGED <<acknowledged, calls>>

ConsumerNext ==
  /\ consumer.state \in {"idle", "yielded"}
  /\ Acknowledge
  /\ IF inboundQueue # <<>>
     THEN /\ consumer' = [state |-> "yielded", held |-> Head(inboundQueue).sequence]
          /\ inboundQueue' = Tail(inboundQueue)
     ELSE /\ consumer' = [state |-> IF open THEN "waiting" ELSE "ended", held |-> 0]
          /\ UNCHANGED inboundQueue
  /\ UNCHANGED <<pendingRequests, nextRequestId, refused, inboundSequence, writeVars,
                 idVars, endVars>>

(* return() or throw() of the iterator: it closes the connection and ends  *)
(* without acknowledging what the host held.                               *)
ConsumerReturn ==
  /\ consumer.state # "ended"
  /\ consumer' = [state |-> "ended", held |-> 0]
  /\ IF open THEN Terminate
     ELSE UNCHANGED <<open, calls, pendingRequests, pendingInbound, responding,
                      abandoning, writing, inboundQueue, cleanup>>
  /\ UNCHANGED <<nextRequestId, refused, writeQueue, notices, written, answered,
                 inboundSequence, acknowledged, refusedResponses, received, closers>>

----------------------------------------------------------------------------
(* Responses from the peer. *)

(* Mutant: a response matches before the frame of its request was written. *)
MatchesUnwritten(id) ==
  LET c == pendingRequests[id] IN c # NoCall /\ ~calls[c].responseReceived

Matches(id) ==
  LET c == pendingRequests[id] IN
    /\ c # NoCall
    /\ calls[c].writeStarted
    /\ ~calls[c].responseReceived

(* What the peer may send: an answer to a frame `by` it got, once, late or *)
(* again, or one out of nothing (NoCall) for an identifier it never got.   *)
PeerAnswers(id, by) ==
  IF by = NoCall THEN \A c \in written : calls[c].id # id
  ELSE by \in written /\ calls[by].id = id

(* consumeResponseEnvelope of a response that matches.  A request without  *)
(* a barrier settles at once, one whose barrier is already passed has its  *)
(* continuation scheduled.                                                 *)
ReceiveResponse(id, by) ==
  /\ open
  /\ PeerAnswers(id, by)
  /\ Matches(id)
  /\ LET c == pendingRequests[id] IN
       /\ IF calls[c].afterInbound
          THEN /\ calls' = [calls EXCEPT
                    ![c].responseReceived = TRUE,
                    ![c].answeredBy = by,
                    ![c].target = inboundSequence,
                    ![c].barrier = IF inboundSequence <= acknowledged
                                   THEN "released" ELSE "waiting"]
               /\ UNCHANGED pendingRequests
          ELSE /\ calls' = [Settled(c, "response") EXCEPT
                    ![c].responseReceived = TRUE, ![c].answeredBy = by]
               /\ pendingRequests' = [pendingRequests EXCEPT ![id] = NoCall]
  /\ UNCHANGED <<nextRequestId, refused, writeVars, inVars, idVars, endVars>>

(* Any other response is a diagnostic: late, repeated or of an identifier  *)
(* that was never sent.                                                    *)
UnmatchedResponse(id) ==
  /\ open
  /\ ~Matches(id)
  /\ UNCHANGED vars

(* settleResponse, the continuation of a barrier that was released: it     *)
(* settles what holds the identifier, which is nothing when the request    *)
(* ended before, unless the identifier was given away meanwhile.           *)
BarrierPassed(c) ==
  /\ calls[c].barrier = "released"
  /\ LET id == calls[c].id
         d == pendingRequests[id]
     IN IF d = NoCall
        THEN calls' = [calls EXCEPT ![c].barrier = "none"] /\ UNCHANGED pendingRequests
        ELSE /\ calls' = [Settled(d, "response") EXCEPT
                            ![d].answeredBy = calls[c].answeredBy, ![c].barrier = "none"]
             /\ pendingRequests' = [pendingRequests EXCEPT ![id] = NoCall]
  /\ UNCHANGED <<nextRequestId, refused, writeVars, inVars, idVars, endVars>>

----------------------------------------------------------------------------
(* The end of the connection. *)

(* fail(): end or error of a stream, a failed or throwing write, a frame   *)
(* that is too large, not UTF-8, not JSON or not an envelope.              *)
Fail ==
  /\ open
  /\ Terminate
  /\ EndWaitingConsumer
  /\ UNCHANGED <<nextRequestId, refused, writeQueue, notices, written, answered,
                 inboundSequence, acknowledged, refusedResponses, received, closers>>

(* close(): ends an open connection and waits for the cleanup. *)
Close(x) ==
  /\ closers[x] = "idle"
  /\ closers' = [closers EXCEPT ![x] = "waiting"]
  /\ IF open THEN Terminate /\ EndWaitingConsumer
     ELSE UNCHANGED <<open, calls, pendingRequests, pendingInbound, responding,
                      abandoning, writing, inboundQueue, cleanup, consumer>>
  /\ UNCHANGED <<nextRequestId, refused, writeQueue, notices, written, answered,
                 inboundSequence, acknowledged, refusedResponses, received>>

(* startCleanup: the caller's cleanup settles, well or not (cleanupFailure)*)
(* and one turn of the event loop later the stream guards are released.    *)
CleanupSettles ==
  /\ cleanup = "running"
  /\ cleanup' \in {"settled", "failed"}
  /\ UNCHANGED <<open, closers, reqVars, writeVars, inVars, idVars>>

CleanupDone == cleanup \in {"settled", "failed"}

CloseSettles(x) ==
  /\ closers[x] = "waiting"
  /\ CleanupDone
  /\ closers' = [closers EXCEPT ![x] =
                   IF cleanup = "failed" THEN "rejected" ELSE "resolved"]
  /\ UNCHANGED <<open, cleanup, reqVars, writeVars, inVars, idVars>>

----------------------------------------------------------------------------
HostStep ==
  \/ \E c \in Calls : \/ \E b \in BOOLEAN : Request(c, b)
                      \/ RequestRejected(c)
                      \/ RequestAborted(c)
  \/ \E n \in Notices : Notify(n)
  \/ \E k \in InboundIds : Respond(k) \/ AbandonInboundRequest(k)
  \/ ConsumerNext
  \/ ConsumerReturn
  \/ \E x \in Closers : Close(x)

PeerStep ==
  \/ \E k \in InboundIds \cup {NoId} : ReceiveMessage(k) \/ ReceiveOverLimit(k)
  \/ \E i \in RequestIds : \/ \E by \in Calls \cup {NoCall} : ReceiveResponse(i, by)
                          \/ UnmatchedResponse(i)
  \/ WriteFlushed
  \/ Fail

LoopStep ==
  \/ StartWrite \/ SkipWrite \/ RejectWrite
  \/ \E c \in Calls : RefusedWrite(c) \/ BarrierPassed(c) \/ RequestTimeout(c)
  \/ \E k \in InboundIds : RefusedResponse(k)
  \/ CleanupSettles
  \/ \E x \in Closers : CloseSettles(x)

Next == HostStep \/ PeerStep \/ LoopStep

(* The event loop runs scheduled continuations and due timers, and the     *)
(* caller's cleanup settles.  Nothing is assumed of the host, the peer, or *)
(* the stream's write callback.                                            *)
Fairness ==
  /\ WF_vars(StartWrite) /\ WF_vars(SkipWrite) /\ WF_vars(RejectWrite)
  /\ \A c \in Calls : /\ WF_vars(RefusedWrite(c))
                      /\ WF_vars(BarrierPassed(c))
                      /\ WF_vars(RequestTimeout(c))
  /\ \A k \in InboundIds : WF_vars(RefusedResponse(k))
  /\ WF_vars(CleanupSettles)
  /\ \A x \in Closers : WF_vars(CloseSettles(x))

Spec == Init /\ [][Next]_vars

FairSpec == Spec /\ Fairness

----------------------------------------------------------------------------
(* Properties. *)

(* Every variable has its type. *)
TypeOK ==
  /\ open \in BOOLEAN
  /\ calls \in [Calls -> CallRecord]
  /\ pendingRequests \in [RequestIds -> Calls \cup {NoCall}]
  /\ nextRequestId \in RequestIds
  /\ writeQueue \in Seq(Frames)
  /\ writing \in {"idle", "active", "rejected"}
  /\ refused \subseteq Calls
  /\ notices \in [Notices -> {"idle", "pending", "sent", "failed"}]
  /\ inboundQueue \in Seq(Message)
  /\ inboundSequence \in 0..MaxInbound
  /\ acknowledged \in 0..MaxInbound
  /\ consumer \in ConsumerState
  /\ pendingInbound \subseteq InboundIds
  /\ responding \subseteq InboundIds
  /\ abandoning \subseteq InboundIds
  /\ refusedResponses \subseteq InboundIds
  /\ cleanup \in {"none", "running", "settled", "failed"}
  /\ closers \in [Closers -> {"idle", "waiting", "resolved", "rejected"}]
  /\ written \subseteq Calls
  /\ received \in [InboundIds -> Nat]
  /\ answered \in [InboundIds -> Nat]

(* A promise that request() returned and has not settled is reachable      *)
(* through its identifier, and an identifier in the map leads to such a    *)
(* promise: nothing can be waiting where no response, timer or terminate() *)
(* would find it, also when identifiers wrap around.                       *)
PendingIsTracked ==
  /\ \A c \in Calls : Pending(c) => /\ calls[c].id \in RequestIds
                                    /\ pendingRequests[calls[c].id] = c
  /\ \A i \in RequestIds : pendingRequests[i] # NoCall =>
                             /\ Pending(pendingRequests[i])
                             /\ calls[pendingRequests[i]].id = i

(* After terminate() nothing waits for the peer: no request, no barrier,   *)
(* no inbound request to answer, no write the stream could still settle.   *)
TerminationReleasesAll ==
  ~open => /\ \A c \in Calls : ~Pending(c)
           /\ pendingInbound = {} /\ responding = {} /\ abandoning = {}
           /\ inboundQueue = <<>>
           /\ writing # "active" /\ consumer.state # "waiting"
           /\ cleanup # "none"

(* Another request had the identifier of c before or has it now.  The code *)
(* has 2^53 of them: it is the case only when the numbers wrapped around   *)
(* while something of the first request was still about.                   *)
Shared(c) == \E d \in Calls \ {c} : calls[d].id = calls[c].id

(* request() resolves from its own response only: not from the late answer *)
(* to a request that timed out before, not before its frame was written.   *)
AnsweredByOwnResponse ==
  \A c \in Calls : calls[c].outcome = "response" /\ ~Shared(c) =>
    calls[c].answeredBy = c /\ c \in written

(* requestAfterInbound() resolves only after the consumer advanced past    *)
(* every message that arrived before the response (README, Lifecycle).     *)
BarrierHolds ==
  \A c \in Calls : calls[c].outcome = "response" /\ calls[c].afterInbound /\ ~Shared(c) =>
    acknowledged >= calls[c].target

(* No more responses go out for an identifier than requests came in with   *)
(* it, however respond(), its failure, abandonment and reuse of the        *)
(* identifier by the peer interleave.                                      *)
AnsweredAtMostOnce == \A k \in InboundIds : answered[k] <= received[k]

(* While the connection is open an inbound request is reserved by exactly  *)
(* the respond() that has not settled, and only a reserved one can be      *)
(* abandoned later: no reservation leaks when a write is refused or fails, *)
(* and none is dropped while a frame for it may still go out.              *)
ResponseFrame(i, k) == writeQueue[i] = [kind |-> "response", of |-> k]

ResponseReservation ==
  /\ responding \subseteq pendingInbound
  /\ abandoning \subseteq responding
  /\ open => \A k \in InboundIds :
       k \in responding <=> \/ k \in refusedResponses
                            \/ \E i \in 1..Len(writeQueue) : ResponseFrame(i, k)

(* While the connection is open the consumer sees the peer's messages in   *)
(* wire order and without a gap: acknowledged, held, queued, in that order.*)
HeldCount == IF consumer.state = "yielded" THEN 1 ELSE 0

InboundInOrder ==
  open => /\ inboundSequence = acknowledged + HeldCount + Len(inboundQueue)
          /\ consumer.state = "yielded" => consumer.held = acknowledged + 1
          /\ \A i \in 1..Len(inboundQueue) :
               inboundQueue[i].sequence = acknowledged + HeldCount + i

(* Inbound messages and their answers, for any limits: the consumer sees   *)
(* every message once and in order, a barrier waits for it, and each       *)
(* request of the peer is reserved, answered and given up at most once.    *)
AnswersSound ==
  /\ TypeOK
  /\ InboundInOrder
  /\ BarrierHolds
  /\ ResponseReservation
  /\ AnsweredAtMostOnce

(* A request that ended before its write started is never sent: a frame is *)
(* handed to the stream only for a promise that still waits.               *)
OnlyLiveRequestsWritten ==
  [][\A c \in written' \ written : Pending(c) \/ Shared(c)]_vars

(* Every request settles, whatever the peer does; and no write is left     *)
(* behind by the end of the connection, even when the stream never calls   *)
(* back for the one it holds.  A call begins once and an end is final, so  *)
(* that time and again nothing is left.                                    *)
RequestsSettle ==
  []<>(/\ \A c \in Calls : ~Pending(c)
       /\ ~open => writeQueue = <<>>)
============================================================================
