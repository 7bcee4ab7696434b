------------------------- MODULE JsonRpcDshProofs -------------------------
(***************************************************************************)
(* Proofs about JsonRpcTransport, for any calls, identifiers and limits,   *)
(* and about DshGateway, the second connection of the DeepSeek Harness     *)
(* adapter (the first is a process behind that transport), for any         *)
(* Sessions, Runs and limits. The two share nothing. The invariants are    *)
(* proved one after the other, each using those before.                    *)
(***************************************************************************)
EXTENDS JsonRpcTransport, DshGateway, FiniteSetTheorems, SequenceTheorems, TLAPS

(* TypeOK by the groups of variables that actions leave alone together. *)
ReqTyped ==
  /\ calls \in [Calls -> CallRecord]
  /\ pendingRequests \in [RequestIds -> Calls \cup {NoCall}]
  /\ nextRequestId \in RequestIds
  /\ refused \subseteq Calls

WriteTyped ==
  /\ writeQueue \in Seq(Frames)
  /\ writing \in {"idle", "active", "rejected"}
  /\ writing # "idle" => writeQueue # <<>>
  /\ notices \in [Notices -> {"idle", "pending", "sent", "failed"}]
  /\ written \subseteq Calls
  /\ answered \in [InboundIds -> Nat]

InTyped ==
  /\ inboundQueue \in Seq(Message)
  /\ inboundSequence \in 0..MaxInbound
  /\ acknowledged \in 0..MaxInbound
  /\ consumer \in ConsumerState

IdTyped ==
  /\ pendingInbound \subseteq InboundIds
  /\ responding \subseteq InboundIds
  /\ abandoning \subseteq InboundIds
  /\ refusedResponses \subseteq InboundIds
  /\ received \in [InboundIds -> Nat]

EndTyped ==
  /\ open \in BOOLEAN
  /\ cleanup \in {"none", "running", "settled", "failed"}
  /\ closers \in [Closers -> {"idle", "waiting", "resolved", "rejected"}]

(* TypeOK, and the stream is busy with a frame only while it is queued. *)
Typed == ReqTyped /\ WriteTyped /\ InTyped /\ IdTyped /\ EndTyped

LEMMA TypedImpliesTypeOK == Typed => TypeOK
  BY DEF Typed, ReqTyped, WriteTyped, InTyped, IdTyped, EndTyped, TypeOK

LEMMA Unchanged ==
  /\ ReqTyped /\ UNCHANGED reqVars => ReqTyped'
  /\ WriteTyped /\ UNCHANGED writeVars => WriteTyped'
  /\ InTyped /\ UNCHANGED inVars => InTyped'
  /\ IdTyped /\ UNCHANGED idVars => IdTyped'
  /\ EndTyped /\ UNCHANGED endVars => EndTyped'
<1>1. ReqTyped /\ UNCHANGED reqVars => ReqTyped'
  BY DEF ReqTyped, reqVars
<1>2. WriteTyped /\ UNCHANGED writeVars => WriteTyped'
  BY DEF WriteTyped, writeVars
<1>3. InTyped /\ UNCHANGED inVars => InTyped'
  BY DEF InTyped, inVars
<1>4. IdTyped /\ UNCHANGED idVars => IdTyped'
  BY DEF IdTyped, idVars
<1>5. EndTyped /\ UNCHANGED endVars => EndTyped'
  BY Zenon DEF EndTyped, endVars
<1> QED BY <1>1, <1>2, <1>3, <1>4, <1>5

----------------------------------------------------------------------------
(* What the shared steps do to the types. *)

CallsTyped ==
  /\ calls \in [Calls -> CallRecord]
  /\ pendingRequests \in [RequestIds -> Calls \cup {NoCall}]

LEMMA SettledTyped ==
  ASSUME calls \in [Calls -> CallRecord], NEW c, NEW outcome \in Outcomes
  PROVE  Settled(c, outcome) \in [Calls -> CallRecord]
  BY ZenonT(60) DEF CallRecord, Settled

LEMMA SettlePendingTyped ==
  ASSUME ReqTyped, NEW id, NEW outcome \in Outcomes, SettlePending(id, outcome)
  PROVE  CallsTyped'
<1>1. CASE pendingRequests[id] = NoCall
  BY <1>1 DEF SettlePending, CallsTyped, ReqTyped
<1>2. CASE pendingRequests[id] # NoCall
  BY <1>2, SettledTyped DEF SettlePending, CallsTyped, ReqTyped
<1> QED BY <1>1, <1>2

(* Steps that settle a request and touch nothing else. *)
LEMMA SettlingTyped ==
  ASSUME Typed, NEW id, NEW outcome \in Outcomes, SettlePending(id, outcome),
         nextRequestId' = nextRequestId, refused' \subseteq refused,
         UNCHANGED <<writeVars, inVars, idVars, endVars>>
  PROVE  Typed'
<1>1. CallsTyped'
  BY SettlePendingTyped DEF Typed
<1>2. ReqTyped'
  BY <1>1 DEF CallsTyped, Typed, ReqTyped
<1> QED BY <1>2, Unchanged DEF Typed

LEMMA TerminateTyped ==
  ASSUME Typed, Terminate
  PROVE  /\ CallsTyped'
         /\ pendingInbound' = {} /\ responding' = {} /\ abandoning' = {}
         /\ open' = FALSE
         /\ writing' \in {"idle", "active", "rejected"}
         /\ writing' # "idle" => writing # "idle"
         /\ inboundQueue' = <<>>
         /\ cleanup' \in {"none", "running", "settled", "failed"}
<1>1. calls' \in [Calls -> CallRecord]
  <2>1. \A c \in Calls :
          [calls[c] EXCEPT !.outcome = "terminated", !.barrier = "none"] \in CallRecord
    <3>1. calls \in [Calls -> CallRecord] BY DEF Typed, ReqTyped
    <3> QED BY <3>1, ZenonT(60) DEF CallRecord, Outcomes
  <2> QED BY <2>1 DEF Typed, ReqTyped, Terminate
<1>2. pendingRequests' \in [RequestIds -> Calls \cup {NoCall}]
  BY DEF Terminate
<1>3. /\ writing \in {"idle", "active", "rejected"}
      /\ cleanup \in {"none", "running", "settled", "failed"}
  BY DEF Typed, WriteTyped, EndTyped
<1> QED BY <1>1, <1>2, <1>3 DEF CallsTyped, Terminate

(* The steps that end the connection. *)
LEMMA EndingTyped ==
  ASSUME Typed, Terminate,
         UNCHANGED <<nextRequestId, refused, writeQueue, notices, written, answered,
                     acknowledged, refusedResponses, received>>,
         inboundSequence' \in 0..MaxInbound,
         consumer' \in ConsumerState,
         closers' \in [Closers -> {"idle", "waiting", "resolved", "rejected"}]
  PROVE  Typed'
<1>1. ReqTyped'
  BY TerminateTyped DEF Typed, ReqTyped, CallsTyped
<1>2. WriteTyped'
  BY TerminateTyped DEF Typed, WriteTyped
<1>3. InTyped'
  BY TerminateTyped DEF Typed, InTyped
<1>4. IdTyped'
  BY TerminateTyped DEF Typed, IdTyped
<1>5. EndTyped'
  BY TerminateTyped DEF EndTyped
<1> QED BY <1>1, <1>2, <1>3, <1>4, <1>5 DEF Typed

LEMMA EndWaitingConsumerTyped ==
  ASSUME Typed, EndWaitingConsumer
  PROVE  consumer' \in ConsumerState
  BY LimitsAssumption
  DEF LimitsAssumption, Typed, InTyped, EndWaitingConsumer, ConsumerState

LEMMA FrameSettlesTyped ==
  ASSUME Typed, writeQueue # <<>>, NEW sent \in BOOLEAN, FrameSettles(sent)
  PROVE  Typed'
<1>1. Head1 \in Frames /\ writeQueue' \in Seq(Frames)
  BY DEF Typed, WriteTyped, FrameSettles, Head1
<1>2. CallsTyped'
  BY SettlePendingTyped DEF FrameSettles, Typed, Outcomes, ReqTyped, CallsTyped
<1>3. WriteTyped'
  BY <1>1 DEF Typed, WriteTyped, FrameSettles
<1>4. IdTyped'
  BY DEF Typed, IdTyped, FrameSettles, ResponseWriteSettles
<1>5. ReqTyped'
  BY <1>2 DEF Typed, ReqTyped, FrameSettles, CallsTyped
<1>6. UNCHANGED <<inVars, endVars>>
  BY DEF FrameSettles
<1> QED BY <1>3, <1>4, <1>5, <1>6, Unchanged DEF Typed

----------------------------------------------------------------------------
LEMMA InitTyped == Init => Typed
<1> SUFFICES ASSUME Init PROVE Typed
  OBVIOUS
<1>1. ReqTyped
  BY LimitsAssumption DEF LimitsAssumption, Init, CallRecord, Outcomes, RequestIds, ReqTyped
<1>2. WriteTyped
  BY DEF Init, WriteTyped
<1>3. InTyped
  BY LimitsAssumption DEF LimitsAssumption, Init, InTyped, ConsumerState
<1>4. IdTyped
  BY DEF Init, IdTyped
<1>5. EndTyped
  BY DEF Init, EndTyped
<1> QED BY <1>1, <1>2, <1>3, <1>4, <1>5 DEF Typed

LEMMA QueueingTyped ==
  ASSUME Typed, NEW frame \in Frames,
         writeQueue' = Append(writeQueue, frame) \/ writeQueue' = writeQueue,
         notices' \in [Notices -> {"idle", "pending", "sent", "failed"}],
         UNCHANGED <<writing, written, answered>>
  PROVE  WriteTyped'
<1>1. writeQueue \in Seq(Frames)
  BY DEF Typed, WriteTyped
<1>2. writeQueue' \in Seq(Frames) /\ (writeQueue # <<>> => writeQueue' # <<>>)
  BY <1>1, AppendProperties
<1> QED BY <1>2 DEF Typed, WriteTyped

LEMMA RequestTyped ==
  ASSUME Typed, NEW c \in Calls, NEW b \in BOOLEAN, Request(c, b)
  PROVE  Typed'
<1>1. PICK id \in RequestIds :
        /\ AllocateRequestId(id)
        /\ pendingRequests' = [pendingRequests EXCEPT ![id] = c]
        /\ calls' = [calls EXCEPT ![c].outcome = "pending", ![c].id = id,
                                  ![c].afterInbound = b]
  BY DEF Request
<1>2. calls' \in [Calls -> CallRecord]
  <2>1. id \in 0..MaxRequestId /\ "pending" \in Outcomes
    BY LimitsAssumption DEF LimitsAssumption, RequestIds, Outcomes
  <2>2. [calls[c] EXCEPT !.outcome = "pending", !.id = id, !.afterInbound = b]
          \in CallRecord
    BY <2>1 DEF Typed, ReqTyped, CallRecord
  <2>3. calls' = [calls EXCEPT ![c] = [calls[c] EXCEPT !.outcome = "pending", !.id = id,
                                                       !.afterInbound = b]]
    BY <1>1 DEF Typed, ReqTyped, CallRecord
  <2> QED BY <2>2, <2>3 DEF Typed, ReqTyped
<1>3. nextRequestId' \in RequestIds
  BY <1>1, LimitsAssumption DEF LimitsAssumption, AllocateRequestId, RequestIds
<1>4. ReqTyped'
  BY <1>1, <1>2, <1>3 DEF Typed, ReqTyped, Request
<1>5. WriteTyped'
  BY QueueingTyped DEF Frames, Typed, WriteTyped, Request
<1> QED BY <1>4, <1>5, Unchanged DEF Typed, Request

LEMMA RequestRejectedTyped ==
  ASSUME Typed, NEW c \in Calls, RequestRejected(c)
  PROVE  Typed'
<1>1. calls' \in [Calls -> CallRecord]
  BY DEF Typed, ReqTyped, RequestRejected, CallRecord, Outcomes
<1>2. nextRequestId' \in RequestIds
  BY LimitsAssumption
  DEF LimitsAssumption, RequestRejected, AllocateRequestId, RequestIds, Typed, ReqTyped
<1>3. ReqTyped'
  BY <1>1, <1>2 DEF Typed, ReqTyped, RequestRejected
<1> QED BY <1>3, Unchanged DEF Typed, RequestRejected

LEMMA BarrierPassedTyped ==
  ASSUME Typed, NEW c \in Calls, BarrierPassed(c)
  PROVE  Typed'
<1> DEFINE d == pendingRequests[calls[c].id]
           S == Settled(d, "response")
<1>1. calls \in [Calls -> CallRecord] /\ c \in Calls
  BY DEF Typed, ReqTyped
<1>2. CallsTyped'
  <2>1. CASE d = NoCall
    BY <1>1, <2>1 DEF BarrierPassed, CallRecord, CallsTyped, Typed, ReqTyped
  <2>2. CASE d # NoCall
    <3>1. /\ calls' = [S EXCEPT ![d].answeredBy = calls[c].answeredBy, ![c].barrier = "none"]
          /\ pendingRequests' = [pendingRequests EXCEPT ![calls[c].id] = NoCall]
      BY <2>2 DEF BarrierPassed
    <3>2. S \in [Calls -> CallRecord] /\ calls[c].answeredBy \in Calls \cup {NoCall}
      BY <1>1, SettledTyped DEF Outcomes, CallRecord
    <3> HIDE DEF S, d
    <3>3. calls' \in [Calls -> CallRecord]
      BY <3>1, <3>2 DEF CallRecord
    <3> QED BY <3>1, <3>3 DEF CallsTyped, Typed, ReqTyped
  <2> QED BY <2>1, <2>2
<1>3. ReqTyped' /\ UNCHANGED <<writeVars, inVars, idVars, endVars>>
  BY <1>2 DEF CallsTyped, Typed, ReqTyped, BarrierPassed
<1> QED BY <1>3, Unchanged DEF Typed

LEMMA NotifyTyped ==
  ASSUME Typed, NEW n \in Notices, Notify(n)
  PROVE  Typed'
<1>1. [kind |-> "notification", of |-> n] \in Frames
  BY DEF Frames
<1>2. WriteTyped'
  BY <1>1, QueueingTyped DEF Typed, WriteTyped, Notify
<1> QED BY <1>2, Unchanged DEF Typed, Notify

LEMMA RespondTyped ==
  ASSUME Typed, NEW k \in InboundIds, Respond(k)
  PROVE  Typed'
<1>1. [kind |-> "response", of |-> k] \in Frames
  BY DEF Frames
<1>2. WriteTyped'
  BY <1>1, QueueingTyped DEF Typed, WriteTyped, Respond
<1>3. IdTyped'
  BY DEF Typed, IdTyped, Respond
<1> QED BY <1>2, <1>3, Unchanged DEF Typed, Respond

LEMMA AbandonInboundRequestTyped ==
  ASSUME Typed, NEW k \in InboundIds, AbandonInboundRequest(k)
  PROVE  Typed'
<1>1. IdTyped'
  BY DEF Typed, IdTyped, AbandonInboundRequest
<1> QED BY <1>1, Unchanged DEF Typed, AbandonInboundRequest

LEMMA ConsumerNextTyped ==
  ASSUME Typed, ConsumerNext
  PROVE  Typed'
<1>1. acknowledged' \in 0..MaxInbound
  BY DEF Typed, InTyped, ConsumerNext, Acknowledge, ConsumerState
<1>2. calls' \in [Calls -> CallRecord]
  BY DEF Typed, ReqTyped, ConsumerNext, Acknowledge, CallRecord
<1>3. consumer' \in ConsumerState /\ inboundQueue' \in Seq(Message)
  <2>1. CASE inboundQueue # <<>>
    <3>1. Head(inboundQueue) \in Message /\ Tail(inboundQueue) \in Seq(Message)
      BY <2>1 DEF Typed, InTyped
    <3>2. Head(inboundQueue).sequence \in 0..MaxInbound
      BY <3>1, LimitsAssumption DEF LimitsAssumption, Message
    <3>3. consumer' = [state |-> "yielded", held |-> Head(inboundQueue).sequence]
          /\ inboundQueue' = Tail(inboundQueue)
      BY <2>1 DEF ConsumerNext
    <3> QED BY <3>1, <3>2, <3>3 DEF ConsumerState
  <2>2. CASE inboundQueue = <<>>
    BY <2>2, LimitsAssumption
    DEF LimitsAssumption, Typed, InTyped, ConsumerNext, ConsumerState
  <2> QED BY <2>1, <2>2
<1>4. ReqTyped'
  BY <1>2 DEF Typed, ReqTyped, ConsumerNext
<1>5. InTyped'
  BY <1>1, <1>3 DEF Typed, InTyped, ConsumerNext
<1> QED BY <1>4, <1>5, Unchanged DEF Typed, ConsumerNext

LEMMA ConsumerReturnTyped ==
  ASSUME Typed, ConsumerReturn
  PROVE  Typed'
<1>1. consumer' \in ConsumerState
  BY LimitsAssumption DEF LimitsAssumption, ConsumerReturn, ConsumerState
<1>2. CASE open
  BY <1>1, <1>2, EndingTyped DEF ConsumerReturn, Typed, InTyped, EndTyped
<1>3. CASE ~open
  BY <1>1, <1>3, Unchanged DEF Typed, InTyped, ConsumerReturn, reqVars, writeVars, idVars, endVars
<1> QED BY <1>2, <1>3

LEMMA CloseTyped ==
  ASSUME Typed, NEW x \in Closers, Close(x)
  PROVE  Typed'
<1>1. closers' \in [Closers -> {"idle", "waiting", "resolved", "rejected"}]
  BY DEF Typed, EndTyped, Close
<1>2. CASE open
  BY <1>1, <1>2, EndingTyped, EndWaitingConsumerTyped DEF Close, Typed, InTyped
<1>3. CASE ~open
  BY <1>1, <1>3, Unchanged DEF Typed, EndTyped, Close, reqVars, writeVars, idVars, inVars
<1> QED BY <1>2, <1>3

LEMMA ReceiveMessageTyped ==
  ASSUME Typed, NEW k \in InboundIds \cup {NoId}, ReceiveMessage(k)
  PROVE  Typed'
<1> DEFINE m == [sequence |-> inboundSequence + 1, id |-> k]
<1>1. inboundSequence + 1 \in 1..MaxInbound
  BY LimitsAssumption DEF LimitsAssumption, Typed, InTyped, ReceiveMessage, CanReceive
<1>2. m \in Message
  BY <1>1 DEF Message
<1>3. PushInbound(m)
  BY DEF ReceiveMessage
<1>4. inboundQueue' \in Seq(Message)
  BY <1>2, <1>3 DEF Typed, InTyped, PushInbound
<1>5. consumer' \in ConsumerState
  BY <1>1, <1>3, LimitsAssumption
  DEF LimitsAssumption, Typed, InTyped, PushInbound, ConsumerState
<1>6. InTyped'
  BY <1>1, <1>4, <1>5 DEF Typed, InTyped, ReceiveMessage
<1>7. IdTyped'
  BY DEF Typed, IdTyped, ReceiveMessage
<1> QED BY <1>6, <1>7, Unchanged DEF Typed, ReceiveMessage

LEMMA ReceiveOverLimitTyped ==
  ASSUME Typed, NEW k \in InboundIds \cup {NoId}, ReceiveOverLimit(k)
  PROVE  Typed'
<1>1. inboundSequence' \in 0..MaxInbound
  BY LimitsAssumption DEF LimitsAssumption, Typed, InTyped, ReceiveOverLimit, CanReceive
<1> QED
  BY <1>1, EndingTyped, EndWaitingConsumerTyped DEF ReceiveOverLimit, Typed, EndTyped

LEMMA ReceiveResponseTyped ==
  ASSUME Typed, NEW i \in RequestIds, NEW by \in Calls \cup {NoCall},
         ReceiveResponse(i, by)
  PROVE  Typed'
<1> DEFINE c == pendingRequests[i]
<1>1. c \in Calls
  BY DEF Typed, ReqTyped, ReceiveResponse, Matches
<1>2. calls' \in [Calls -> CallRecord] /\ pendingRequests' \in [RequestIds -> Calls \cup {NoCall}]
  <2>1. CASE calls[c].afterInbound
    <3>1. inboundSequence \in 0..MaxInbound
      BY DEF Typed, InTyped
    <3>2. PICK x \in {"released", "waiting"} :
            calls' = [calls EXCEPT ![c].responseReceived = TRUE, ![c].answeredBy = by,
                                   ![c].target = inboundSequence, ![c].barrier = x]
      BY <2>1 DEF ReceiveResponse
    <3>3. calls' \in [Calls -> CallRecord]
      <4>1. calls \in [Calls -> CallRecord]
        BY DEF Typed, ReqTyped
      <4>2. [calls[c] EXCEPT !.responseReceived = TRUE, !.answeredBy = by,
                             !.target = inboundSequence, !.barrier = x] \in CallRecord
        BY <1>1, <3>1, <4>1, ZenonT(60) DEF CallRecord
      <4>3. calls' = [calls EXCEPT ![c] =
              [calls[c] EXCEPT !.responseReceived = TRUE, !.answeredBy = by,
                               !.target = inboundSequence, !.barrier = x]]
        BY <1>1, <3>2, <4>1 DEF CallRecord
      <4> QED BY <4>1, <4>2, <4>3
    <3> QED BY <2>1, <3>3 DEF ReceiveResponse, Typed, ReqTyped
  <2>2. CASE ~calls[c].afterInbound
    <3>1. Settled(c, "response") \in [Calls -> CallRecord]
      BY SettledTyped DEF Typed, ReqTyped, Outcomes
    <3>2. calls' = [Settled(c, "response") EXCEPT ![c].responseReceived = TRUE,
                                                  ![c].answeredBy = by]
      BY <2>2 DEF ReceiveResponse
    <3>3. calls' \in [Calls -> CallRecord]
      <4> DEFINE S == Settled(c, "response")
      <4> HIDE DEF c, S
      <4>1. [S[c] EXCEPT !.responseReceived = TRUE, !.answeredBy = by] \in CallRecord
        BY <1>1, <3>1 DEF CallRecord, S
      <4>2. calls' = [S EXCEPT ![c] =
                        [S[c] EXCEPT !.responseReceived = TRUE, !.answeredBy = by]]
        BY <1>1, <3>1, <3>2 DEF CallRecord, S
      <4> QED BY <3>1, <4>1, <4>2 DEF S
    <3> QED BY <2>2, <3>3 DEF ReceiveResponse, Typed, ReqTyped
  <2> QED BY <2>1, <2>2
<1>3. ReqTyped'
  BY <1>2 DEF Typed, ReqTyped, ReceiveResponse
<1> QED BY <1>3, Unchanged DEF Typed, ReceiveResponse

LEMMA StartWriteTyped ==
  ASSUME Typed, StartWrite
  PROVE  Typed'
<1>1. Head1 \in Frames
  BY HeadTailProperties DEF Typed, WriteTyped, StartWrite, Head1
<1>2. calls' \in [Calls -> CallRecord]
  <2>1. CASE Head1.kind = "request"
    <3> DEFINE c == pendingRequests[calls[Head1.of].id]
    <3>1. calls' = [calls EXCEPT ![c].writeStarted = TRUE]
      BY <2>1 DEF StartWrite
    <3>2. calls \in [Calls -> CallRecord]
      BY DEF Typed, ReqTyped
    <3>3. ASSUME NEW d \in Calls PROVE calls'[d] \in CallRecord
      BY <3>2, <3>1 DEF CallRecord
    <3> HIDE DEF c
    <3> QED BY <3>1, <3>2, <3>3
  <2>2. CASE Head1.kind # "request"
    BY <2>2 DEF Typed, ReqTyped, StartWrite
  <2> QED BY <2>1, <2>2
<1>3. ReqTyped'
  BY <1>2 DEF Typed, ReqTyped, StartWrite
<1>4. written' \subseteq Calls
  BY <1>1 DEF Typed, WriteTyped, StartWrite, Frames
<1>5. answered' \in [InboundIds -> Nat]
  BY <1>1 DEF Typed, WriteTyped, StartWrite, Frames
<1>6. WriteTyped'
  BY <1>4, <1>5 DEF Typed, WriteTyped, StartWrite
<1> QED BY <1>3, <1>6, Unchanged DEF Typed, StartWrite

LEMMA RefusedResponseTyped ==
  ASSUME Typed, NEW k \in InboundIds, RefusedResponse(k)
  PROVE  Typed'
<1>1. IdTyped'
  BY DEF Typed, IdTyped, RefusedResponse, ResponseWriteSettles
<1> QED BY <1>1, Unchanged DEF Typed, RefusedResponse

LEMMA CleanupTyped ==
  ASSUME Typed, CleanupSettles \/ \E x \in Closers : CloseSettles(x)
  PROVE  Typed'
<1>1. CASE CleanupSettles
  BY <1>1, Unchanged DEF Typed, EndTyped, CleanupSettles
<1>2. ASSUME NEW x \in Closers, CloseSettles(x) PROVE Typed'
  BY <1>2, Unchanged DEF Typed, EndTyped, CloseSettles
<1> QED BY <1>1, <1>2

LEMMA StepTyped == Typed /\ [Next]_vars => Typed'
<1> SUFFICES ASSUME Typed, [Next]_vars PROVE Typed'
  OBVIOUS
<1>1. ASSUME NEW c \in Calls, NEW b \in BOOLEAN, Request(c, b) PROVE Typed'
  BY <1>1, RequestTyped
<1>2. ASSUME NEW c \in Calls,
             \/ RequestRejected(c) \/ RequestAborted(c) \/ RequestTimeout(c)
             \/ RefusedWrite(c) \/ BarrierPassed(c)
      PROVE  Typed'
  BY <1>2, RequestRejectedTyped, BarrierPassedTyped, SettlingTyped
  DEF RequestAborted, RequestTimeout, LocalEnd, RefusedWrite, Outcomes
<1>3. ASSUME NEW n \in Notices, Notify(n) PROVE Typed'
  BY <1>3, NotifyTyped
<1>4. ASSUME NEW k \in InboundIds,
             Respond(k) \/ AbandonInboundRequest(k) \/ RefusedResponse(k)
      PROVE  Typed'
  BY <1>4, RespondTyped, AbandonInboundRequestTyped, RefusedResponseTyped
<1>5. CASE ConsumerNext \/ ConsumerReturn
  BY <1>5, ConsumerNextTyped, ConsumerReturnTyped
<1>6. ASSUME NEW x \in Closers, Close(x) PROVE Typed'
  BY <1>6, CloseTyped
<1>7. ASSUME NEW k \in InboundIds \cup {NoId}, ReceiveMessage(k) \/ ReceiveOverLimit(k)
      PROVE  Typed'
  BY <1>7, ReceiveMessageTyped, ReceiveOverLimitTyped
<1>8. ASSUME NEW i \in RequestIds, NEW by \in Calls \cup {NoCall}, ReceiveResponse(i, by)
      PROVE  Typed'
  BY <1>8, ReceiveResponseTyped
<1>9. CASE StartWrite
  BY <1>9, StartWriteTyped
<1>10. CASE WriteFlushed \/ SkipWrite \/ RejectWrite
  BY <1>10, FrameSettlesTyped DEF WriteFlushed, SkipWrite, RejectWrite, Typed, WriteTyped
<1>11. CASE Fail
  BY <1>11, EndingTyped, EndWaitingConsumerTyped DEF Fail, Typed, InTyped, EndTyped
<1>12. CASE CleanupSettles \/ \E x \in Closers : CloseSettles(x)
  BY <1>12, CleanupTyped
<1>13. CASE UNCHANGED vars
  BY <1>13, Unchanged DEF vars, Typed
<1>14. ASSUME NEW i \in RequestIds, UnmatchedResponse(i) PROVE Typed'
  BY <1>13, <1>14 DEF UnmatchedResponse
<1> QED
  BY <1>1, <1>2, <1>3, <1>4, <1>5, <1>6, <1>7, <1>8, <1>9, <1>10, <1>11, <1>12, <1>13,
     <1>14
  DEF Next, HostStep, PeerStep, LoopStep

LEMMA InvTyped == Spec => []Typed
  BY InitTyped, StepTyped, PTL DEF Spec

(* Every reachable state of the transport has the types of TypeOK: its     *)
(* identifiers, sequence numbers and queues stay in range for any limits.  *)
THEOREM TypeCorrect == Spec => []TypeOK
  BY InvTyped, TypedImpliesTypeOK, PTL

----------------------------------------------------------------------------
(* Every waiting request can be found: PendingIsTracked.  A refused or     *)
(* queued request still knows its identifier, under which the end of its   *)
(* write looks for it.                                                     *)

HasId(c) == calls[c].id \in RequestIds

Identified ==
  /\ \A c \in refused : HasId(c)
  /\ \A i \in 1..Len(writeQueue) :
       writeQueue[i].kind = "request" => HasId(writeQueue[i].of)

Tracked == PendingIsTracked /\ Identified

(* Steps that leave identifiers alone and queue no request. *)
LEMMA IdentifiedKept ==
  ASSUME Typed, Identified, Typed',
         \A c \in Calls : calls'[c].id = calls[c].id,
         refused' \subseteq refused,
         \/ writeQueue' = writeQueue
         \/ writeQueue # <<>> /\ writeQueue' = Tail(writeQueue)
         \/ \E frame \in Frames : /\ frame.kind # "request"
                                  /\ writeQueue' = Append(writeQueue, frame)
  PROVE  Identified'
<1>1. \A c \in refused' : calls'[c].id \in RequestIds
  BY DEF Identified, HasId, Typed, ReqTyped
<1>2. writeQueue \in Seq(Frames)
  BY DEF Typed, WriteTyped
<1>3. \A i \in 1..Len(writeQueue) :
        writeQueue[i].kind = "request" => calls'[writeQueue[i].of].id \in RequestIds
  BY <1>2 DEF Frames, Identified, HasId
<1>4. \A i \in 1..Len(writeQueue') :
        writeQueue'[i].kind = "request" => calls'[writeQueue'[i].of].id \in RequestIds
  BY <1>3, <1>2
<1> QED BY <1>1, <1>4 DEF Identified, HasId

(* A call has its identifier from the moment its request is stored, and a  *)
(* barrier only when it asked for one. *)
Unborn(c) == calls[c].outcome \in {"idle", "rejected"}

Numbered ==
  \A c \in Calls :
    /\ Unborn(c) => calls[c].id = 0
    /\ ~Unborn(c) => HasId(c)
    /\ calls[c].barrier # "none" => HasId(c) /\ calls[c].afterInbound

(* Steps that leave the promises and the map alone. *)
LEMMA TrackedKept ==
  ASSUME Typed, PendingIsTracked,
         pendingRequests' = pendingRequests,
         \A c \in Calls : calls'[c].id = calls[c].id /\ calls'[c].outcome = calls[c].outcome
  PROVE  PendingIsTracked'
  BY DEF PendingIsTracked, Pending, Typed, ReqTyped

LEMMA SettlingTracked ==
  ASSUME Typed, PendingIsTracked, NEW id \in RequestIds, NEW outcome, outcome # "pending",
         SettlePending(id, outcome)
  PROVE  /\ PendingIsTracked'
         /\ \A c \in Calls : calls'[c].id = calls[c].id
<1>1. CASE pendingRequests[id] = NoCall
  BY <1>1, TrackedKept DEF SettlePending
<1>2. CASE pendingRequests[id] # NoCall
  <2> DEFINE d == pendingRequests[id]
  <2>1. d = pendingRequests[id] /\ d \in Calls /\ calls[d].id = id
    BY <1>2 DEF PendingIsTracked, Typed, ReqTyped
  <2>2. calls' = Settled(d, outcome) /\ pendingRequests' = [pendingRequests EXCEPT ![id] = NoCall]
    BY <1>2 DEF SettlePending
  <2>3. calls \in [Calls -> CallRecord]
    BY DEF Typed, ReqTyped
  <2>4. \A c \in Calls : /\ calls'[c].id = calls[c].id
                         /\ calls'[c].outcome = IF c = d THEN outcome ELSE calls[c].outcome
    BY <2>1, <2>2, <2>3 DEF Settled, CallRecord
  <2>5. \A i \in RequestIds : pendingRequests'[i] = IF i = id THEN NoCall
                                                    ELSE pendingRequests[i]
    BY <2>2 DEF Typed, ReqTyped
  <2> HIDE DEF d
  <2>6. \A c \in Calls : Pending(c)' => /\ calls'[c].id \in RequestIds
                                         /\ pendingRequests'[calls'[c].id] = c
    BY <2>1, <2>4, <2>5 DEF PendingIsTracked, Pending
  <2>7. \A i \in RequestIds : pendingRequests'[i] # NoCall =>
                               /\ calls'[pendingRequests'[i]].outcome = "pending"
                               /\ calls'[pendingRequests'[i]].id = i
    BY <2>1, <2>4, <2>5 DEF PendingIsTracked, Pending, Typed, ReqTyped
  <2> QED BY <2>4, <2>6, <2>7 DEF PendingIsTracked, Pending
<1> QED BY <1>1, <1>2

LEMMA TerminateTracked ==
  ASSUME Typed, Terminate
  PROVE  /\ PendingIsTracked'
         /\ \A c \in Calls : calls'[c].id = calls[c].id
<1>1. calls \in [Calls -> CallRecord]
  BY DEF Typed, ReqTyped
<1>2. \A c \in Calls : calls'[c].id = calls[c].id /\ calls'[c].outcome # "pending"
  BY <1>1 DEF Terminate, Pending, CallRecord
<1> QED BY <1>2 DEF Terminate, PendingIsTracked, Pending

LEMMA RequestTracked ==
  ASSUME Typed, Typed', Tracked, NEW c \in Calls, NEW b \in BOOLEAN, Request(c, b)
  PROVE  Tracked'
<1>1. PICK id \in RequestIds :
        /\ FreeId(id)
        /\ pendingRequests' = [pendingRequests EXCEPT ![id] = c]
        /\ calls' = [calls EXCEPT ![c].outcome = "pending", ![c].id = id,
                                  ![c].afterInbound = b]
  BY DEF Request, AllocateRequestId
<1>2. calls[c].outcome = "idle"
  BY DEF Request
<1>3. \A d \in Calls :
        /\ calls'[d].id = IF d = c THEN id ELSE calls[d].id
        /\ calls'[d].outcome = IF d = c THEN "pending" ELSE calls[d].outcome
  BY <1>1 DEF Typed, ReqTyped, CallRecord
<1>4. \A i \in RequestIds : pendingRequests'[i] = IF i = id THEN c ELSE pendingRequests[i]
  BY <1>1 DEF Typed, ReqTyped
<1>5. PendingIsTracked'
  <2>1. \A d \in Calls : calls'[d].outcome = "pending" =>
                           /\ calls'[d].id \in RequestIds
                           /\ pendingRequests'[calls'[d].id] = d
    <3> SUFFICES ASSUME NEW d \in Calls, calls'[d].outcome = "pending"
                 PROVE  /\ calls'[d].id \in RequestIds
                        /\ pendingRequests'[calls'[d].id] = d
      OBVIOUS
    <3>1. CASE d = c
      BY <1>3, <1>4, <3>1
    <3>2. CASE d # c
      BY <1>3, <3>2, <1>1, NullAssumption, <1>4 DEF Tracked, PendingIsTracked, Pending, NullAssumption, FreeId
    <3> QED BY <3>1, <3>2
  <2>2. \A i \in RequestIds : pendingRequests'[i] # NoCall =>
                               /\ calls'[pendingRequests'[i]].outcome = "pending"
                               /\ calls'[pendingRequests'[i]].id = i
    BY <1>2, <1>3, <1>4 DEF Tracked, PendingIsTracked, Pending, Typed, ReqTyped
  <2> QED BY <2>1, <2>2 DEF PendingIsTracked, Pending
<1>6. \A d \in Calls : calls[d].id \in RequestIds => calls'[d].id \in RequestIds
  BY <1>3
<1>7. \A d \in refused' : calls'[d].id \in RequestIds
  BY <1>3, <1>6 DEF Request, Tracked, Identified, HasId, Typed, ReqTyped
<1>8. \A i \in 1..Len(writeQueue') :
        writeQueue'[i].kind = "request" => calls'[writeQueue'[i].of].id \in RequestIds
  <2>1. \A i \in 1..Len(writeQueue') :
          \/ i \in 1..Len(writeQueue) /\ writeQueue'[i] = writeQueue[i]
          \/ writeQueue'[i] = [kind |-> "request", of |-> c]
    BY DEF Typed, WriteTyped, Frames, Request
  <2>2. \A i \in 1..Len(writeQueue) : writeQueue[i] \in Frames
    BY DEF Typed, WriteTyped
  <2>3. \A i \in 1..Len(writeQueue) :
          writeQueue[i].kind = "request" => writeQueue[i].of \in Calls
    BY <2>2 DEF Frames
  <2> QED BY <1>3, <1>6, <2>1, <2>3 DEF Tracked, Identified, HasId
<1> QED BY <1>5, <1>7, <1>8 DEF Tracked, Identified, HasId

LEMMA RequestRejectedTracked ==
  ASSUME Typed, Typed', Tracked, NEW c \in Calls, RequestRejected(c)
  PROVE  Tracked'
<1>1. \A d \in Calls :
        /\ calls'[d].id = calls[d].id
        /\ calls'[d].outcome = IF d = c THEN "rejected" ELSE calls[d].outcome
  BY DEF RequestRejected, Typed, ReqTyped, CallRecord
<1>2. calls[c].outcome = "idle" /\ pendingRequests' = pendingRequests
  BY DEF RequestRejected
<1>3. PendingIsTracked'
  BY <1>1, <1>2 DEF Tracked, PendingIsTracked, Pending, Typed, ReqTyped
<1>4. refused' = refused /\ writeQueue' = writeQueue
  BY DEF RequestRejected, writeVars
<1> QED BY <1>1, <1>3, <1>4, IdentifiedKept DEF Tracked

LEMMA FrameSettlesTracked ==
  ASSUME Typed, Typed', Tracked, writeQueue # <<>>, NEW sent \in BOOLEAN, FrameSettles(sent)
  PROVE  Tracked'
<1>1. PendingIsTracked' /\ \A c \in Calls : calls'[c].id = calls[c].id
  BY SettlingTracked, TrackedKept DEF Typed, WriteTyped, Head1, Tracked, Identified, HasId, FrameSettles
<1>2. refused' = refused /\ writeQueue' = Tail(writeQueue)
  BY DEF FrameSettles
<1> QED BY <1>1, <1>2, IdentifiedKept DEF Tracked

LEMMA ReceiveResponseTracked ==
  ASSUME Typed, Typed', Tracked, NEW i \in RequestIds, NEW by \in Calls \cup {NoCall},
         ReceiveResponse(i, by)
  PROVE  Tracked'
<1> DEFINE c == pendingRequests[i]
<1>1. c \in Calls /\ calls \in [Calls -> CallRecord]
  BY DEF Typed, ReqTyped, ReceiveResponse, Matches
<1>2. PendingIsTracked' /\ \A d \in Calls : calls'[d].id = calls[d].id
  <2>1. CASE calls[c].afterInbound
    BY <2>1, <1>1, TrackedKept DEF ReceiveResponse, CallRecord, Tracked
  <2>2. CASE ~calls[c].afterInbound
    <3>1. /\ calls' = [Settled(c, "response") EXCEPT ![c].responseReceived = TRUE,
                                                     ![c].answeredBy = by]
          /\ pendingRequests' = [pendingRequests EXCEPT ![i] = NoCall]
      BY <2>2 DEF ReceiveResponse
    <3>2. Settled(c, "response") \in [Calls -> CallRecord]
      BY <1>1, SettledTyped DEF Outcomes
    <3>3. \A d \in Calls :
            /\ Settled(c, "response")[d].id = calls[d].id
            /\ Settled(c, "response")[d].outcome = IF d = c THEN "response"
                                                   ELSE calls[d].outcome
      BY <1>1 DEF Settled, CallRecord
    <3>4. \A d \in Calls :
            /\ calls'[d].id = Settled(c, "response")[d].id
            /\ calls'[d].outcome = Settled(c, "response")[d].outcome
      <4> HIDE DEF c
      <4> QED BY <3>1, <3>2 DEF CallRecord
    <3>5. \A j \in RequestIds : pendingRequests'[j] = IF j = i THEN NoCall
                                                      ELSE pendingRequests[j]
      BY <3>1 DEF Typed, ReqTyped
    <3>6. \A d \in Calls : calls'[d].outcome = "pending" =>
                             /\ calls'[d].id \in RequestIds
                             /\ pendingRequests'[calls'[d].id] = d
      BY <3>3, <3>4, <3>5 DEF Tracked, PendingIsTracked, Pending
    <3>7. \A j \in RequestIds : pendingRequests'[j] # NoCall =>
                                 /\ calls'[pendingRequests'[j]].outcome = "pending"
                                 /\ calls'[pendingRequests'[j]].id = j
      BY <1>1, <3>3, <3>4, <3>5 DEF Tracked, PendingIsTracked, Pending, Typed, ReqTyped
    <3> QED BY <3>3, <3>4, <3>6, <3>7 DEF PendingIsTracked, Pending
  <2> QED BY <2>1, <2>2
<1>3. refused' = refused /\ writeQueue' = writeQueue
  BY DEF ReceiveResponse, writeVars
<1> QED BY <1>2, <1>3, IdentifiedKept DEF Tracked

LEMMA StartWriteTracked ==
  ASSUME Typed, Typed', Tracked, StartWrite
  PROVE  Tracked'
<1>1. \A c \in Calls : calls'[c].id = calls[c].id /\ calls'[c].outcome = calls[c].outcome
  <2>1. calls \in [Calls -> CallRecord]
    BY DEF Typed, ReqTyped
  <2>2. CASE Head1.kind = "request"
    <3> DEFINE d == pendingRequests[calls[Head1.of].id]
    <3>1. calls' = [calls EXCEPT ![d].writeStarted = TRUE]
      BY <2>2 DEF StartWrite
    <3> HIDE DEF d
    <3> QED BY <2>1, <3>1 DEF CallRecord
  <2>3. CASE Head1.kind # "request"
    BY <2>3 DEF StartWrite
  <2> QED BY <2>2, <2>3
<1>2. pendingRequests' = pendingRequests /\ refused' = refused /\ writeQueue' = writeQueue
  BY DEF StartWrite
<1> QED BY <1>1, <1>2, TrackedKept, IdentifiedKept DEF Tracked

LEMMA ConsumerNextTracked ==
  ASSUME Typed, Typed', Tracked, ConsumerNext
  PROVE  Tracked'
<1>1. \A c \in Calls : calls'[c].id = calls[c].id /\ calls'[c].outcome = calls[c].outcome
  BY DEF ConsumerNext, Acknowledge, Typed, ReqTyped, CallRecord
<1>2. pendingRequests' = pendingRequests /\ refused' = refused /\ writeQueue' = writeQueue
  BY DEF ConsumerNext, writeVars
<1> QED BY <1>1, <1>2, TrackedKept, IdentifiedKept DEF Tracked

(* What settling a call changes. *)
LEMMA SettledFields ==
  ASSUME calls \in [Calls -> CallRecord], NEW d, NEW outcome \in Outcomes
  PROVE  /\ Settled(d, outcome) \in [Calls -> CallRecord]
         /\ \A c \in Calls :
              /\ Settled(d, outcome)[c].id = calls[c].id
              /\ Settled(d, outcome)[c].target = calls[c].target
              /\ Settled(d, outcome)[c].afterInbound = calls[c].afterInbound
              /\ Settled(d, outcome)[c].outcome = IF c = d THEN outcome ELSE calls[c].outcome
              /\ Settled(d, outcome)[c].barrier =
                   IF c = d /\ calls[c].barrier = "waiting" THEN "released"
                   ELSE calls[c].barrier
<1>1. Settled(d, outcome) \in [Calls -> CallRecord]
  BY SettledTyped
<1>2. \A c \in Calls : calls[c] \in CallRecord
  OBVIOUS
<1> QED BY <1>1, <1>2 DEF Settled, CallRecord

(* The continuation of a barrier settles what holds the identifier. *)
LEMMA BarrierPassedFields ==
  ASSUME Typed, PendingIsTracked, Numbered, NEW c \in Calls, BarrierPassed(c)
  PROVE  \E d \in Calls \cup {NoCall} :
           /\ d = pendingRequests[calls[c].id] /\ calls[c].id \in RequestIds
           /\ d # NoCall => Pending(d) /\ calls[d].id = calls[c].id
           /\ pendingRequests' = [pendingRequests EXCEPT ![calls[c].id] = NoCall]
           /\ \A e \in Calls :
                /\ calls'[e].id = calls[e].id
                /\ calls'[e].target = calls[e].target
                /\ calls'[e].afterInbound = calls[e].afterInbound
                /\ calls'[e].outcome = IF e = d THEN "response" ELSE calls[e].outcome
                /\ calls'[e].barrier = IF e = c THEN "none"
                                       ELSE IF e = d /\ calls[e].barrier = "waiting"
                                       THEN "released" ELSE calls[e].barrier
<1>0. PICK d : d = pendingRequests[calls[c].id]
  OBVIOUS
<1>1. calls[c].id \in RequestIds
  BY DEF BarrierPassed, Numbered, HasId
<1>2. d \in Calls \cup {NoCall} /\ (d # NoCall => Pending(d) /\ calls[d].id = calls[c].id)
  BY <1>0, <1>1 DEF PendingIsTracked, Typed, ReqTyped
<1>3. calls \in [Calls -> CallRecord]
  BY DEF Typed, ReqTyped
<1>4. CASE d = NoCall
  <2>1. calls' = [calls EXCEPT ![c].barrier = "none"] /\ pendingRequests' = pendingRequests
    BY <1>0, <1>4 DEF BarrierPassed
  <2>2. \A e \in Calls :
          /\ calls'[e].id = calls[e].id /\ calls'[e].target = calls[e].target
          /\ calls'[e].afterInbound = calls[e].afterInbound
          /\ calls'[e].outcome = calls[e].outcome
          /\ calls'[e].barrier = IF e = c THEN "none" ELSE calls[e].barrier
    BY <1>3, <2>1 DEF CallRecord
  <2>3. pendingRequests' = [pendingRequests EXCEPT ![calls[c].id] = NoCall]
    BY <1>0, <1>1, <1>4, <2>1 DEF Typed, ReqTyped
  <2> QED BY <1>0, <1>1, <1>2, <1>4, <2>2, <2>3, NullAssumption DEF NullAssumption
<1>5. CASE d # NoCall
  <2> DEFINE S == Settled(d, "response")
  <2>1. /\ calls' = [S EXCEPT ![d].answeredBy = calls[c].answeredBy, ![c].barrier = "none"]
        /\ pendingRequests' = [pendingRequests EXCEPT ![calls[c].id] = NoCall]
    BY <1>0, <1>5 DEF BarrierPassed
  <2>2. /\ S \in [Calls -> CallRecord]
        /\ \A e \in Calls :
             /\ S[e].id = calls[e].id /\ S[e].target = calls[e].target
             /\ S[e].afterInbound = calls[e].afterInbound
             /\ S[e].outcome = IF e = d THEN "response" ELSE calls[e].outcome
             /\ S[e].barrier = IF e = d /\ calls[e].barrier = "waiting" THEN "released"
                               ELSE calls[e].barrier
    BY <1>3, SettledFields DEF Outcomes
  <2> HIDE DEF S
  <2>3. \A e \in Calls :
          /\ calls'[e].id = S[e].id /\ calls'[e].target = S[e].target
          /\ calls'[e].afterInbound = S[e].afterInbound /\ calls'[e].outcome = S[e].outcome
          /\ calls'[e].barrier = IF e = c THEN "none" ELSE S[e].barrier
    BY <2>1, <2>2 DEF CallRecord
  <2>4. \A e \in Calls :
          /\ calls'[e].id = calls[e].id
          /\ calls'[e].target = calls[e].target
          /\ calls'[e].afterInbound = calls[e].afterInbound
          /\ calls'[e].outcome = IF e = d THEN "response" ELSE calls[e].outcome
          /\ calls'[e].barrier = IF e = c THEN "none"
                                 ELSE IF e = d /\ calls[e].barrier = "waiting"
                                 THEN "released" ELSE calls[e].barrier
    BY <2>2, <2>3
  <2> QED BY <1>0, <1>1, <1>2, <2>1, <2>4
<1> QED BY <1>4, <1>5

LEMMA BarrierPassedTracked ==
  ASSUME Typed, Typed', Tracked, Numbered, NEW c \in Calls, BarrierPassed(c)
  PROVE  Tracked'
<1>1. PICK d \in Calls \cup {NoCall} :
        /\ d = pendingRequests[calls[c].id] /\ calls[c].id \in RequestIds
        /\ d # NoCall => Pending(d) /\ calls[d].id = calls[c].id
        /\ pendingRequests' = [pendingRequests EXCEPT ![calls[c].id] = NoCall]
        /\ \A e \in Calls :
             /\ calls'[e].id = calls[e].id
             /\ calls'[e].outcome = IF e = d THEN "response" ELSE calls[e].outcome
  BY BarrierPassedFields DEF Tracked
<1>2. \A i \in RequestIds :
        pendingRequests'[i] = IF i = calls[c].id THEN NoCall ELSE pendingRequests[i]
  BY <1>1 DEF Typed, ReqTyped
<1>3. \A e \in Calls : Pending(e)' => /\ calls'[e].id \in RequestIds
                                      /\ pendingRequests'[calls'[e].id] = e
  BY <1>1, <1>2 DEF Tracked, PendingIsTracked, Pending
<1>4. \A i \in RequestIds : pendingRequests'[i] # NoCall =>
                             /\ calls'[pendingRequests'[i]].outcome = "pending"
                             /\ calls'[pendingRequests'[i]].id = i
  BY <1>1, <1>2 DEF Tracked, PendingIsTracked, Pending, Typed, ReqTyped
<1>5. PendingIsTracked' /\ refused' = refused /\ writeQueue' = writeQueue
  BY <1>3, <1>4 DEF PendingIsTracked, Pending, BarrierPassed, writeVars
<1> QED BY <1>1, <1>5, IdentifiedKept DEF Tracked

LEMMA StepTracked == Typed /\ Typed' /\ Numbered /\ Tracked /\ [Next]_vars => Tracked'
<1> SUFFICES ASSUME Typed, Typed', Numbered, Tracked, [Next]_vars PROVE Tracked'
  OBVIOUS
<1>1. ASSUME Terminate, refused' = refused, writeQueue' = writeQueue PROVE Tracked'
  BY <1>1, TerminateTracked, IdentifiedKept DEF Tracked
<1>2. ASSUME UNCHANGED <<calls, pendingRequests, refused, writeQueue>> PROVE Tracked'
  BY <1>2, TrackedKept, IdentifiedKept DEF Tracked
<1>3. ASSUME NEW id \in RequestIds, NEW outcome \in Outcomes, outcome # "pending",
             SettlePending(id, outcome), refused' \subseteq refused,
             writeQueue' = writeQueue
      PROVE  Tracked'
  BY <1>3, SettlingTracked, IdentifiedKept DEF Tracked
<1>4. ASSUME NEW c \in Calls, NEW b \in BOOLEAN, Request(c, b) PROVE Tracked'
  BY <1>4, RequestTracked
<1>5. ASSUME NEW c \in Calls, RequestRejected(c) PROVE Tracked'
  BY <1>5, RequestRejectedTracked
<1>6. ASSUME NEW c \in Calls, RequestAborted(c) \/ RequestTimeout(c) PROVE Tracked'
  BY <1>6, <1>3 DEF RequestAborted, RequestTimeout, LocalEnd, Tracked, PendingIsTracked, writeVars, Outcomes
<1>22. ASSUME NEW c \in Calls, BarrierPassed(c) PROVE Tracked'
  BY <1>22, BarrierPassedTracked
<1>7. ASSUME NEW c \in Calls, RefusedWrite(c) PROVE Tracked'
  BY <1>7, <1>3 DEF RefusedWrite, Tracked, Identified, HasId, Outcomes, writeVars
<1>8. ASSUME NEW n \in Notices, Notify(n) PROVE Tracked'
  BY <1>8, <1>2, TrackedKept, IdentifiedKept DEF Frames, Notify, reqVars, Tracked
<1>9. ASSUME NEW k \in InboundIds, Respond(k) PROVE Tracked'
  BY <1>9, <1>2, TrackedKept, IdentifiedKept DEF Frames, Respond, reqVars, Tracked
<1>10. ASSUME NEW k \in InboundIds, AbandonInboundRequest(k) \/ RefusedResponse(k)
       PROVE  Tracked'
  BY <1>2, <1>10 DEF AbandonInboundRequest, RefusedResponse, reqVars, writeVars
<1>11. CASE ConsumerNext
  BY <1>11, ConsumerNextTracked
<1>12. CASE ConsumerReturn
  BY <1>1, <1>2, <1>12 DEF ConsumerReturn
<1>13. ASSUME NEW x \in Closers, Close(x) PROVE Tracked'
  BY <1>1, <1>2, <1>13 DEF Close
<1>14. ASSUME NEW k \in InboundIds \cup {NoId}, ReceiveMessage(k) PROVE Tracked'
  BY <1>2, <1>14 DEF ReceiveMessage, reqVars, writeVars
<1>15. CASE Fail \/ \E k \in InboundIds \cup {NoId} : ReceiveOverLimit(k)
  BY <1>1, <1>15 DEF Fail, ReceiveOverLimit
<1>16. ASSUME NEW i \in RequestIds, NEW by \in Calls \cup {NoCall}, ReceiveResponse(i, by)
       PROVE  Tracked'
  BY <1>16, ReceiveResponseTracked
<1>17. CASE StartWrite
  BY <1>17, StartWriteTracked
<1>18. CASE WriteFlushed \/ SkipWrite \/ RejectWrite
  BY <1>18, FrameSettlesTracked DEF WriteFlushed, SkipWrite, RejectWrite, Typed, WriteTyped
<1>19. CASE CleanupSettles \/ \E x \in Closers : CloseSettles(x)
  BY <1>2, <1>19 DEF CleanupSettles, CloseSettles, reqVars, writeVars
<1>20. CASE UNCHANGED vars
  BY <1>2, <1>20 DEF vars, reqVars, writeVars
<1>21. ASSUME NEW i \in RequestIds, UnmatchedResponse(i) PROVE Tracked'
  BY <1>20, <1>21 DEF UnmatchedResponse
<1> QED
  BY <1>4, <1>5, <1>6, <1>7, <1>8, <1>9, <1>10, <1>11, <1>12, <1>13, <1>14, <1>15,
     <1>16, <1>17, <1>18, <1>19, <1>20, <1>21, <1>22
  DEF Next, HostStep, PeerStep, LoopStep

(* Steps that give no identifier and end or answer pending calls only. *)
NumberKept(c) ==
  /\ calls'[c].id = calls[c].id
  /\ calls'[c].afterInbound = calls[c].afterInbound
  /\ Unborn(c)' <=> Unborn(c)
  /\ calls'[c].barrier # "none" => \/ calls[c].barrier # "none"
                                   \/ ~Unborn(c) /\ calls[c].afterInbound

LEMMA NumberedKept ==
  ASSUME Numbered, \A c \in Calls : NumberKept(c)
  PROVE  Numbered'
  BY DEF Numbered, NumberKept, HasId

LEMMA SettlingNumbered ==
  ASSUME Typed, PendingIsTracked, Numbered, NEW id \in RequestIds,
         NEW outcome \in Outcomes \ {"idle", "rejected"}, SettlePending(id, outcome)
  PROVE  Numbered'
<1>0. PICK d : d = pendingRequests[id]
  OBVIOUS
<1>1. CASE d = NoCall
  BY <1>0, <1>1, NumberedKept DEF SettlePending, NumberKept, Unborn
<1>2. CASE d # NoCall
  BY <1>0, <1>2, SettledFields, NumberedKept DEF PendingIsTracked, Typed, ReqTyped, SettlePending, NumberKept, Unborn, Pending
<1> QED BY <1>1, <1>2

LEMMA RequestNumbered ==
  ASSUME Typed, Numbered, NEW c \in Calls, NEW b \in BOOLEAN, Request(c, b)
  PROVE  Numbered'
<1>1. PICK id \in RequestIds :
        calls' = [calls EXCEPT ![c].outcome = "pending", ![c].id = id, ![c].afterInbound = b]
  BY DEF Request
<1>2. \A d \in Calls :
        /\ d # c => calls'[d] = calls[d]
        /\ calls'[c].outcome = "pending" /\ calls'[c].id = id
        /\ calls'[c].barrier = calls[c].barrier
  BY <1>1 DEF Typed, ReqTyped, CallRecord
<1>3. 0 \notin RequestIds /\ calls[c].outcome = "idle"
  BY LimitsAssumption DEF LimitsAssumption, RequestIds, Request
<1>4. calls[c].barrier = "none"
  BY <1>3 DEF Numbered, Unborn, HasId
<1> QED BY <1>2, <1>4 DEF Numbered, Unborn, HasId

LEMMA RequestRejectedNumbered ==
  ASSUME Typed, Numbered, NEW c \in Calls, RequestRejected(c)
  PROVE  Numbered'
<1>1. calls[c].outcome = "idle"
  BY DEF RequestRejected
<1>2. \A d \in Calls : /\ calls'[d].id = calls[d].id
                       /\ calls'[d].afterInbound = calls[d].afterInbound
                       /\ calls'[d].barrier = calls[d].barrier
                       /\ calls'[d].outcome = IF d = c THEN "rejected" ELSE calls[d].outcome
  BY DEF RequestRejected, Typed, ReqTyped, CallRecord
<1> QED BY <1>1, <1>2, NumberedKept DEF NumberKept, Unborn

LEMMA TerminateNumbered ==
  ASSUME Typed, Numbered, Terminate
  PROVE  Numbered'
<1>1. \A c \in Calls : /\ calls'[c].id = calls[c].id
                       /\ calls'[c].afterInbound = calls[c].afterInbound
                       /\ calls'[c].outcome = IF Pending(c) THEN "terminated"
                                              ELSE calls[c].outcome
                       /\ calls'[c].barrier = IF Pending(c) THEN "none" ELSE calls[c].barrier
  BY DEF Terminate, Typed, ReqTyped, CallRecord
<1> QED BY <1>1, NumberedKept DEF NumberKept, Unborn, Pending

LEMMA ReceiveResponseNumbered ==
  ASSUME Typed, Tracked, Numbered, NEW i \in RequestIds, NEW by \in Calls \cup {NoCall},
         ReceiveResponse(i, by)
  PROVE  Numbered'
<1>0. PICK c : c = pendingRequests[i]
  OBVIOUS
<1>1. c \in Calls /\ calls \in [Calls -> CallRecord] /\ Pending(c)
  BY <1>0 DEF Typed, ReqTyped, ReceiveResponse, Matches, Tracked, PendingIsTracked
<1>2. CASE calls[c].afterInbound
  BY <1>0, <1>2, <1>1, NumberedKept DEF ReceiveResponse, CallRecord, NumberKept, Unborn, Pending
<1>3. CASE ~calls[c].afterInbound
  <2> DEFINE S == Settled(c, "response")
  <2>1. calls' = [S EXCEPT ![c].responseReceived = TRUE, ![c].answeredBy = by]
    BY <1>0, <1>3 DEF ReceiveResponse
  <2>2. /\ S \in [Calls -> CallRecord]
        /\ \A d \in Calls :
             /\ S[d].id = calls[d].id /\ S[d].afterInbound = calls[d].afterInbound
             /\ S[d].outcome = IF d = c THEN "response" ELSE calls[d].outcome
             /\ S[d].barrier = IF d = c /\ calls[d].barrier = "waiting" THEN "released"
                               ELSE calls[d].barrier
    BY <1>1, SettledFields DEF Outcomes
  <2> HIDE DEF S
  <2>3. \A d \in Calls : /\ calls'[d].id = S[d].id
                         /\ calls'[d].afterInbound = S[d].afterInbound
                         /\ calls'[d].outcome = S[d].outcome
                         /\ calls'[d].barrier = S[d].barrier
    BY <2>1, <2>2 DEF CallRecord
  <2>4. \A d \in Calls : NumberKept(d)
    BY <1>1, <2>2, <2>3 DEF NumberKept, Unborn, Pending
  <2> QED BY <2>4, NumberedKept
<1> QED BY <1>2, <1>3

LEMMA StepNumbered == Typed /\ Numbered /\ Tracked /\ [Next]_vars => Numbered'
<1> SUFFICES ASSUME Typed, Numbered, Tracked, [Next]_vars PROVE Numbered'
  OBVIOUS
<1>1. ASSUME UNCHANGED calls PROVE Numbered'
  BY <1>1, NumberedKept DEF NumberKept, Unborn
<1>2. ASSUME NEW c \in Calls, NEW b \in BOOLEAN, Request(c, b) PROVE Numbered'
  BY <1>2, RequestNumbered
<1>3. ASSUME NEW c \in Calls, RequestRejected(c) PROVE Numbered'
  BY <1>3, RequestRejectedNumbered
<1>4. ASSUME NEW c \in Calls, RequestAborted(c) \/ RequestTimeout(c) PROVE Numbered'
  BY <1>4, SettlingNumbered
  DEF RequestAborted, RequestTimeout, LocalEnd, Tracked, PendingIsTracked, Outcomes
<1>5. ASSUME NEW c \in Calls, RefusedWrite(c) PROVE Numbered'
  BY <1>5, SettlingNumbered DEF RefusedWrite, Tracked, Identified, HasId, Outcomes
<1>6. ASSUME NEW c \in Calls, BarrierPassed(c) PROVE Numbered'
  BY <1>6, BarrierPassedFields, NullAssumption, NumberedKept DEF Tracked, NullAssumption, NumberKept, Unborn, Pending
<1>7. CASE WriteFlushed \/ SkipWrite \/ RejectWrite
  <2>1. writeQueue # <<>>
    BY <1>7 DEF WriteFlushed, SkipWrite, RejectWrite, Typed, WriteTyped
  <2>2. PICK sent \in BOOLEAN : FrameSettles(sent)
    BY <1>7 DEF WriteFlushed, SkipWrite, RejectWrite
  <2>3. CASE Head1.kind = "request" /\ ~sent
    BY <2>1, <2>2, <2>3, SettlingNumbered
    DEF Head1, Tracked, Identified, HasId, Typed, WriteTyped, FrameSettles, Outcomes
  <2>4. CASE ~(Head1.kind = "request" /\ ~sent)
    BY <1>1, <2>2, <2>4 DEF FrameSettles
  <2> QED BY <2>3, <2>4
<1>8. CASE StartWrite
  <2>1. CASE Head1.kind = "request"
    <3> DEFINE d == pendingRequests[calls[Head1.of].id]
    <3>1. calls' = [calls EXCEPT ![d].writeStarted = TRUE]
      BY <1>8, <2>1 DEF StartWrite
    <3> HIDE DEF d
    <3> QED BY <3>1, NumberedKept DEF Typed, ReqTyped, CallRecord, NumberKept, Unborn
  <2>2. CASE Head1.kind # "request"
    BY <1>1, <1>8, <2>2 DEF StartWrite
  <2> QED BY <2>1, <2>2
<1>9. CASE ConsumerNext
  BY <1>9, NumberedKept DEF ConsumerNext, Acknowledge, Typed, ReqTyped, CallRecord, NumberKept, Unborn
<1>10. CASE ConsumerReturn \/ Fail \/ \E x \in Closers : Close(x)
  BY <1>1, <1>10, TerminateNumbered DEF ConsumerReturn, Fail, Close
<1>11. ASSUME NEW k \in InboundIds \cup {NoId}, ReceiveMessage(k) \/ ReceiveOverLimit(k)
       PROVE  Numbered'
  BY <1>1, <1>11, TerminateNumbered DEF ReceiveMessage, ReceiveOverLimit, reqVars
<1>12. CASE \/ \E n \in Notices : Notify(n)
            \/ \E k \in InboundIds : Respond(k) \/ AbandonInboundRequest(k) \/ RefusedResponse(k)
            \/ CleanupSettles \/ \E x \in Closers : CloseSettles(x)
  BY <1>1, <1>12 DEF Notify, Respond, AbandonInboundRequest, RefusedResponse, CleanupSettles,
                     CloseSettles, reqVars
<1>13. ASSUME NEW i \in RequestIds, NEW by \in Calls \cup {NoCall}, ReceiveResponse(i, by)
       PROVE  Numbered'
  BY <1>13, ReceiveResponseNumbered
<1>14. CASE UNCHANGED vars \/ \E i \in RequestIds : UnmatchedResponse(i)
  BY <1>1, <1>14 DEF vars, reqVars, UnmatchedResponse
<1> QED
  BY <1>2, <1>3, <1>4, <1>5, <1>6, <1>7, <1>8, <1>9, <1>10, <1>11, <1>12, <1>13, <1>14
  DEF Next, HostStep, PeerStep, LoopStep

LEMMA InvTracked == Spec => [](Numbered /\ Tracked)
<1>1. Init => Numbered /\ Tracked
  BY DEF Init, Numbered, Unborn, Tracked, PendingIsTracked, Pending, Identified
<1> QED BY <1>1, StepNumbered, StepTracked, InvTyped, PTL DEF Spec

(* No request can wait where no response, timer, abort or end of the       *)
(* connection would find it, also when identifiers wrap around.            *)
THEOREM PendingTracked == Spec => []PendingIsTracked
<1>1. Tracked => PendingIsTracked
  BY DEF Tracked
<1> QED BY <1>1, InvTracked, PTL
----------------------------------------------------------------------------
(* The end of the connection: TerminationReleasesAll.  terminate() empties *)
(* what could wait, and no later step fills it again.                      *)

LEMMA TerminateClears ==
  ASSUME Typed, Terminate
  PROVE  /\ \A c \in Calls : ~Pending(c)'
         /\ pendingInbound' = {} /\ responding' = {} /\ abandoning' = {} /\ inboundQueue' = <<>>
         /\ writing' # "active" /\ cleanup' # "none"
<1>1. calls \in [Calls -> CallRecord]
  BY DEF Typed, ReqTyped
<1>2. \A c \in Calls : calls'[c].id = calls[c].id /\ calls'[c].outcome # "pending"
  BY <1>1 DEF Terminate, Pending, CallRecord
<1>3. writing' # "active"
  BY DEF Terminate
<1>4. cleanup' # "none"
  BY DEF Terminate
<1>5. pendingInbound' = {} /\ responding' = {} /\ abandoning' = {} /\ inboundQueue' = <<>>
  BY DEF Terminate
<1> QED BY <1>2, <1>3, <1>4, <1>5 DEF Pending

LEMMA TerminateReleases ==
  ASSUME Typed, Terminate, consumer'.state # "waiting"
  PROVE  TerminationReleasesAll'
BY TerminateClears DEF TerminationReleasesAll

NoneRevived ==
  \A c \in Calls : calls'[c].outcome = "pending" => calls[c].outcome = "pending"

LEMMA SettlingRevivesNone ==
  ASSUME Typed, NEW id \in RequestIds, NEW outcome, outcome # "pending",
         SettlePending(id, outcome)
  PROVE  NoneRevived
<1>1. CASE pendingRequests[id] = NoCall
  BY <1>1 DEF SettlePending, NoneRevived
<1>2. CASE pendingRequests[id] # NoCall
  BY <1>2 DEF SettlePending, Typed, ReqTyped, Settled, NoneRevived, CallRecord
<1> QED BY <1>1, <1>2

(* What a step on a closed connection may do. *)
LEMMA ClosedKept ==
  ASSUME TerminationReleasesAll, ~open, NoneRevived,
         pendingInbound' \subseteq pendingInbound, responding' \subseteq responding,
         abandoning' \subseteq abandoning, inboundQueue' = inboundQueue,
         writing' # "active", consumer'.state # "waiting", cleanup' # "none"
  PROVE  TerminationReleasesAll'
  BY DEF TerminationReleasesAll, NoneRevived, Pending

LEMMA FrameSettlesReleased ==
  ASSUME Typed, Tracked, TerminationReleasesAll, ~open, NEW sent \in BOOLEAN,
         writeQueue # <<>>, FrameSettles(sent)
  PROVE  TerminationReleasesAll'
<1>1. NoneRevived
  <2>1. CASE Head1.kind = "request" /\ ~sent
    BY <2>1, SettlingRevivesNone DEF Head1, Tracked, Identified, HasId, Typed, WriteTyped, FrameSettles
  <2>2. CASE ~(Head1.kind = "request" /\ ~sent)
    BY <2>2 DEF FrameSettles, NoneRevived
  <2> QED BY <2>1, <2>2
<1>2. /\ pendingInbound' \subseteq pendingInbound /\ responding' \subseteq responding
      /\ abandoning' \subseteq abandoning
  BY DEF FrameSettles, ResponseWriteSettles
<1>3. UNCHANGED <<inboundQueue, consumer, cleanup>> /\ writing' # "active"
  BY DEF FrameSettles, inVars, endVars
<1>4. consumer.state # "waiting" /\ cleanup # "none"
  BY DEF TerminationReleasesAll
<1> QED BY <1>1, <1>2, <1>3, <1>4, ClosedKept

(* The steps that change nothing TerminationReleasesAll speaks of, or only *)
(* drop what it says is gone. *)
LEMMA RestReleased ==
  ASSUME TerminationReleasesAll, ~open, UNCHANGED <<inVars, cleanup, writing>>, NoneRevived,
         pendingInbound' \subseteq pendingInbound, responding' \subseteq responding,
         abandoning' \subseteq abandoning
  PROVE  TerminationReleasesAll'
  BY ClosedKept DEF TerminationReleasesAll, inVars

LEMMA StepReleased ==
  Typed /\ Numbered /\ Tracked /\ TerminationReleasesAll /\ [Next]_vars => TerminationReleasesAll'
<1> SUFFICES ASSUME Typed, Numbered, Tracked, TerminationReleasesAll, [Next]_vars, ~open'
             PROVE  TerminationReleasesAll'
  BY DEF TerminationReleasesAll
<1>1. ASSUME Terminate, EndWaitingConsumer PROVE TerminationReleasesAll'
  BY <1>1, TerminateReleases DEF EndWaitingConsumer
<1>2. ASSUME ~open, UNCHANGED <<calls, inVars, idVars, writing, cleanup>>
      PROVE  TerminationReleasesAll'
  BY <1>2, RestReleased DEF NoneRevived, idVars
<1>3. ASSUME NEW id \in RequestIds, NEW outcome, outcome # "pending", ~open,
             SettlePending(id, outcome), UNCHANGED <<inVars, idVars, writing, cleanup>>
      PROVE  TerminationReleasesAll'
  BY <1>3, SettlingRevivesNone, RestReleased DEF idVars
<1>4. ASSUME NEW c \in Calls, RequestRejected(c) PROVE TerminationReleasesAll'
  BY <1>4, RestReleased DEF RequestRejected, NoneRevived, Typed, ReqTyped, CallRecord, idVars, endVars, writeVars
<1>5. ASSUME NEW c \in Calls, RequestAborted(c) \/ RequestTimeout(c)
      PROVE  TerminationReleasesAll'
  BY <1>5 DEF RequestAborted, RequestTimeout, LocalEnd, endVars, TerminationReleasesAll
<1>24. ASSUME NEW c \in Calls, BarrierPassed(c) PROVE TerminationReleasesAll'
  BY <1>24, BarrierPassedFields, RestReleased
  DEF BarrierPassed, NoneRevived, Tracked, endVars, writeVars, idVars
<1>6. ASSUME NEW c \in Calls, RefusedWrite(c) PROVE TerminationReleasesAll'
  BY <1>6, <1>3 DEF RefusedWrite, Tracked, Identified, HasId, endVars, writeVars
<1>7. ASSUME NEW n \in Notices, Notify(n) PROVE TerminationReleasesAll'
  BY <1>2, <1>7 DEF Notify, reqVars, endVars
<1>8. ASSUME NEW k \in InboundIds, AbandonInboundRequest(k) PROVE TerminationReleasesAll'
  BY <1>8 DEF AbandonInboundRequest, TerminationReleasesAll, endVars
<1>9. ASSUME NEW k \in InboundIds, RefusedResponse(k) PROVE TerminationReleasesAll'
  BY <1>9, RestReleased DEF RefusedResponse, NoneRevived, reqVars, endVars, writeVars, ResponseWriteSettles
<1>10. CASE ConsumerNext
  BY <1>10, ClosedKept
     DEF ConsumerNext, endVars, writeVars, TerminationReleasesAll, Acknowledge, NoneRevived, Typed, ReqTyped,
        CallRecord, idVars
<1>11. CASE ConsumerReturn
  BY <1>11, TerminateReleases, ClosedKept DEF ConsumerReturn, NoneRevived, TerminationReleasesAll
<1>12. ASSUME NEW x \in Closers, Close(x) PROVE TerminationReleasesAll'
  BY <1>1, <1>12, <1>2 DEF Close, inVars, idVars
<1>13. CASE Fail \/ \E k \in InboundIds \cup {NoId} : ReceiveOverLimit(k)
  BY <1>1, <1>13 DEF Fail, ReceiveOverLimit
<1>14. CASE WriteFlushed \/ SkipWrite \/ RejectWrite
  <2>1. writeQueue # <<>>
    BY <1>14 DEF WriteFlushed, SkipWrite, RejectWrite, Typed, WriteTyped
  <2>2. FrameSettles(TRUE) \/ FrameSettles(FALSE)
    BY <1>14 DEF WriteFlushed, SkipWrite, RejectWrite
  <2>3. ~open
    BY <2>2 DEF FrameSettles, endVars
  <2> QED BY <2>1, <2>2, <2>3, FrameSettlesReleased
<1>15. ASSUME CleanupSettles \/ \E x \in Closers : CloseSettles(x)
       PROVE  TerminationReleasesAll'
  BY <1>15, ClosedKept DEF CleanupSettles, CloseSettles, NoneRevived, reqVars, writeVars, TerminationReleasesAll, inVars, idVars
<1>16. CASE UNCHANGED vars
  BY <1>2, <1>16 DEF vars, reqVars, writeVars, endVars
<1>17. ASSUME NEW i \in RequestIds, UnmatchedResponse(i) PROVE TerminationReleasesAll'
  BY <1>16, <1>17 DEF UnmatchedResponse
(* The other actions need an open connection and leave it open. *)
<1>18. ASSUME open, open' = open PROVE TerminationReleasesAll'
  BY <1>18
<1>19. ASSUME NEW c \in Calls, NEW b \in BOOLEAN, Request(c, b) PROVE TerminationReleasesAll'
  BY <1>18, <1>19 DEF Request, endVars
<1>20. ASSUME NEW k \in InboundIds, Respond(k) PROVE TerminationReleasesAll'
  BY <1>18, <1>20 DEF Respond, endVars
<1>21. ASSUME NEW k \in InboundIds \cup {NoId}, ReceiveMessage(k) PROVE TerminationReleasesAll'
  BY <1>18, <1>21 DEF ReceiveMessage, CanReceive, endVars
<1>22. ASSUME NEW i \in RequestIds, NEW by \in Calls \cup {NoCall}, ReceiveResponse(i, by)
       PROVE  TerminationReleasesAll'
  BY <1>18, <1>22 DEF ReceiveResponse, endVars
<1>23. CASE StartWrite
  BY <1>18, <1>23 DEF StartWrite, endVars
<1> QED
  BY <1>4, <1>5, <1>6, <1>7, <1>8, <1>9, <1>10, <1>11, <1>12, <1>13, <1>14, <1>15,
     <1>16, <1>17, <1>19, <1>20, <1>21, <1>22, <1>23, <1>24
  DEF Next, HostStep, PeerStep, LoopStep

(* Whoever ended the connection, nothing is left that waits for the peer,  *)
(* and nothing comes to wait afterwards.                                   *)
THEOREM TerminationReleases == Spec => []TerminationReleasesAll
<1>1. Init => TerminationReleasesAll
  BY DEF Init, TerminationReleasesAll
<1> QED BY <1>1, StepReleased, InvTyped, InvTracked, PTL DEF Spec

-------------------------------------------------------------------------------
(***************************************************************************)
(* The inbound side: AnswersSound, the conjunction of three invariants     *)
(* that are proved one after the other: the order of messages, the         *)
(* barriers, and the reservations of the peer's requests.                  *)
(***************************************************************************)

(* The order of messages. *)

(* InboundInOrder, with what it rests on: the message that the host holds  *)
(* is the next to acknowledge also on a closed connection, and the         *)
(* iterator waits only when nothing is queued.                             *)
InOrder ==
  /\ consumer.state = "yielded" => consumer.held = acknowledged + 1
  /\ consumer.state = "waiting" => inboundQueue = <<>>
  /\ InboundInOrder

LEMMA EndingInOrder ==
  ASSUME InOrder, open' = FALSE, acknowledged' = acknowledged, inboundQueue' = <<>>,
         consumer' = consumer \/ consumer'.state = "ended"
  PROVE  InOrder'
  BY DEF InOrder, InboundInOrder

LEMMA InOrderKept ==
  ASSUME InOrder, open' = open, UNCHANGED inVars
  PROVE  InOrder'
  BY DEF InOrder, InboundInOrder, HeldCount, inVars

LEMMA ReceiveMessageInOrder ==
  ASSUME Typed, InOrder, NEW k \in InboundIds \cup {NoId}, ReceiveMessage(k)
  PROVE  InOrder'
<1> DEFINE m == [sequence |-> inboundSequence + 1, id |-> k]
<1>1. /\ open /\ open' = open /\ acknowledged' = acknowledged
      /\ inboundSequence' = inboundSequence + 1 /\ PushInbound(m)
  BY DEF ReceiveMessage, CanReceive, endVars
<1>2. inboundSequence \in Nat /\ acknowledged \in Nat /\ consumer \in ConsumerState
  BY LimitsAssumption DEF LimitsAssumption, Typed, InTyped
<1>3. CASE consumer.state = "waiting"
  BY <1>1, <1>3, <1>2 DEF PushInbound, InOrder, HeldCount, InboundInOrder
<1>4. CASE consumer.state # "waiting"
  <2>1. inboundQueue' = Append(inboundQueue, m) /\ consumer' = consumer
    BY <1>1, <1>4 DEF PushInbound
  <2>2. HeldCount' = HeldCount /\ HeldCount \in Nat
    BY <2>1 DEF HeldCount
  <2>3. m \in Message
    BY <1>2, LimitsAssumption DEF LimitsAssumption, Message, ReceiveMessage, CanReceive
  <2>4. inboundQueue \in Seq(Message)
    BY DEF Typed, InTyped
  <2>5. /\ Len(inboundQueue') = Len(inboundQueue) + 1
        /\ \A i \in 1..Len(inboundQueue) : inboundQueue'[i] = inboundQueue[i]
        /\ inboundQueue'[Len(inboundQueue) + 1] = m
    BY <2>1, <2>3, <2>4
  <2>6. inboundSequence = acknowledged + HeldCount + Len(inboundQueue)
    BY <1>1 DEF InOrder, InboundInOrder
  <2>7. Len(inboundQueue) \in Nat
    BY <2>4
  <2>8. \A i \in 1..Len(inboundQueue') :
          inboundQueue'[i].sequence = acknowledged' + HeldCount' + i
    BY SMTT(40), <1>1, <2>2, <2>5, <1>2, <2>6, <2>7 DEF InOrder, InboundInOrder
  <2>9. inboundSequence' = acknowledged' + HeldCount' + Len(inboundQueue')
    BY <1>1, <1>2, <2>2, <2>5, <2>6, <2>7
  <2> QED BY <1>1, <1>4, <2>1, <2>8, <2>9 DEF InOrder, InboundInOrder
<1> QED BY <1>3, <1>4

LEMMA ConsumerNextInOrder ==
  ASSUME Typed, InOrder, TerminationReleasesAll, ConsumerNext
  PROVE  InOrder' /\ acknowledged' \in Nat /\ acknowledged' >= acknowledged
                  /\ acknowledged' = acknowledged + HeldCount
<1>1. inboundSequence \in Nat /\ acknowledged \in Nat /\ consumer \in ConsumerState
  BY LimitsAssumption DEF LimitsAssumption, Typed, InTyped
<1>2. open' = open /\ inboundSequence' = inboundSequence
  BY DEF ConsumerNext, endVars
<1>3. acknowledged' = acknowledged + HeldCount
  BY <1>1 DEF ConsumerNext, Acknowledge, HeldCount, InOrder
<1>4. HeldCount \in Nat
  BY DEF HeldCount
<1>5. inboundQueue \in Seq(Message)
  BY DEF Typed, InTyped
<1>6. CASE inboundQueue # <<>>
  <2>1. open
    BY <1>6 DEF TerminationReleasesAll
  <2>2. /\ consumer' = [state |-> "yielded", held |-> Head(inboundQueue).sequence]
        /\ inboundQueue' = Tail(inboundQueue)
    BY <1>6 DEF ConsumerNext
  <2>3. /\ Head(inboundQueue) = inboundQueue[1] /\ 1 \in 1..Len(inboundQueue)
        /\ Len(inboundQueue) \in Nat
    BY <1>5, <1>6
  <2>4. /\ Len(inboundQueue') = Len(inboundQueue) - 1
        /\ \A i \in 1..Len(inboundQueue') : inboundQueue'[i] = inboundQueue[i + 1]
    BY <1>5, <1>6, <2>2
  <2>5. HeldCount' = 1
    BY <2>2 DEF HeldCount
  <2>6. consumer'.held = acknowledged' + 1
    BY <1>1, <1>3, <1>4, <2>1, <2>2, <2>3 DEF InOrder, InboundInOrder
  <2>7. \A i \in 1..Len(inboundQueue') :
          inboundQueue'[i].sequence = acknowledged' + HeldCount' + i
    BY <2>3, <2>4, <2>1, <1>1, <1>3, <1>4, <2>5 DEF InOrder, InboundInOrder
  <2>8. inboundSequence' = acknowledged' + HeldCount' + Len(inboundQueue')
    BY <1>1, <1>2, <1>3, <1>4, <2>1, <2>3, <2>4, <2>5 DEF InOrder, InboundInOrder
  <2> QED BY <1>1, <1>3, <1>4, <2>2, <2>6, <2>7, <2>8 DEF InOrder, InboundInOrder
<1>7. CASE inboundQueue = <<>>
  BY <1>7, <1>1, <1>2, <1>3, <1>4 DEF ConsumerNext, HeldCount, InOrder, InboundInOrder
<1> QED BY <1>6, <1>7

LEMMA StepInOrder ==
  Typed /\ TerminationReleasesAll /\ InOrder /\ [Next]_vars => InOrder'
<1> SUFFICES ASSUME Typed, TerminationReleasesAll, InOrder, [Next]_vars PROVE InOrder'
  OBVIOUS
<1>1. ASSUME Terminate, EndWaitingConsumer, acknowledged' = acknowledged PROVE InOrder'
  BY <1>1, EndingInOrder DEF Terminate, EndWaitingConsumer
<1>2. ASSUME open' = open, UNCHANGED inVars PROVE InOrder'
  BY <1>2, InOrderKept
<1>3. CASE ConsumerNext
  BY <1>3, ConsumerNextInOrder
<1>4. CASE ConsumerReturn
  BY <1>4, EndingInOrder DEF ConsumerReturn, Terminate, TerminationReleasesAll, Typed, EndTyped
<1>5. ASSUME NEW x \in Closers, Close(x) PROVE InOrder'
  BY <1>1, <1>5, <1>2 DEF Close, inVars
<1>6. CASE Fail \/ \E k \in InboundIds \cup {NoId} : ReceiveOverLimit(k)
  BY <1>1, <1>6 DEF Fail, ReceiveOverLimit
<1>7. ASSUME NEW k \in InboundIds \cup {NoId}, ReceiveMessage(k) PROVE InOrder'
  BY <1>7, ReceiveMessageInOrder
<1>8. CASE WriteFlushed \/ SkipWrite \/ RejectWrite
  BY <1>2, <1>8 DEF WriteFlushed, SkipWrite, RejectWrite, FrameSettles, endVars
<1>9. CASE \/ \E c \in Calls : \/ \E b \in BOOLEAN : Request(c, b)
                               \/ RequestRejected(c) \/ RequestAborted(c) \/ RequestTimeout(c)
                               \/ RefusedWrite(c) \/ BarrierPassed(c)
           \/ \E n \in Notices : Notify(n)
  BY <1>2, <1>9 DEF Request, RequestRejected, RequestAborted, RequestTimeout, LocalEnd,
                    RefusedWrite, BarrierPassed, Notify, endVars
<1>10. CASE \/ \E k \in InboundIds : Respond(k) \/ AbandonInboundRequest(k) \/ RefusedResponse(k)
            \/ StartWrite \/ CleanupSettles \/ \E x \in Closers : CloseSettles(x)
  BY <1>2, <1>10 DEF Respond, AbandonInboundRequest, RefusedResponse, StartWrite,
                     CleanupSettles, CloseSettles, endVars
<1>11. ASSUME NEW i \in RequestIds, NEW by \in Calls \cup {NoCall}, ReceiveResponse(i, by)
       PROVE  InOrder'
  BY <1>2, <1>11 DEF ReceiveResponse, endVars
<1>12. CASE UNCHANGED vars
  BY <1>2, <1>12 DEF vars, endVars
<1>13. ASSUME NEW i \in RequestIds, UnmatchedResponse(i) PROVE InOrder'
  BY <1>12, <1>13 DEF UnmatchedResponse
<1> QED
  BY <1>3, <1>4, <1>5, <1>6, <1>7, <1>8, <1>9, <1>10, <1>11, <1>12, <1>13
  DEF Next, HostStep, PeerStep, LoopStep
----------------------------------------------------------------------------
(* The barriers. *)

(* A barrier that was released for a request that still waits, and one     *)
(* whose request has its response, waited for the acknowledgement of every *)
(* earlier message.                                                        *)
Passed(c) ==
  \/ Pending(c) /\ calls[c].barrier = "released"
  \/ calls[c].outcome = "response" /\ calls[c].afterInbound /\ ~Shared(c)

Barriers == \A c \in Calls : Passed(c) => acknowledged >= calls[c].target

(* A step that gives no identifier and lets nobody pass. *)
NonePasses(c) ==
  /\ calls'[c].id = calls[c].id
  /\ calls'[c].target = calls[c].target
  /\ Pending(c)' /\ calls'[c].barrier = "released" => Passed(c)
  /\ calls'[c].outcome = "response" /\ calls'[c].afterInbound =>
       Shared(c) \/ Passed(c)

LEMMA BarriersKept ==
  ASSUME Typed, Barriers, acknowledged' = acknowledged, \A c \in Calls : NonePasses(c)
  PROVE  Barriers'
<1>1. \A c \in Calls : Shared(c) => Shared(c)'
  BY DEF NonePasses, Shared
<1>2. \A c \in Calls : Passed(c)' => Passed(c) /\ calls'[c].target = calls[c].target
  BY <1>1 DEF NonePasses, Passed
<1> QED BY <1>2 DEF Barriers

LEMMA SettlingBarriers ==
  ASSUME Typed, Barriers, NEW id \in RequestIds, NEW outcome \in Outcomes \ {"response", "pending"},
         SettlePending(id, outcome), acknowledged' = acknowledged
  PROVE  Barriers'
<1>0. PICK d : d = pendingRequests[id]
  OBVIOUS
<1>1. CASE d = NoCall
  BY <1>0, <1>1, BarriersKept DEF SettlePending, NonePasses, Passed, Pending
<1>2. CASE d # NoCall
  BY <1>0, <1>2, SettledFields, BarriersKept DEF SettlePending, Typed, ReqTyped, NonePasses, Passed, Pending
<1> QED BY <1>1, <1>2

LEMMA BarrierPassedBarriers ==
  ASSUME Typed, Tracked, Numbered, Barriers, NEW c \in Calls, BarrierPassed(c)
  PROVE  Barriers'
<1>1. PICK d \in Calls \cup {NoCall} :
        /\ d = pendingRequests[calls[c].id] /\ calls[c].id \in RequestIds
        /\ d # NoCall => Pending(d) /\ calls[d].id = calls[c].id
        /\ \A e \in Calls :
             /\ calls'[e].id = calls[e].id
             /\ calls'[e].target = calls[e].target
             /\ calls'[e].afterInbound = calls[e].afterInbound
             /\ calls'[e].outcome = IF e = d THEN "response" ELSE calls[e].outcome
             /\ calls'[e].barrier = IF e = c THEN "none"
                                    ELSE IF e = d /\ calls[e].barrier = "waiting"
                                    THEN "released" ELSE calls[e].barrier
  BY BarrierPassedFields DEF Tracked
<1>2. ASSUME NEW e \in Calls PROVE NonePasses(e)
  BY <1>1, NullAssumption DEF NullAssumption, BarrierPassed, NonePasses, Passed, Pending, Shared
<1>3. acknowledged' = acknowledged
  BY DEF BarrierPassed, inVars
<1> QED BY <1>2, <1>3, BarriersKept

LEMMA TerminateBarriers ==
  ASSUME Typed, Barriers, Terminate, acknowledged' = acknowledged
  PROVE  Barriers'
<1>1. \A c \in Calls : /\ calls'[c].id = calls[c].id
                       /\ calls'[c].target = calls[c].target
                       /\ \/ calls'[c] = calls[c] /\ ~Pending(c)
                          \/ calls'[c].outcome = "terminated"
  BY DEF Terminate, Typed, ReqTyped, CallRecord
<1>2. \A c \in Calls : NonePasses(c)
  BY <1>1 DEF NonePasses, Passed, Pending
<1> QED BY <1>2, BarriersKept

LEMMA RequestBarriers ==
  ASSUME Typed, Numbered, Barriers, NEW c \in Calls, NEW b \in BOOLEAN, Request(c, b)
  PROVE  Barriers'
<1>1. PICK id \in RequestIds :
        calls' = [calls EXCEPT ![c].outcome = "pending", ![c].id = id, ![c].afterInbound = b]
  BY DEF Request
<1>2. /\ \A d \in Calls : d # c => calls'[d] = calls[d]
      /\ calls'[c].barrier = calls[c].barrier /\ calls'[c].outcome = "pending"
  BY <1>1 DEF Typed, ReqTyped, CallRecord
<1>3. calls[c].outcome = "idle" /\ calls[c].id = 0 /\ 0 \notin RequestIds
  BY LimitsAssumption DEF LimitsAssumption, RequestIds, Request, Numbered, Unborn
<1>4. calls[c].barrier = "none"
  BY <1>3 DEF Numbered, HasId
<1>5. ASSUME NEW d \in Calls, d # c, calls[d].outcome = "response", Shared(d)
      PROVE  Shared(d)'
  BY <1>3, <1>5, <1>2 DEF Numbered, Unborn, HasId, Shared
<1>6. ASSUME NEW d \in Calls, Passed(d)'
      PROVE  Passed(d) /\ calls'[d].target = calls[d].target
  BY <1>2, <1>4, <1>6, <1>5 DEF Passed, Pending
<1> QED BY <1>6 DEF Barriers, Request, inVars

LEMMA RequestRejectedBarriers ==
  ASSUME Typed, Barriers, NEW c \in Calls, RequestRejected(c)
  PROVE  Barriers'
<1>1. \A d \in Calls : /\ calls'[d].id = calls[d].id
                       /\ calls'[d].target = calls[d].target
                       /\ d # c => calls'[d] = calls[d]
                       /\ calls'[c].outcome = "rejected"
  BY DEF RequestRejected, Typed, ReqTyped, CallRecord
<1>2. \A d \in Calls : NonePasses(d)
  BY <1>1 DEF NonePasses, Passed, Pending
<1> QED BY <1>2, BarriersKept DEF RequestRejected, inVars

LEMMA ReceiveResponseBarriers ==
  ASSUME Typed, Tracked, Barriers, NEW i \in RequestIds, NEW by \in Calls \cup {NoCall},
         ReceiveResponse(i, by)
  PROVE  Barriers'
<1>0. PICK c : c = pendingRequests[i]
  OBVIOUS
<1>1. c \in Calls /\ calls \in [Calls -> CallRecord]
  BY <1>0 DEF Typed, ReqTyped, ReceiveResponse, Matches
<1>2. acknowledged' = acknowledged /\ inboundSequence \in Nat /\ acknowledged \in Nat
  BY LimitsAssumption DEF LimitsAssumption, ReceiveResponse, inVars, Typed, InTyped
<1>3. CASE calls[c].afterInbound
  BY <1>0, <1>3, <1>1, NullAssumption, <1>2
     DEF ReceiveResponse, CallRecord, Tracked, PendingIsTracked, Pending, NullAssumption, Passed, Shared, Barriers
<1>4. CASE ~calls[c].afterInbound
  <2>1. calls' = [Settled(c, "response") EXCEPT ![c].responseReceived = TRUE, ![c].answeredBy = by]
    BY <1>0, <1>4 DEF ReceiveResponse
  <2> DEFINE S == Settled(c, "response")
  <2>2. S \in [Calls -> CallRecord]
    BY <1>1, SettledTyped DEF Outcomes
  <2>3. /\ S[c].outcome = "response" /\ ~S[c].afterInbound
        /\ S[c].id = calls[c].id /\ S[c].target = calls[c].target
        /\ \A d \in Calls : d # c => S[d] = calls[d]
    BY <1>1, <1>4 DEF Settled, CallRecord
  <2> HIDE DEF S
  <2>4. /\ calls'[c].outcome = "response" /\ ~calls'[c].afterInbound
        /\ calls'[c].id = S[c].id /\ calls'[c].target = S[c].target
        /\ \A d \in Calls : d # c => calls'[d] = S[d]
    BY <1>1, <2>1, <2>2, <2>3 DEF CallRecord, S
  <2>5. \A d \in Calls : NonePasses(d)
    BY <2>3, <2>4 DEF NonePasses, Passed, Pending
  <2> QED BY <1>2, <2>5, BarriersKept
<1> QED BY <1>3, <1>4

LEMMA StartWriteBarriers ==
  ASSUME Typed, Barriers, StartWrite
  PROVE  Barriers'
<1>1. calls \in [Calls -> CallRecord]
  BY DEF Typed, ReqTyped
<1>2. \A c \in Calls : /\ calls'[c].id = calls[c].id
                       /\ calls'[c].target = calls[c].target
                       /\ calls'[c].barrier = calls[c].barrier
                       /\ calls'[c].outcome = calls[c].outcome
                       /\ calls'[c].afterInbound = calls[c].afterInbound
  <2>1. CASE Head1.kind = "request"
    <3> DEFINE d == pendingRequests[calls[Head1.of].id]
    <3>1. calls' = [calls EXCEPT ![d].writeStarted = TRUE]
      BY <2>1 DEF StartWrite
    <3> HIDE DEF d
    <3> QED BY <1>1, <3>1 DEF CallRecord
  <2>2. CASE Head1.kind # "request"
    BY <2>2 DEF StartWrite
  <2> QED BY <2>1, <2>2
<1>3. \A c \in Calls : NonePasses(c)
  BY <1>2 DEF NonePasses, Passed, Pending
<1> QED BY <1>3, BarriersKept DEF StartWrite, inVars

LEMMA ConsumerNextBarriers ==
  ASSUME Typed, TerminationReleasesAll, InOrder, Barriers, ConsumerNext
  PROVE  Barriers'
<1>1. /\ acknowledged \in Nat /\ acknowledged' \in Nat /\ acknowledged' >= acknowledged
      /\ acknowledged' = acknowledged + HeldCount
  BY ConsumerNextInOrder, LimitsAssumption DEF LimitsAssumption, Typed, InTyped
<1>2. \A c \in Calls : calls[c].target \in Nat
  BY LimitsAssumption DEF LimitsAssumption, Typed, ReqTyped, CallRecord
<1>3. ASSUME NEW c \in Calls
      PROVE  /\ calls'[c].id = calls[c].id
             /\ calls'[c].target = calls[c].target
             /\ calls'[c].outcome = calls[c].outcome
             /\ calls'[c].afterInbound = calls[c].afterInbound
             /\ calls'[c].barrier = "released" =>
                  calls[c].barrier = "released" \/ calls[c].target <= acknowledged'
  BY DEF ConsumerNext, Acknowledge, Typed, ReqTyped, CallRecord
<1>4. \A c \in Calls : Shared(c) => Shared(c)'
  BY <1>3 DEF Shared
<1>5. ASSUME NEW c \in Calls, Passed(c)'
      PROVE  Passed(c) \/ calls[c].target <= acknowledged'
  BY <1>3, <1>4, <1>5 DEF Passed, Pending
<1> QED BY <1>1, <1>2, <1>3, <1>5 DEF Barriers

LEMMA StepBarriers ==
  Typed /\ Numbered /\ Tracked /\ TerminationReleasesAll /\ InOrder /\ Barriers /\ [Next]_vars => Barriers'
<1> SUFFICES ASSUME Typed, Numbered, Tracked, TerminationReleasesAll, InOrder, Barriers, [Next]_vars
             PROVE  Barriers'
  OBVIOUS
<1>1. ASSUME Terminate, acknowledged' = acknowledged PROVE Barriers'
  BY <1>1, TerminateBarriers
<1>2. ASSUME calls' = calls, acknowledged' = acknowledged PROVE Barriers'
  BY <1>2, BarriersKept DEF NonePasses, Passed, Pending
<1>3. ASSUME NEW id \in RequestIds, NEW outcome \in Outcomes \ {"response", "pending"},
             SettlePending(id, outcome), acknowledged' = acknowledged
      PROVE  Barriers'
  BY <1>3, SettlingBarriers
<1>4. ASSUME NEW c \in Calls, NEW b \in BOOLEAN, Request(c, b) PROVE Barriers'
  BY <1>4, RequestBarriers
<1>5. ASSUME NEW c \in Calls, RequestRejected(c) PROVE Barriers'
  BY <1>5, RequestRejectedBarriers
<1>6. ASSUME NEW c \in Calls, RequestAborted(c) \/ RequestTimeout(c) PROVE Barriers'
  BY <1>6, <1>3 DEF RequestAborted, RequestTimeout, LocalEnd, Tracked, PendingIsTracked, Outcomes, inVars
<1>7. ASSUME NEW c \in Calls, BarrierPassed(c) PROVE Barriers'
  BY <1>7, BarrierPassedBarriers
<1>8. ASSUME NEW c \in Calls, RefusedWrite(c) PROVE Barriers'
  BY <1>8, <1>3 DEF RefusedWrite, Tracked, Identified, HasId, Outcomes, inVars
<1>9. CASE WriteFlushed \/ SkipWrite \/ RejectWrite
  <2>1. writeQueue # <<>>
    BY <1>9 DEF WriteFlushed, SkipWrite, RejectWrite, Typed, WriteTyped
  <2>2. PICK sent \in BOOLEAN : FrameSettles(sent)
    BY <1>9 DEF WriteFlushed, SkipWrite, RejectWrite
  <2>3. CASE Head1.kind = "request" /\ ~sent
    BY <2>1, <2>3, <1>3, <2>2 DEF Head1, Tracked, Identified, HasId, Typed, WriteTyped, FrameSettles, Outcomes, inVars
  <2>4. CASE ~(Head1.kind = "request" /\ ~sent)
    BY <1>2, <2>2, <2>4 DEF FrameSettles, inVars
  <2> QED BY <2>3, <2>4
<1>10. CASE StartWrite
  BY <1>10, StartWriteBarriers
<1>11. CASE ConsumerNext
  BY <1>11, ConsumerNextBarriers
<1>12. CASE ConsumerReturn
  BY <1>1, <1>2, <1>12 DEF ConsumerReturn
<1>13. ASSUME NEW x \in Closers, Close(x) PROVE Barriers'
  BY <1>1, <1>13, <1>2 DEF Close
<1>14. CASE Fail \/ \E k \in InboundIds \cup {NoId} : ReceiveOverLimit(k)
  BY <1>1, <1>14 DEF Fail, ReceiveOverLimit
<1>15. CASE \/ \E n \in Notices : Notify(n)
            \/ \E k \in InboundIds : Respond(k) \/ AbandonInboundRequest(k) \/ RefusedResponse(k)
            \/ \E k \in InboundIds \cup {NoId} : ReceiveMessage(k)
            \/ CleanupSettles \/ \E x \in Closers : CloseSettles(x)
  BY <1>2, <1>15 DEF Notify, Respond, AbandonInboundRequest, RefusedResponse, ReceiveMessage,
                     CleanupSettles, CloseSettles, reqVars, inVars
<1>16. ASSUME NEW i \in RequestIds, NEW by \in Calls \cup {NoCall}, ReceiveResponse(i, by)
       PROVE  Barriers'
  BY <1>16, ReceiveResponseBarriers
<1>17. CASE UNCHANGED vars
  BY <1>2, <1>17 DEF vars, reqVars, inVars
<1>18. ASSUME NEW i \in RequestIds, UnmatchedResponse(i) PROVE Barriers'
  BY <1>17, <1>18 DEF UnmatchedResponse
<1> QED
  BY <1>4, <1>5, <1>6, <1>7, <1>8, <1>9, <1>10, <1>11, <1>12, <1>13, <1>14, <1>15,
     <1>16, <1>17, <1>18
  DEF Next, HostStep, PeerStep, LoopStep
----------------------------------------------------------------------------
(* The reservations of the peer's requests. *)

Indices == 1..Len(writeQueue)

Started(k) == writing = "active" /\ ResponseFrame(1, k)

(* Of an open connection: a reservation has one frame at most, and only    *)
(* while its answer was not refused; and a request that is still pending   *)
(* has had no answer yet, unless that is being written.                    *)
Owed ==
  /\ writing # "rejected"
  /\ \A k \in InboundIds :
       k \in responding <=> k \in refusedResponses \/ \E i \in Indices : ResponseFrame(i, k)
  /\ \A k \in refusedResponses : \A i \in Indices : ~ResponseFrame(i, k)
  /\ \A k \in InboundIds : \A i, j \in Indices :
       ResponseFrame(i, k) /\ ResponseFrame(j, k) => i = j
  /\ \A k \in pendingInbound : ~Started(k) => answered[k] < received[k]

Reserved ==
  /\ responding \subseteq pendingInbound
  /\ abandoning \subseteq responding
  /\ AnsweredAtMostOnce
  /\ open => Owed

(* On a closed connection nothing is reserved and nothing more is written. *)
LEMMA ClosedReserved ==
  ASSUME Reserved, TerminationReleasesAll', ~open', UNCHANGED <<answered, received>>
  PROVE  Reserved'
  BY DEF Reserved, TerminationReleasesAll, AnsweredAtMostOnce

LEMMA ReservedKept ==
  ASSUME Reserved, open' = open, UNCHANGED <<writeQueue, writing, answered, idVars>>
  PROVE  Reserved'
  BY DEF Reserved, AnsweredAtMostOnce, Owed, Indices, Started, ResponseFrame, idVars

(* Another frame at the end of the queue. *)
LEMMA QueueingFrames ==
  ASSUME Typed, NEW frame \in Frames, writeQueue' = Append(writeQueue, frame)
  PROVE  /\ Len(writeQueue) \in Nat /\ Indices' = Indices \cup {Len(writeQueue) + 1}
         /\ Len(writeQueue) + 1 \notin Indices
         /\ \A i \in Indices : writeQueue'[i] = writeQueue[i]
         /\ writeQueue'[Len(writeQueue) + 1] = frame
<1>1. writeQueue \in Seq(Frames)
  BY DEF Typed, WriteTyped
<1>2. Len(writeQueue) \in Nat /\ Len(writeQueue') = Len(writeQueue) + 1
  BY <1>1
<1> QED BY <1>1, <1>2 DEF Indices

LEMMA StartedKept ==
  ASSUME Typed, NEW frame \in Frames, writeQueue' = Append(writeQueue, frame),
         writing' = writing, NEW k
  PROVE  Started(k)' <=> Started(k)
<1>1. CASE writing = "active"
  BY <1>1, QueueingFrames DEF Typed, WriteTyped, Indices, Started, ResponseFrame
<1>2. CASE writing # "active"
  BY <1>2 DEF Started
<1> QED BY <1>1, <1>2

LEMMA QueueingReserved ==
  ASSUME Typed, Reserved, NEW frame \in Frames, frame.kind # "response",
         writeQueue' = Append(writeQueue, frame), open' = open,
         UNCHANGED <<writing, answered, idVars>>
  PROVE  Reserved'
<1>1. ASSUME NEW k, NEW i
      PROVE  (i \in Indices' /\ ResponseFrame(i, k)') <=> (i \in Indices /\ ResponseFrame(i, k))
  <2>1. /\ Indices' = Indices \cup {Len(writeQueue) + 1} /\ Len(writeQueue) + 1 \notin Indices
        /\ \A j \in Indices : writeQueue'[j] = writeQueue[j]
        /\ writeQueue'[Len(writeQueue) + 1] = frame
    BY QueueingFrames
  <2>2. frame # [kind |-> "response", of |-> k]
    OBVIOUS
  <2> QED BY Zenon, <2>1, <2>2 DEF ResponseFrame
<1>2. \A k : Started(k)' <=> Started(k)
  BY StartedKept
<1>3. Owed => Owed'
  BY <1>1, <1>2 DEF Owed, idVars
<1> QED BY <1>3 DEF Reserved, AnsweredAtMostOnce, idVars

LEMMA RespondReserved ==
  ASSUME Typed, Reserved, NEW k \in InboundIds, Respond(k)
  PROVE  Reserved'
<1> DEFINE frame == [kind |-> "response", of |-> k]
<1>1. /\ open /\ open' = open /\ k \in pendingInbound \ responding
      /\ responding' = responding \cup {k}
      /\ UNCHANGED <<writing, answered, pendingInbound, abandoning, received>>
  BY DEF Respond, endVars
<1>2. Owed
  BY <1>1 DEF Reserved
<1>3. k \notin refusedResponses /\ \A i \in Indices : ~ResponseFrame(i, k)
  BY <1>1, <1>2 DEF Owed
<1>4. CASE WriteCapacity
  <2>1. writeQueue' = Append(writeQueue, frame) /\ refusedResponses' = refusedResponses
    BY <1>4 DEF Respond
  <2>2. frame \in Frames
    BY DEF Frames
  <2>3. \A m : Started(m)' <=> Started(m)
    BY <1>1, <2>1, <2>2, StartedKept
  <2>4. ASSUME NEW m, NEW i
        PROVE  (i \in Indices' /\ ResponseFrame(i, m)') <=>
                  \/ i \in Indices /\ ResponseFrame(i, m)
                  \/ i = Len(writeQueue) + 1 /\ m = k
    <3>1. /\ Indices' = Indices \cup {Len(writeQueue) + 1} /\ Len(writeQueue) + 1 \notin Indices
          /\ \A j \in Indices : writeQueue'[j] = writeQueue[j]
          /\ writeQueue'[Len(writeQueue) + 1] = frame
      BY <2>1, <2>2, QueueingFrames
    <3>2. frame = [kind |-> "response", of |-> m] <=> m = k
      OBVIOUS
    <3> HIDE DEF frame
    <3> QED BY Zenon, <3>1, <3>2 DEF ResponseFrame
  <2>5. Owed'
    BY <1>1, <1>2, <1>3, <2>1, <2>3, <2>4 DEF Owed
  <2> QED BY <1>1, <2>5 DEF Reserved, AnsweredAtMostOnce
<1>5. CASE ~WriteCapacity
  BY <1>5, <1>1, <1>2, <1>3 DEF Respond, Owed, Indices, Started, ResponseFrame, Reserved, AnsweredAtMostOnce
<1> QED BY <1>4, <1>5

LEMMA AbandonReserved ==
  ASSUME Typed, Reserved, NEW k \in InboundIds, AbandonInboundRequest(k)
  PROVE  Reserved'
<1>1. /\ open' = open /\ pendingInbound' \subseteq pendingInbound
      /\ UNCHANGED <<responding, writeQueue, writing, answered, received, refusedResponses>>
  BY DEF AbandonInboundRequest, writeVars, endVars
<1>2. responding \subseteq pendingInbound' /\ abandoning' \subseteq responding
  BY DEF AbandonInboundRequest, Reserved
<1>3. Owed => Owed'
  BY <1>1 DEF Owed, Indices, Started, ResponseFrame
<1> QED BY <1>1, <1>2, <1>3 DEF Reserved, AnsweredAtMostOnce

LEMMA RefusedResponseReserved ==
  ASSUME Typed, Reserved, NEW k \in InboundIds, RefusedResponse(k)
  PROVE  Reserved'
<1>1. /\ open' = open /\ k \in refusedResponses /\ refusedResponses' = refusedResponses \ {k}
      /\ UNCHANGED <<writeQueue, writing, answered, received>>
  BY DEF RefusedResponse, writeVars, endVars
<1>2. /\ responding' = responding \ {k} /\ abandoning' = abandoning \ {k}
      /\ pendingInbound' \in {pendingInbound, pendingInbound \ {k}}
  BY DEF RefusedResponse, ResponseWriteSettles
<1>3. Owed => Owed'
  BY <1>1, <1>2 DEF Owed, Indices, Started, ResponseFrame
<1> QED BY <1>1, <1>2, <1>3 DEF Reserved, AnsweredAtMostOnce

LEMMA ReceiveMessageReserved ==
  ASSUME Typed, Reserved, NEW k \in InboundIds \cup {NoId}, ReceiveMessage(k)
  PROVE  Reserved'
<1>1. /\ open' = open
      /\ UNCHANGED <<writeQueue, writing, answered, responding, abandoning, refusedResponses>>
  BY DEF ReceiveMessage, writeVars, endVars
<1>2. CASE k = NoId
  BY <1>1, <1>2, ReservedKept DEF ReceiveMessage, idVars
<1>3. CASE k # NoId
  <2>1. /\ pendingInbound' = pendingInbound \cup {k}
        /\ received' = [received EXCEPT ![k] = @ + 1]
    BY <1>3 DEF ReceiveMessage
  <2>2. /\ received \in [InboundIds -> Nat] /\ answered \in [InboundIds -> Nat]
        /\ pendingInbound \subseteq InboundIds
    BY DEF Typed, IdTyped, WriteTyped
  <2>3. \A m \in InboundIds : received'[m] = IF m = k THEN received[m] + 1 ELSE received[m]
    BY <2>1, <2>2
  <2>4. AnsweredAtMostOnce'
    BY <1>1, <2>2, <2>3 DEF Reserved, AnsweredAtMostOnce
  <2>5. \A m \in pendingInbound' : ~Started(m) => answered[m] < received'[m]
        \/ ~Owed
    BY <1>3, <2>1, <2>2, <2>3 DEF Reserved, AnsweredAtMostOnce, Owed
  <2>6. Owed => Owed'
    BY <1>1, <2>5 DEF Owed, Indices, Started, ResponseFrame
  <2> QED BY <1>1, <2>1, <2>4, <2>6 DEF Reserved
<1> QED BY <1>2, <1>3

LEMMA StartWriteReserved ==
  ASSUME Typed, Reserved, StartWrite
  PROVE  Reserved'
<1>1. /\ open /\ open' = open /\ writing = "idle" /\ writing' = "active" /\ writeQueue # <<>>
      /\ UNCHANGED <<writeQueue, pendingInbound, responding, abandoning, refusedResponses, received>>
  BY DEF StartWrite, idVars, endVars
<1>2. /\ received \in [InboundIds -> Nat] /\ answered \in [InboundIds -> Nat]
      /\ writeQueue \in Seq(Frames)
  BY DEF Typed, IdTyped, WriteTyped
<1>3. Owed /\ 1 \in Indices /\ Head1 = writeQueue[1] /\ Head1 \in Frames
  BY <1>1, <1>2 DEF Reserved, Indices, Head1
<1>4. \A k \in pendingInbound : answered[k] < received[k]
  BY <1>1, <1>3 DEF Owed, Started
<1>5. CASE Head1.kind = "response"
  BY <1>3, <1>5, <1>2, <1>1, <1>4
     DEF Frames, ResponseFrame, Owed, Reserved, StartWrite, AnsweredAtMostOnce, Started, Typed, IdTyped, Indices
<1>6. CASE Head1.kind # "response"
  BY <1>6, <1>1, <1>3, <1>4 DEF StartWrite, Owed, Indices, ResponseFrame, Reserved, AnsweredAtMostOnce
<1> QED BY <1>5, <1>6

(* On an open connection only a frame that was written, or a request that  *)
(* is gone, leaves the queue. *)
LEMMA FrameSettlesReserved ==
  ASSUME Typed, Reserved, open, WriteFlushed \/ SkipWrite \/ RejectWrite
  PROVE  Reserved'
<1>1. Owed
  BY DEF Reserved
<1>2. /\ FrameSettles(TRUE) /\ writeQueue # <<>>
      /\ writing = "active" \/ Head1.kind # "response"
  BY <1>1 DEF Owed, WriteFlushed, SkipWrite, RejectWrite, ShouldWrite, Typed, WriteTyped
<1>3. /\ open' = open /\ writeQueue' = Tail(writeQueue) /\ writing' = "idle"
      /\ UNCHANGED <<answered, received, refusedResponses>>
  BY <1>2 DEF FrameSettles, endVars
<1>4. writeQueue \in Seq(Frames)
  BY DEF Typed, WriteTyped
<1>5. /\ 1 \in Indices /\ Head1 = writeQueue[1] /\ Head1 \in Frames
      /\ \A i \in Indices' : i + 1 \in Indices /\ i + 1 # 1 /\ writeQueue'[i] = writeQueue[i + 1]
      /\ \A i \in Indices : i # 1 => i - 1 \in Indices' /\ writeQueue'[i - 1] = writeQueue[i]
  BY <1>2, <1>3, <1>4 DEF Indices, Head1
<1>6. \A k \in InboundIds : (\E i \in Indices' : ResponseFrame(i, k)') <=>
                             \E i \in Indices : i # 1 /\ ResponseFrame(i, k)
  BY <1>5 DEF ResponseFrame
<1>7. \A k \in InboundIds : \A i, j \in Indices' :
        ResponseFrame(i, k)' /\ ResponseFrame(j, k)' => i = j
  BY <1>1, <1>5, <1>3, <1>4 DEF Owed, ResponseFrame, Indices
<1>8. ASSUME NEW k \in refusedResponses, NEW i \in Indices' PROVE ~ResponseFrame(i, k)'
  <2>1. i + 1 \in Indices /\ writeQueue'[i] = writeQueue[i + 1]
    BY <1>5
  <2>2. ~ResponseFrame(i + 1, k)
    BY <1>1, <2>1 DEF Owed
  <2> QED BY Zenon, <2>1, <2>2 DEF ResponseFrame
<1>9. CASE Head1.kind = "response"
  <2>1. PICK k \in InboundIds : Head1 = [kind |-> "response", of |-> k]
    BY <1>5, <1>9 DEF Frames
  <2>2. /\ ResponseFrame(1, k) /\ k \notin refusedResponses
        /\ \A i \in Indices : i # 1 => ~ResponseFrame(i, k)
    <3>1. ResponseFrame(1, k)
      BY <1>5, <2>1 DEF ResponseFrame
    <3> QED BY <1>1, <1>5, <3>1 DEF Owed
  <2>3. \A m \in InboundIds : m # k => ~ResponseFrame(1, m)
    BY <1>5, <2>1 DEF ResponseFrame
  <2>4. /\ responding' = responding \ {k} /\ abandoning' = abandoning \ {k}
        /\ pendingInbound' = pendingInbound \ {k}
    BY <1>2, <1>9, <2>1 DEF FrameSettles, ResponseWriteSettles
  <2>5. \A m \in InboundIds :
          m \in responding' <=> m \in refusedResponses \/ \E i \in Indices' : ResponseFrame(i, m)'
    BY <1>1, <1>6, <2>2, <2>3, <2>4 DEF Owed
  <2>6. \A m \in pendingInbound' : answered[m] < received[m]
    BY <1>1, <2>3, <2>4 DEF Owed, Started, Typed, IdTyped
  <2>7. Owed'
    BY <1>3, <1>7, <1>8, <2>5, <2>6 DEF Owed
  <2> QED BY <1>3, <2>4, <2>7 DEF Reserved, AnsweredAtMostOnce
<1>10. CASE Head1.kind # "response"
  <2>1. \A m \in InboundIds : ~ResponseFrame(1, m)
    BY <1>5, <1>10 DEF ResponseFrame
  <2>2. UNCHANGED <<responding, abandoning, pendingInbound>>
    BY <1>2, <1>10 DEF FrameSettles
  <2>3. \A m \in InboundIds :
          m \in responding' <=> m \in refusedResponses \/ \E i \in Indices' : ResponseFrame(i, m)'
    BY <1>1, <1>6, <2>1, <2>2 DEF Owed
  <2>4. \A m \in pendingInbound' : answered[m] < received[m]
    BY <1>1, <2>1, <2>2 DEF Owed, Started, Typed, IdTyped
  <2>5. Owed'
    BY <1>3, <1>7, <1>8, <2>3, <2>4 DEF Owed
  <2> QED BY <1>3, <2>2, <2>5 DEF Reserved, AnsweredAtMostOnce
<1> QED BY <1>9, <1>10
LEMMA StepReserved ==
  Typed /\ Reserved /\ TerminationReleasesAll' /\ [Next]_vars => Reserved'
<1> SUFFICES ASSUME Typed, Reserved, TerminationReleasesAll', [Next]_vars PROVE Reserved'
  OBVIOUS
<1>1. ASSUME ~open', UNCHANGED <<answered, received>> PROVE Reserved'
  BY <1>1, ClosedReserved
<1>2. ASSUME open' = open, UNCHANGED <<writeQueue, writing, answered, idVars>> PROVE Reserved'
  BY <1>2, ReservedKept
<1>3. ASSUME NEW frame \in Frames, frame.kind # "response",
             writeQueue' = Append(writeQueue, frame) \/ writeQueue' = writeQueue,
             open' = open, UNCHANGED <<writing, answered, idVars>>
      PROVE  Reserved'
  BY <1>2, <1>3, QueueingReserved
<1>4. ASSUME NEW c \in Calls, NEW b \in BOOLEAN, Request(c, b) PROVE Reserved'
  BY <1>3, <1>4 DEF Frames, Request, endVars
<1>5. ASSUME NEW n \in Notices, Notify(n) PROVE Reserved'
  BY <1>3, <1>5 DEF Frames, Notify, endVars
<1>6. ASSUME NEW k \in InboundIds, Respond(k) \/ AbandonInboundRequest(k) \/ RefusedResponse(k)
      PROVE  Reserved'
  BY <1>6, RespondReserved, AbandonReserved, RefusedResponseReserved
<1>7. ASSUME NEW k \in InboundIds \cup {NoId}, ReceiveMessage(k) PROVE Reserved'
  BY <1>7, ReceiveMessageReserved
<1>8. CASE StartWrite
  BY <1>8, StartWriteReserved
<1>9. CASE WriteFlushed \/ SkipWrite \/ RejectWrite
  <2>1. CASE open
    BY <1>9, <2>1, FrameSettlesReserved
  <2>2. CASE ~open
    BY <1>1, <1>9, <2>2 DEF WriteFlushed, SkipWrite, RejectWrite, FrameSettles, endVars
  <2> QED BY <2>1, <2>2
<1>10. CASE Fail \/ \E k \in InboundIds \cup {NoId} : ReceiveOverLimit(k)
  BY <1>1, <1>10 DEF Fail, ReceiveOverLimit, Terminate
<1>11. CASE ConsumerReturn \/ \E x \in Closers : Close(x)
  BY <1>1, <1>11 DEF ConsumerReturn, Close, Terminate
<1>12. CASE \/ \E c \in Calls : \/ RequestRejected(c) \/ RequestAborted(c) \/ RequestTimeout(c)
                                 \/ RefusedWrite(c) \/ BarrierPassed(c)
            \/ ConsumerNext \/ CleanupSettles \/ \E x \in Closers : CloseSettles(x)
  BY <1>2, <1>12 DEF RequestRejected, RequestAborted, RequestTimeout, LocalEnd, RefusedWrite,
                     BarrierPassed, ConsumerNext, CleanupSettles, CloseSettles, writeVars, endVars
<1>13. ASSUME NEW i \in RequestIds, NEW by \in Calls \cup {NoCall}, ReceiveResponse(i, by)
       PROVE  Reserved'
  BY <1>2, <1>13 DEF ReceiveResponse, writeVars, endVars
<1>14. CASE UNCHANGED vars
  BY <1>2, <1>14 DEF vars, writeVars, endVars
<1>15. ASSUME NEW i \in RequestIds, UnmatchedResponse(i) PROVE Reserved'
  BY <1>14, <1>15 DEF UnmatchedResponse
<1> QED
  BY <1>4, <1>5, <1>6, <1>7, <1>8, <1>9, <1>10, <1>11, <1>12, <1>13, <1>14, <1>15
  DEF Next, HostStep, PeerStep, LoopStep

----------------------------------------------------------------------------
LEMMA InitSound == Init => InOrder /\ Barriers /\ Reserved
<1> SUFFICES ASSUME Init PROVE InOrder /\ Barriers /\ Reserved
  OBVIOUS
<1>1. InOrder
  BY DEF Init, InOrder, InboundInOrder, HeldCount
<1>2. Barriers
  BY DEF Init, Barriers, Passed
<1>3. Reserved
  BY DEF Init, Reserved, AnsweredAtMostOnce, Owed, Indices
<1> QED BY <1>1, <1>2, <1>3

(* For any number of calls, any limits and wrapping identifiers: messages  *)
(* reach the consumer in order and without a gap, requestAfterInbound()    *)
(* waits for all that came before its response, unless another call had    *)
(* its identifier, and a request of the peer is reserved by one answer at  *)
(* a time and answered at most once, however answers fail, are refused or  *)
(* cross an abandonment.                                                   *)
THEOREM InboundAnswersSound == Spec => []AnswersSound
<1>1. Init => TerminationReleasesAll
  BY DEF Init, TerminationReleasesAll
<1>2. Typed /\ InOrder /\ Barriers /\ Reserved => AnswersSound
  BY TypedImpliesTypeOK
  DEF AnswersSound, InOrder, Barriers, Passed, BarrierHolds, Reserved, ResponseReservation,
      Owed, Indices
<1> QED
  BY <1>1, <1>2, InitSound, StepReleased, StepInOrder, StepBarriers, StepReserved,
     InvTyped, InvTracked, PTL DEF Spec

-------------------------------------------------------------------------------
(* DshGateway. *)

RunRec == [call: {"idle", "prompting", "returned", "refused"}, session: Sessions \cup {NoSession},
           accepted: BOOLEAN, candidate: Verdicts \cup {"none"}, final: Terminals \cup {"none"}]
NativeRec == [exists: BOOLEAN, fresh: BOOLEAN, inbox: Seq(Messages), message: Messages \cup {NoRun},
              turn: Turns, followed: BOOLEAN]
MutationRec == [kind: {"none", "create", "resume", "fork", "cancel"}, at: {"none", "post", "done", "refused", "follow"},
                session: Sessions \cup {NoSession}, parent: Sessions \cup {NoSession}]

(* What the Gateway works on: messages wait in one inbox each, once, and a turn works on one.        *)
InTurn == {"claimed", "step", "said", "shown", "stepped"}

WorkInv ==
  /\ \A s \in Sessions : \A i \in 1..Len(native[s].inbox) : worked[native[s].inbox[i]] = "queued"
  /\ \A s, t \in Sessions : \A i \in 1..Len(native[s].inbox), j \in 1..Len(native[t].inbox) :
       native[s].inbox[i] = native[t].inbox[j] => s = t /\ i = j
  /\ \A s \in Sessions : native[s].message # NoRun <=> native[s].turn \in InTurn
  /\ \A s \in Sessions : native[s].message # NoRun => worked[native[s].message] = "working"
  /\ \A s, t \in Sessions : native[s].message = native[t].message => s = t \/ native[s].message = NoRun

(* A Run by itself: how far its call and its POST are, and what it was told of its turn.             *)
RunFits(run, post, work) ==
  /\ run.call = "idle" <=> post = "none"
  /\ run.call # "idle" => run.session # NoSession
  /\ post # "admitted" => work = "none"
  /\ run.accepted <=> run.call = "returned"
  /\ run.accepted => post = "admitted"
  /\ run.call = "idle" => run.candidate = "none" /\ run.final = "none"
  /\ run.call = "refused" => run.final # "none"
  /\ run.candidate # "none" => work = run.candidate
  /\ run.final \in {"completed", "cancelled"} => run.accepted /\ work = run.final
  /\ run.final = "failed" /\ run.accepted => work = "failed"

RunInv == \A r \in Runs : RunFits(runs[r], posts[r], worked[r])

(* The active Run owns the log of its Session, and no other Run owns one or is not over. *)
OwnerInv ==
  /\ active # NoRun =>
       /\ ~closed /\ runs[active].call \in {"prompting", "returned"} /\ runs[active].final = "none"
       /\ runs[active].session \in attached /\ logs[runs[active].session].request = active
  /\ \A r \in Runs : runs[r].call # "idle" /\ runs[r].final = "none" => active = r
  /\ \A r \in Runs : ~closed =>
       /\ runs[r].call = "prompting" => active = r
       /\ posts[r] = "sent" \/ worked[r] \in {"queued", "working"} => active = r
  /\ \A s \in Sessions : Owned(logs[s]) =>
       /\ active = logs[s].request /\ runs[active].session = s
       /\ logs[s].final # "none" => worked[active] = logs[s].final

(* Sessions that are attached are followed, and no other is but the one that is being attached. *)
SessionInv ==
  /\ \A s \in Sessions :
       /\ s \in attached => native[s].exists /\ ~native[s].fresh /\ (closed \/ native[s].followed)
       /\ native[s].followed => ~closed /\ (s \in attached \/ (mutation.at = "follow" /\ mutation.session = s))
       /\ ~native[s].followed => streams[s] = <<>>
       /\ native[s].fresh => native[s].exists
       /\ native[s].fresh /\ ~closed =>
            mutation.kind \in {"create", "fork"} /\ mutation.at \in {"done", "follow"} /\ mutation.session = s
  /\ mutation.at = "follow" \/ (mutation.at = "done" /\ mutation.kind # "cancel") =>
       /\ mutation.kind \in {"create", "fork", "resume"} /\ mutation.session \in Sessions \ attached
       /\ native[mutation.session].exists
  /\ IsFiniteSet(attached) /\ Cardinality(attached) <= MaxSessions
  /\ mutation.kind \in {"create", "fork", "resume"} => Cardinality(attached) < MaxSessions

FrameFits(frame) ==
  /\ frame.kind \in {"insert", "claim", "cancel"} => frame.message \in Messages
  /\ frame.kind = "end" => frame.verdict \in Verdicts
  /\ frame.kind = "snapshot" => ~Owned(frame.log)

(* The first end of a turn after frame i is that of the turn that worked on m, or it is still at it. *)
EndsWith(s, i, m) ==
  \/ \E j \in 1..Len(streams[s]) :
       /\ i < j /\ streams[s][j].kind = "end" /\ streams[s][j].verdict = worked[m]
       /\ \A k \in 1..Len(streams[s]) : i < k /\ k < j => streams[s][k].kind # "end"
  \/ /\ native[s].message = m
     /\ \A k \in 1..Len(streams[s]) : i < k => streams[s][k].kind # "end"

StreamInv ==
  \A s \in Sessions :
    /\ \A i \in 1..Len(streams[s]) : FrameFits(streams[s][i])
    /\ \A i \in 1..Len(streams[s]) : streams[s][i].kind = "claim" => EndsWith(s, i, streams[s][i].message)
    /\ Owned(logs[s]) /\ logs[s].claim = "current" => EndsWith(s, 0, logs[s].request)

(* What is known of the constants is a conjunct of the invariant. *)
GatewayInv == GatewayAssumption /\ GatewayTypeOK /\ WorkInv /\ RunInv /\ OwnerInv /\ SessionInv /\ StreamInv

-------------------------------------------------------------------------------
(* Streams. *)

LEMMA GatewayTypes ==
  ASSUME GatewayInv
  PROVE  /\ closed \in BOOLEAN /\ attached \subseteq Sessions /\ active \in Runs \cup {NoRun}
         /\ mutation \in MutationRec /\ logs \in [Sessions -> Log] /\ runs \in [Runs -> RunRec]
         /\ native \in [Sessions -> NativeRec] /\ worked \in [Messages -> Verdicts \cup {"none", "queued", "working", "dropped"}]
         /\ posts \in [Runs -> {"none", "sent", "admitted", "refused"}]
         /\ streams \in [Sessions -> Seq(Frame)] /\ oddities \in 0..MaxOddities
         /\ NoRun \notin Messages /\ Runs \subseteq Messages /\ NoSession \notin Sessions /\ MaxOddities \in Nat
  BY DEF GatewayInv, GatewayTypeOK, GatewayAssumption, MutationRec, RunRec, NativeRec, Messages

(* A frame is added at the end. *)
LEMMA AppendFrame ==
  ASSUME GatewayInv, NEW s \in Sessions, NEW frame \in Frame, native[s].followed, Emits(s, frame)
  PROVE  /\ streams' \in [Sessions -> Seq(Frame)] /\ \A t \in Sessions \ {s} : streams'[t] = streams[t]
         /\ Len(streams[s]) \in Nat /\ Len(streams'[s]) = Len(streams[s]) + 1
         /\ \A i \in 1..Len(streams[s]) : streams'[s][i] = streams[s][i]
         /\ streams'[s][Len(streams[s]) + 1] = frame
  <1> DEFINE old == streams[s]
             new == Append(old, frame)
  <1>1. old \in Seq(Frame) /\ streams \in [Sessions -> Seq(Frame)]
    BY GatewayTypes
  <1>2. streams' = [streams EXCEPT ![s] = new]
    BY DEF Emits
  <1> HIDE DEF old
  <1>3. /\ new \in Seq(Frame) /\ Len(old) \in Nat /\ Len(new) = Len(old) + 1
        /\ (\A i \in 1..Len(old) : new[i] = old[i]) /\ new[Len(old) + 1] = frame
    BY <1>1
  <1> HIDE DEF new
  <1> QED BY <1>1, <1>2, <1>3 DEF old

(* The first frame is read. *)
LEMMA TailFrame ==
  ASSUME GatewayInv, NEW s \in Sessions, streams[s] # <<>>, streams' = [streams EXCEPT ![s] = Tail(@)]
  PROVE  /\ streams' \in [Sessions -> Seq(Frame)] /\ \A t \in Sessions \ {s} : streams'[t] = streams[t]
         /\ Len(streams[s]) \in Nat /\ Len(streams'[s]) \in Nat /\ Len(streams[s]) = Len(streams'[s]) + 1
         /\ \A i \in 1..Len(streams'[s]) : streams'[s][i] = streams[s][i + 1]
         /\ Head(streams[s]) = streams[s][1] /\ Head(streams[s]) \in Frame
  <1> DEFINE old == streams[s]
             new == Tail(old)
  <1>1. old \in Seq(Frame) /\ old # <<>> /\ streams \in [Sessions -> Seq(Frame)]
    BY GatewayTypes
  <1>2. streams' = [streams EXCEPT ![s] = new]
    OBVIOUS
  <1> HIDE DEF old
  <1>3. /\ new \in Seq(Frame) /\ Len(old) \in Nat /\ Len(new) \in Nat /\ Len(old) = Len(new) + 1
        /\ (\A i \in 1..Len(new) : new[i] = old[i + 1]) /\ Head(old) = old[1] /\ Head(old) \in Frame
    BY <1>1
  <1> HIDE DEF new
  <1> QED BY <1>1, <1>2, <1>3 DEF old

(* Verdicts stay, and turns go on until they end. *)
LEMMA EndsKept ==
  ASSUME GatewayInv, NEW s \in Sessions, NEW i, NEW m \in Messages, EndsWith(s, i, m), streams'[s] = streams[s],
         worked[m] \in Verdicts => worked'[m] = worked[m], native'[s].message = native[s].message
  PROVE  EndsWith(s, i, m)'
  <1>1. CASE \E j \in 1..Len(streams[s]) :
               /\ i < j /\ streams[s][j].kind = "end" /\ streams[s][j].verdict = worked[m]
               /\ \A k \in 1..Len(streams[s]) : i < k /\ k < j => streams[s][k].kind # "end"
    BY <1>1 DEF GatewayInv, StreamInv, FrameFits, EndsWith
  <1> QED BY <1>1 DEF EndsWith

LEMMA EndsAppended ==
  ASSUME GatewayInv, NEW s \in Sessions, NEW frame \in Frame, native[s].followed, Emits(s, frame),
         NEW i \in 0..Len(streams[s]), NEW m \in Messages, EndsWith(s, i, m),
         worked[m] \in Verdicts => worked'[m] = worked[m],
         native[s].message = m =>
           IF frame.kind = "end" THEN worked'[m] = frame.verdict ELSE native'[s].message = m
  PROVE  EndsWith(s, i, m)'
  <1>1. PICK n \in Nat : n = Len(streams[s])
    BY AppendFrame
  <1>2. /\ Len(streams'[s]) = n + 1 /\ streams'[s][n + 1] = frame /\ i \in 0..n
        /\ \A k \in 1..n : streams'[s][k] = streams[s][k]
    BY <1>1, AppendFrame
  <1>3. CASE \E j \in 1..n :
               /\ i < j /\ streams[s][j].kind = "end" /\ streams[s][j].verdict = worked[m]
               /\ \A k \in 1..n : i < k /\ k < j => streams[s][k].kind # "end"
    <2>1. PICK j \in 1..n : /\ i < j /\ streams[s][j].kind = "end" /\ streams[s][j].verdict = worked[m]
                            /\ \A k \in 1..n : i < k /\ k < j => streams[s][k].kind # "end"
      BY <1>3
    <2>2. worked'[m] = worked[m]
      BY <1>1, <2>1 DEF GatewayInv, StreamInv, FrameFits
    <2>3. \A k \in 1..(n + 1) : k < j => k \in 1..n
      BY <2>1
    <2>4. /\ j \in 1..(n + 1) /\ i < j /\ streams'[s][j].kind = "end" /\ streams'[s][j].verdict = worked'[m]
          /\ \A k \in 1..(n + 1) : i < k /\ k < j => streams'[s][k].kind # "end"
      <3>1. streams'[s][j] = streams[s][j] /\ j \in 1..(n + 1) /\ i < j
        BY <1>2, <2>1
      <3>2. \A k \in 1..(n + 1) : i < k /\ k < j => streams'[s][k].kind # "end"
        BY <1>2, <2>1, <2>3
      <3> QED BY <2>1, <2>2, <3>1, <3>2
    <2> QED BY <1>2, <2>4 DEF EndsWith
  <1>4. CASE native[s].message = m /\ \A k \in 1..n : i < k => streams[s][k].kind # "end"
    BY <1>2, <1>4 DEF EndsWith
  <1> QED BY <1>1, <1>3, <1>4 DEF EndsWith

LEMMA EndsRead ==
  ASSUME GatewayInv, NEW s \in Sessions, streams[s] # <<>>, streams' = [streams EXCEPT ![s] = Tail(@)],
         UNCHANGED worked, native'[s].message = native[s].message, NEW i \in Nat, NEW m \in Messages,
         EndsWith(s, i + 1, m) \/ (i = 0 /\ EndsWith(s, 0, m) /\ streams[s][1].kind # "end")
  PROVE  EndsWith(s, i, m)'
  <1>1. PICK n \in Nat : n = Len(streams'[s])
    BY TailFrame
  <1>2. Len(streams[s]) = n + 1 /\ \A k \in 1..n : streams'[s][k] = streams[s][k + 1] /\ k + 1 \in 1..(n + 1)
    <2>1. Len(streams[s]) = n + 1 /\ \A k \in 1..n : streams'[s][k] = streams[s][k + 1]
      BY <1>1, TailFrame
    <2> QED BY <2>1
  <1>3. CASE \E j \in 1..(n + 1) :
               /\ i + 1 < j /\ streams[s][j].kind = "end" /\ streams[s][j].verdict = worked[m]
               /\ \A k \in 1..(n + 1) : i + 1 < k /\ k < j => streams[s][k].kind # "end"
    <2>1. PICK j \in 1..(n + 1) : /\ i + 1 < j /\ streams[s][j].kind = "end" /\ streams[s][j].verdict = worked[m]
                                  /\ \A k \in 1..(n + 1) : i + 1 < k /\ k < j => streams[s][k].kind # "end"
      BY <1>3
    <2>2. PICK h \in 1..n : h + 1 = j
      BY <2>1
    <2>3. i < h /\ streams'[s][h].kind = "end" /\ streams'[s][h].verdict = worked[m]
      BY <1>2, <2>1, <2>2
    <2>4. \A k \in 1..n : i < k /\ k < h => streams'[s][k].kind # "end"
      <3>1. \A k \in 1..n : i < k /\ k < h => i + 1 < k + 1 /\ k + 1 < j
        BY <2>2
      <3> QED BY <1>2, <2>1, <3>1
    <2> QED BY <1>1, <2>3, <2>4 DEF EndsWith
  <1>4. CASE native[s].message = m /\ \A k \in 1..(n + 1) : i + 1 < k => streams[s][k].kind # "end"
    BY <1>2, <1>4, <1>1 DEF EndsWith
  <1>5. CASE EndsWith(s, i + 1, m)
    BY <1>2, <1>3, <1>4, <1>5 DEF EndsWith
  <1>6. CASE i = 0 /\ EndsWith(s, 0, m) /\ streams[s][1].kind # "end"
    <2>1. \A j \in 1..(n + 1) : 0 < j /\ streams[s][j].kind = "end" => i + 1 < j
      BY <1>6
    <2>2. \A k \in 1..(n + 1) : i + 1 < k => 0 < k
      BY <1>6
    <2>3. CASE native[s].message = m /\ \A k \in 1..(n + 1) : 0 < k => streams[s][k].kind # "end"
      BY <1>4, <2>2, <2>3
    <2>4. CASE \E j \in 1..(n + 1) :
                 /\ 0 < j /\ streams[s][j].kind = "end" /\ streams[s][j].verdict = worked[m]
                 /\ \A k \in 1..(n + 1) : 0 < k /\ k < j => streams[s][k].kind # "end"
      BY <1>3, <2>1, <2>2, <2>4
    <2> QED BY <1>2, <1>6, <2>3, <2>4 DEF EndsWith
  <1> QED BY <1>5, <1>6

-------------------------------------------------------------------------------
(* What streams hold fits, whoever moves. *)

LEMMA StreamsKept ==
  ASSUME GatewayInv, UNCHANGED streams, \A m \in Messages : worked[m] \in Verdicts => worked'[m] = worked[m],
         \A s \in Sessions : native'[s].message = native[s].message,
         \A s \in Sessions : Owned(logs'[s]) /\ logs'[s].claim = "current" =>
           Owned(logs[s]) /\ logs[s].claim = "current" /\ logs[s].request = logs'[s].request
  PROVE  StreamInv'
  <1> SUFFICES ASSUME NEW s \in Sessions
               PROVE  /\ \A i \in 1..Len(streams'[s]) : FrameFits(streams'[s][i])
                      /\ \A i \in 1..Len(streams'[s]) :
                           streams'[s][i].kind = "claim" => EndsWith(s, i, streams[s][i].message)'
                      /\ Owned(logs'[s]) /\ logs'[s].claim = "current" => EndsWith(s, 0, logs[s].request)'
    BY DEF StreamInv, FrameFits, Owned
  <1>1. \A i \in 1..Len(streams[s]) : /\ FrameFits(streams[s][i])
                                      /\ streams[s][i].kind = "claim" => EndsWith(s, i, streams[s][i].message)
    BY DEF GatewayInv, StreamInv
  <1>2. \A i \in 1..Len(streams[s]) : streams[s][i].kind = "claim" => streams[s][i].message \in Messages
    BY <1>1 DEF FrameFits
  <1>3. ASSUME NEW i \in 1..Len(streams[s]), streams[s][i].kind = "claim" PROVE EndsWith(s, i, streams[s][i].message)'
    BY <1>2, <1>3, <1>1, EndsKept
  <1>4. ASSUME Owned(logs'[s]), logs'[s].claim = "current" PROVE EndsWith(s, 0, logs[s].request)'
    BY <1>4, GatewayTypes, EndsKept DEF GatewayInv, StreamInv, Owned, Log
  <1> QED BY <1>1, <1>3, <1>4

LEMMA StreamsAppended ==
  ASSUME GatewayInv, NEW s \in Sessions, NEW frame \in Frame, FrameFits(frame), Emits(s, frame), UNCHANGED logs,
         \A m \in Messages : worked[m] \in Verdicts => worked'[m] = worked[m],
         \A t \in Sessions \ {s} : native'[t].message = native[t].message,
         native[s].message # NoRun =>
           IF frame.kind = "end" THEN worked'[native[s].message] = frame.verdict
           ELSE native'[s].message = native[s].message,
         frame.kind = "claim" => native'[s].message = frame.message
  PROVE  /\ StreamInv' /\ streams' \in [Sessions -> Seq(Frame)]
         /\ \A t \in Sessions : ~native[t].followed => streams'[t] = streams[t]
  <1>1. CASE ~native[s].followed
    <2>1. streams' = streams /\ streams[s] = <<>> /\ Len(streams[s]) = 0
      BY <1>1 DEF Emits, GatewayInv, SessionInv
    <2>2. ~Owned(logs[s])
      BY <1>1 DEF GatewayInv, OwnerInv, SessionInv, Owned
    <2>3. ASSUME NEW t \in Sessions \ {s}, NEW i, NEW m \in Messages, EndsWith(t, i, m) PROVE EndsWith(t, i, m)'
      BY <2>1, <2>3, EndsKept
    <2>4. ASSUME NEW t \in Sessions \ {s}, Owned(logs'[t]), logs'[t].claim = "current"
          PROVE  EndsWith(t, 0, logs[t].request)'
      BY <2>4, GatewayTypes, <2>3 DEF Owned, Log, GatewayInv, StreamInv
    <2>5. ASSUME NEW t \in Sessions \ {s}, NEW i \in 1..Len(streams[t]), streams[t][i].kind = "claim"
          PROVE  EndsWith(t, i, streams[t][i].message)'
      BY <2>5, <2>1, <2>3 DEF GatewayInv, StreamInv, FrameFits
    <2>6. \A t \in Sessions : \A i \in 1..Len(streams[t]) : FrameFits(streams[t][i])
      BY DEF GatewayInv, StreamInv
    <2>7. \A t \in Sessions : \A i \in 1..Len(streams'[t]) :
            streams'[t][i].kind = "claim" => EndsWith(t, i, streams[t][i].message)'
      BY <2>1, <2>5
    <2>8. \A t \in Sessions : Owned(logs[t])' /\ logs'[t].claim = "current" => EndsWith(t, 0, logs[t].request)'
      BY <2>2, <2>4 DEF Owned
    <2> QED BY <2>1, <2>6, <2>7, <2>8, GatewayTypes DEF StreamInv, FrameFits, Owned
  <1>2. CASE native[s].followed
    <2>1. PICK n \in Nat : n = Len(streams[s])
      BY <1>2, AppendFrame
    <2>2. /\ Len(streams'[s]) = n + 1 /\ streams'[s][n + 1] = frame /\ \A k \in 1..n : streams'[s][k] = streams[s][k]
          /\ \A t \in Sessions \ {s} : streams'[t] = streams[t]
      BY <1>2, <2>1, AppendFrame
    <2>3. ASSUME NEW t \in Sessions, NEW i \in 0..Len(streams[t]), NEW m \in Messages, EndsWith(t, i, m)
          PROVE  EndsWith(t, i, m)'
      <3>1. CASE t = s
        BY GatewayTypes, <1>2, <2>3, <3>1, EndsAppended
      <3>2. CASE t # s
        BY <2>2, <2>3, <3>2, EndsKept
      <3> QED BY <3>1, <3>2
    <2>4. ASSUME NEW t \in Sessions, NEW i \in 1..Len(streams[t]), streams[t][i].kind = "claim"
          PROVE  EndsWith(t, i, streams[t][i].message)'
      BY <2>4, <2>1, <2>2, <2>3 DEF GatewayInv, StreamInv, FrameFits
    <2>5. frame.kind = "claim" => EndsWith(s, n + 1, frame.message)'
      BY <2>1, <2>2 DEF EndsWith
    <2>6. \A t \in Sessions : \A i \in 1..Len(streams'[t]) :
            \/ i \in 1..Len(streams[t]) /\ streams'[t][i] = streams[t][i]
            \/ t = s /\ i = n + 1 /\ streams'[t][i] = frame
      BY <2>1, <2>2
    <2>7. ASSUME NEW t \in Sessions, NEW i \in 1..Len(streams'[t])
          PROVE  /\ FrameFits(streams'[t][i])
                 /\ streams'[t][i].kind = "claim" => EndsWith(t, i, streams[t][i].message)'
      BY <2>4, <2>5, <2>6 DEF GatewayInv, StreamInv
    <2>8. ASSUME NEW t \in Sessions, Owned(logs[t]), logs[t].claim = "current" PROVE EndsWith(t, 0, logs[t].request)'
      <3>1. PICK m \in Messages : m = logs[t].request /\ EndsWith(t, 0, m)
        BY <2>8, GatewayTypes DEF Owned, Log, GatewayInv, StreamInv
      <3>2. 0 \in 0..Len(streams[t])
        BY <2>1, GatewayTypes
      <3>3. EndsWith(t, 0, m)'
        BY <2>3, <3>1, <3>2
      <3> QED BY <3>1, <3>3
    <2>9. streams' \in [Sessions -> Seq(Frame)] /\ \A t \in Sessions : ~native[t].followed => streams'[t] = streams[t]
      BY <1>2, <2>2, AppendFrame
    <2> QED BY <2>7, <2>8, <2>9 DEF StreamInv, FrameFits, Owned
  <1> QED BY <1>1, <1>2

-------------------------------------------------------------------------------
(* Steps of the Gateway. *)

LEMMA RunsKept ==
  ASSUME GatewayInv, UNCHANGED runs, \A m \in Messages : worked[m] \in Verdicts => worked'[m] = worked[m],
         \A r \in Runs : posts'[r] = posts[r] \/ (posts[r] = "sent" /\ posts'[r] \in {"admitted", "refused"}),
         \A r \in Runs : worked'[r] # "none" => worked[r] # "none" \/ posts'[r] = "admitted"
  PROVE  RunInv'
  <1> SUFFICES ASSUME NEW r \in Runs PROVE RunFits(runs'[r], posts'[r], worked'[r])
    BY DEF RunInv, RunFits
  <1>1. RunFits(runs[r], posts[r], worked[r]) /\ runs[r] \in RunRec
    BY GatewayTypes DEF GatewayInv, RunInv
  <1>2. worked[r] \in Verdicts => worked'[r] = worked[r]
    BY GatewayTypes
  <1>3. runs[r].candidate # "none" => runs[r].candidate \in Verdicts
    BY <1>1 DEF RunRec
  <1>4. {"completed", "cancelled", "failed"} = Verdicts
    BY DEF Verdicts
  <1>5. /\ posts'[r] = posts[r] \/ (posts[r] = "sent" /\ posts'[r] \in {"admitted", "refused"})
        /\ worked'[r] # "none" => worked[r] # "none" \/ posts'[r] = "admitted"
    OBVIOUS
  <1> QED BY <1>1, <1>2, <1>3, <1>4, <1>5 DEF RunFits

(* What the Gateway does to one Session, and says of it. *)
LEMMA GatewayMoves ==
  ASSUME GatewayInv, NEW s \in Sessions, NEW frame \in Frame, FrameFits(frame), Emits(s, frame), UNCHANGED client,
         NEW now \in NativeRec, native' = [native EXCEPT ![s] = now], WorkInv', oddities' \in 0..MaxOddities,
         now.exists = native[s].exists, now.fresh = native[s].fresh, now.followed = native[s].followed,
         worked' \in [Messages -> Verdicts \cup {"none", "queued", "working", "dropped"}],
         \A m \in Messages : worked[m] \in Verdicts => worked'[m] = worked[m],
         native[s].message # NoRun =>
           IF frame.kind = "end" THEN worked'[native[s].message] = frame.verdict ELSE now.message = native[s].message,
         frame.kind = "claim" => now.message = frame.message,
         posts' \in [Runs -> {"none", "sent", "admitted", "refused"}],
         \A r \in Runs : posts'[r] = posts[r] \/ (posts[r] = "sent" /\ posts'[r] \in {"admitted", "refused"}),
         \A r \in Runs : worked'[r] # "none" => worked[r] # "none" \/ posts'[r] = "admitted",
         \A r \in Runs : worked'[r] \in {"queued", "working"} => worked[r] \in {"queued", "working"} \/ posts[r] = "sent"
  PROVE  GatewayInv'
  <1>1. /\ native' \in [Sessions -> NativeRec] /\ native'[s] = now
        /\ \A t \in Sessions \ {s} : native'[t] = native[t]
        /\ \A t \in Sessions : /\ native'[t].exists = native[t].exists /\ native'[t].fresh = native[t].fresh
                               /\ native'[t].followed = native[t].followed
    BY GatewayTypes
  <1>2. UNCHANGED <<closed, mutation, attached, logs, active, runs>>
    BY DEF client
  <1>3. /\ StreamInv' /\ streams' \in [Sessions -> Seq(Frame)]
        /\ \A t \in Sessions : ~native[t].followed => streams'[t] = streams[t]
    BY <1>1, <1>2, StreamsAppended
  <1>4. RunInv'
    BY <1>2, RunsKept
  <1>5. OwnerInv'
    BY GatewayTypes, <1>2 DEF GatewayInv, OwnerInv, Log, Owned
  <1>6. SessionInv'
    BY <1>1, <1>2, <1>3 DEF GatewayInv, SessionInv
  <1>7. GatewayTypeOK'
    BY <1>1, <1>2, <1>3 DEF GatewayInv, GatewayTypeOK, NativeRec
  <1> QED BY <1>3, <1>4, <1>5, <1>6, <1>7 DEF GatewayInv, GatewayAssumption

LEMMA NoLogFits == NoLog \in Log
  BY EmptySeq DEF NoLog, Log

LEMMA InboxFacts ==
  ASSUME GatewayInv, NEW s \in Sessions
  PROVE  /\ native[s] \in NativeRec /\ native[s].inbox \in Seq(Messages) /\ Len(native[s].inbox) \in Nat
         /\ native[s].inbox # <<>> =>
              /\ Head(native[s].inbox) \in Messages /\ Head(native[s].inbox) = native[s].inbox[1]
              /\ worked[Head(native[s].inbox)] = "queued" /\ Tail(native[s].inbox) \in Seq(Messages)
              /\ 1 \in 1..Len(native[s].inbox)
              /\ Len(Tail(native[s].inbox)) \in Nat /\ Len(native[s].inbox) = Len(Tail(native[s].inbox)) + 1
              /\ \A i \in 1..Len(Tail(native[s].inbox)) : Tail(native[s].inbox)[i] = native[s].inbox[i + 1]
  <1> DEFINE box == native[s].inbox
  <1>1. native[s] \in NativeRec /\ box \in Seq(Messages) /\ \A i \in 1..Len(box) : worked[box[i]] = "queued"
    BY GatewayTypes DEF NativeRec, GatewayInv, WorkInv
  <1> HIDE DEF box
  <1>2. Len(box) \in Nat /\ (box # <<>> => 1 \in 1..Len(box) /\ Head(box) \in Messages /\ Head(box) = box[1])
    BY <1>1
  <1>3. box # <<>> => /\ Tail(box) \in Seq(Messages) /\ Len(Tail(box)) \in Nat /\ Len(box) = Len(Tail(box)) + 1
                      /\ \A i \in 1..Len(Tail(box)) : Tail(box)[i] = box[i + 1]
    BY <1>1
  <1> QED BY <1>1, <1>2, <1>3 DEF box

(* The first message of an inbox is taken out. *)
LEMMA WorkTaken ==
  ASSUME GatewayInv, NEW s \in Sessions, native[s].inbox # <<>>, NEW m, m = Head(native[s].inbox), NEW now \in NativeRec,
         native' = [native EXCEPT ![s] = now], now.inbox = Tail(native[s].inbox), NEW work,
         worked' = [worked EXCEPT ![m] = work],
         \/ work = "working" /\ now.message = m /\ now.turn \in InTurn /\ native[s].message = NoRun
         \/ now.message = native[s].message /\ now.turn = native[s].turn
  PROVE  WorkInv'
  <1>1. /\ native'[s] = now /\ \A t \in Sessions \ {s} : native'[t] = native[t]
        /\ m \in Messages /\ worked'[m] = work /\ worked[m] = "queued" /\ \A n \in Messages \ {m} : worked'[n] = worked[n]
    BY GatewayTypes, InboxFacts
  <1>2. ASSUME NEW t \in Sessions, NEW i \in 1..Len(native'[t].inbox)
        PROVE  /\ native'[t].inbox[i] \in Messages \ {m} /\ worked[native'[t].inbox[i]] = "queued"
               /\ IF t = s THEN i + 1 \in 1..Len(native[s].inbox) /\ native'[t].inbox[i] = native[s].inbox[i + 1]
                  ELSE i \in 1..Len(native[t].inbox) /\ native'[t].inbox[i] = native[t].inbox[i]
    <2>1. CASE t = s
      <3>1. i + 1 \in 1..Len(native[s].inbox) /\ native'[t].inbox[i] = native[s].inbox[i + 1] /\ i + 1 # 1
        <4>1. PICK n \in Nat : n = Len(Tail(native[s].inbox))
          BY InboxFacts
        <4>2. i \in 1..n /\ Len(native[s].inbox) = n + 1 /\ native'[t].inbox = Tail(native[s].inbox)
          BY <1>1, <1>2, <2>1, <4>1, InboxFacts
        <4>3. native'[t].inbox[i] = native[s].inbox[i + 1]
          BY <4>1, <4>2, InboxFacts
        <4> QED BY <4>2, <4>3
      <3>2. native[s].inbox[i + 1] # native[s].inbox[1] /\ worked[native[s].inbox[i + 1]] = "queued"
        BY <3>1, InboxFacts DEF GatewayInv, WorkInv
      <3>3. native[s].inbox[i + 1] \in Messages /\ m = native[s].inbox[1]
        BY <3>1, InboxFacts
      <3> QED BY <2>1, <3>1, <3>2, <3>3
    <2>2. CASE t # s
      BY <1>1, <1>2, <2>2, InboxFacts, SMTT(60) DEF GatewayInv, WorkInv
    <2> QED BY <2>1, <2>2
  <1>3. ASSUME NEW t \in Sessions, NEW i \in 1..Len(native'[t].inbox) PROVE worked'[native'[t].inbox[i]] = "queued"
    BY <1>2, <1>1
  <1>4. ASSUME NEW t \in Sessions, NEW u \in Sessions, NEW i \in 1..Len(native'[t].inbox), NEW j \in 1..Len(native'[u].inbox),
               native'[t].inbox[i] = native'[u].inbox[j]
        PROVE  t = u /\ i = j
    BY <1>2, <1>4 DEF GatewayInv, WorkInv
  <1>5. ASSUME NEW t \in Sessions
        PROVE  /\ native'[t].message # NoRun <=> native'[t].turn \in InTurn
               /\ native'[t].message # NoRun => worked'[native'[t].message] = "working"
               /\ native'[t].message = native[t].message \/ (t = s /\ native'[t].message = m)
    <2>1. /\ native[t].message # NoRun <=> native[t].turn \in InTurn
          /\ native[t].message # NoRun => native[t].message \in Messages /\ worked[native[t].message] = "working"
      BY GatewayTypes DEF GatewayInv, WorkInv, NativeRec
    <2> QED BY <1>1, <2>1, GatewayTypes
  <1>6. \A t \in Sessions : native[t].message # m
    BY <1>1, GatewayTypes DEF GatewayInv, WorkInv
  <1>7. \A t, u \in Sessions : native'[t].message = native'[u].message => t = u \/ native'[t].message = NoRun
    BY <1>5, <1>6 DEF GatewayInv, WorkInv
  <1> QED BY <1>3, <1>4, <1>5, <1>7 DEF WorkInv

LEMMA WorkEnqueued ==
  ASSUME GatewayInv, NEW s \in Sessions, NEW m \in Messages, worked[m] = "none", worked' = [worked EXCEPT ![m] = "queued"],
         native' = [native EXCEPT ![s].inbox = Append(@, m)]
  PROVE  WorkInv'
  <1>1. PICK n \in Nat : n = Len(native[s].inbox)
    BY InboxFacts
  <1> DEFINE old == native[s].inbox
             new == Append(old, m)
  <1>2. old \in Seq(Messages) /\ n = Len(old)
    BY <1>1, InboxFacts
  <1>3. /\ native'[s].inbox = new /\ native'[s].message = native[s].message /\ native'[s].turn = native[s].turn
        /\ \A t \in Sessions \ {s} : native'[t] = native[t]
    BY GatewayTypes DEF NativeRec
  <1> HIDE DEF old
  <1>4. Len(new) = n + 1 /\ new[n + 1] = m /\ \A i \in 1..n : new[i] = old[i]
    BY <1>2
  <1> HIDE DEF new
  <1>5. worked'[m] = "queued" /\ \A k \in Messages \ {m} : worked'[k] = worked[k]
    BY GatewayTypes
  <1>6. ASSUME NEW t \in Sessions, NEW i \in 1..Len(native'[t].inbox)
        PROVE  \/ /\ i \in 1..Len(native[t].inbox) /\ native'[t].inbox[i] = native[t].inbox[i]
                  /\ worked[native[t].inbox[i]] = "queued" /\ native[t].inbox[i] \in Messages \ {m}
               \/ t = s /\ i = n + 1 /\ native'[t].inbox[i] = m
    <2>1. CASE t = s
      BY <1>3, <1>4, <1>6, <2>1, <1>2 DEF GatewayInv, WorkInv, old
    <2>2. CASE t # s
      <3>1. native'[t] = native[t] /\ i \in 1..Len(native[t].inbox)
        BY <1>3, <1>6, <2>2
      <3> QED BY <3>1, InboxFacts, SMTT(60) DEF GatewayInv, WorkInv
    <2> QED BY <2>1, <2>2
  <1>7. \A t \in Sessions : \A i \in 1..Len(native'[t].inbox) : worked'[native'[t].inbox[i]] = "queued"
    BY <1>5, <1>6
  <1>8. ASSUME NEW t \in Sessions, NEW u \in Sessions, NEW i \in 1..Len(native'[t].inbox), NEW j \in 1..Len(native'[u].inbox),
               native'[t].inbox[i] = native'[u].inbox[j]
        PROVE  t = u /\ i = j
    BY <1>6, <1>8 DEF GatewayInv, WorkInv
  <1>9. ASSUME NEW t \in Sessions
        PROVE  /\ native'[t].message = native[t].message /\ native'[t].turn = native[t].turn
               /\ native[t].message # NoRun => worked'[native[t].message] = "working"
    BY GatewayTypes, <1>3, <1>5 DEF GatewayInv, WorkInv, NativeRec
  <1> QED BY <1>7, <1>8, <1>9, SMTT(60) DEF GatewayInv, WorkInv

LEMMA EnqueueHolds ==
  ASSUME GatewayInv, NEW s \in Sessions, NEW m \in Messages, Enqueues(m, s), UNCHANGED client,
         \/ m = Foreign /\ UNCHANGED posts /\ Odd
         \/ m \in Runs /\ posts[m] = "sent" /\ posts' = [posts EXCEPT ![m] = "admitted"] /\ UNCHANGED oddities
  PROVE  GatewayInv'
  <1> DEFINE now == [native[s] EXCEPT !.inbox = Append(@, m)]
             frame == [Blank EXCEPT !.kind = "insert", !.message = m]
  <1>1. /\ native' = [native EXCEPT ![s] = now] /\ worked' = [worked EXCEPT ![m] = "queued"] /\ worked[m] = "none"
        /\ Emits(s, frame)
    BY GatewayTypes DEF Enqueues
  <1>2. WorkInv'
    BY <1>1, WorkEnqueued DEF Enqueues
  <1>3. Append(native[s].inbox, m) \in Seq(Messages)
    BY InboxFacts
  <1>4. /\ now \in NativeRec /\ now.exists = native[s].exists /\ now.fresh = native[s].fresh
        /\ now.followed = native[s].followed /\ now.message = native[s].message
    BY <1>3, InboxFacts DEF NativeRec
  <1>5. frame \in Frame /\ frame.kind = "insert" /\ frame.message = m /\ FrameFits(frame)
    BY NoLogFits, GatewayTypes DEF Frame, Blank, FrameFits
  <1>6. /\ worked' \in [Messages -> Verdicts \cup {"none", "queued", "working", "dropped"}]
        /\ \A k \in Messages : worked[k] \in Verdicts => worked'[k] = worked[k]
    BY <1>1, GatewayTypes DEF Verdicts
  <1>7. /\ posts' \in [Runs -> {"none", "sent", "admitted", "refused"}]
        /\ \A r \in Runs : posts'[r] = posts[r] \/ (posts[r] = "sent" /\ posts'[r] \in {"admitted", "refused"})
        /\ oddities' \in 0..MaxOddities
    BY GatewayTypes, SMTT(60) DEF Odd
  <1>8. \A r \in Runs : r # m => worked'[r] = worked[r]
    BY <1>1, GatewayTypes
  <1>9. m \in Runs => posts[m] = "sent" /\ posts'[m] = "admitted"
    BY GatewayTypes DEF GatewayInv, GatewayAssumption
  <1>10. /\ \A r \in Runs : worked'[r] # "none" => worked[r] # "none" \/ posts'[r] = "admitted"
         /\ \A r \in Runs : worked'[r] \in {"queued", "working"} => worked[r] \in {"queued", "working"} \/ posts[r] = "sent"
    BY <1>8, <1>9
  <1> HIDE DEF now, frame
  <1>11. frame.kind # "end" /\ frame.kind # "claim"
    BY <1>5
  <1>12. native[s].message # NoRun =>
           IF frame.kind = "end" THEN worked'[native[s].message] = frame.verdict ELSE now.message = native[s].message
    BY <1>4, <1>11
  <1> QED BY <1>1, <1>2, <1>4, <1>5, <1>6, <1>7, <1>10, <1>11, <1>12, GatewayMoves

LEMMA DropHolds == ASSUME GatewayInv, NEW s \in Sessions, Drops(s) PROVE GatewayInv'
  <1> DEFINE m == Head(native[s].inbox)
             now == [native[s] EXCEPT !.inbox = Tail(@)]
             frame == [Blank EXCEPT !.kind = "cancel", !.message = m]
  <1>1. /\ native' = [native EXCEPT ![s] = now] /\ worked' = [worked EXCEPT ![m] = "dropped"] /\ native[s].inbox # <<>>
        /\ Emits(s, frame) /\ Odd /\ UNCHANGED <<client, posts>>
    BY GatewayTypes DEF Drops
  <1>2. m \in Messages /\ worked[m] = "queued" /\ Tail(native[s].inbox) \in Seq(Messages) /\ native[s] \in NativeRec
    BY <1>1, InboxFacts
  <1>3. /\ now \in NativeRec /\ now.exists = native[s].exists /\ now.fresh = native[s].fresh
        /\ now.followed = native[s].followed /\ now.message = native[s].message /\ now.turn = native[s].turn
        /\ now.inbox = Tail(native[s].inbox)
    BY <1>2 DEF NativeRec
  <1>4. frame \in Frame /\ frame.kind = "cancel" /\ FrameFits(frame)
    BY <1>2, NoLogFits DEF Frame, Blank, FrameFits
  <1>5. /\ worked' \in [Messages -> Verdicts \cup {"none", "queued", "working", "dropped"}]
        /\ \A k \in Messages : worked[k] \in Verdicts => worked'[k] = worked[k]
        /\ \A r \in Runs : worked'[r] # "none" => worked[r] # "none"
        /\ \A r \in Runs : worked'[r] \in {"queued", "working"} => worked[r] \in {"queued", "working"}
    BY <1>1, <1>2, GatewayTypes DEF Verdicts
  <1>6. oddities' \in 0..MaxOddities /\ posts' \in [Runs -> {"none", "sent", "admitted", "refused"}]
    BY <1>1, GatewayTypes DEF Odd
  <1>7. WorkInv'
    <2> HIDE DEF now
    <2> QED BY <1>1, <1>3, WorkTaken
  <1> HIDE DEF now, frame, m
  <1>8. frame.kind # "end" /\ frame.kind # "claim" /\ UNCHANGED client /\ UNCHANGED posts
    BY <1>1, <1>4
  <1>9. native[s].message # NoRun =>
           IF frame.kind = "end" THEN worked'[native[s].message] = frame.verdict ELSE now.message = native[s].message
    BY <1>3, <1>8
  <1> QED BY <1>1, <1>3, <1>4, <1>5, <1>6, <1>7, <1>8, <1>9, GatewayMoves

LEMMA ClaimHolds == ASSUME GatewayInv, NEW s \in Sessions, Claims(s) PROVE GatewayInv'
  <1> DEFINE m == Head(native[s].inbox)
             now == [native[s] EXCEPT !.turn = "claimed", !.message = m, !.inbox = Tail(@)]
             frame == [Blank EXCEPT !.kind = "claim", !.message = m]
  <1>1. /\ native' = [native EXCEPT ![s] = now] /\ worked' = [worked EXCEPT ![m] = "working"] /\ native[s].inbox # <<>>
        /\ Emits(s, frame) /\ native[s].turn = "started" /\ UNCHANGED <<client, posts, oddities>>
    BY GatewayTypes DEF Claims
  <1>2. m \in Messages /\ worked[m] = "queued" /\ Tail(native[s].inbox) \in Seq(Messages) /\ native[s] \in NativeRec
    BY <1>1, InboxFacts
  <1>3. native[s].message = NoRun
    BY <1>1 DEF GatewayInv, WorkInv, InTurn
  <1>4. /\ now \in NativeRec /\ now.exists = native[s].exists /\ now.fresh = native[s].fresh
        /\ now.followed = native[s].followed /\ now.message = m /\ now.turn \in InTurn
        /\ now.inbox = Tail(native[s].inbox)
    BY <1>2 DEF NativeRec, Turns, InTurn
  <1>5. frame \in Frame /\ frame.kind = "claim" /\ frame.message = m /\ FrameFits(frame)
    BY <1>2, NoLogFits DEF Frame, Blank, FrameFits
  <1>6. /\ worked' \in [Messages -> Verdicts \cup {"none", "queued", "working", "dropped"}]
        /\ \A k \in Messages : worked[k] \in Verdicts => worked'[k] = worked[k]
        /\ \A r \in Runs : worked'[r] # "none" => worked[r] # "none"
        /\ \A r \in Runs : worked'[r] \in {"queued", "working"} => worked[r] \in {"queued", "working"}
    BY <1>1, <1>2, GatewayTypes DEF Verdicts
  <1>7. oddities' \in 0..MaxOddities /\ posts' \in [Runs -> {"none", "sent", "admitted", "refused"}]
    BY <1>1, GatewayTypes
  <1>8. WorkInv'
    <2> HIDE DEF now
    <2> QED BY <1>1, <1>3, <1>4, WorkTaken
  <1> HIDE DEF now, frame, m
  <1>9. /\ native[s].message # NoRun =>
           IF frame.kind = "end" THEN worked'[native[s].message] = frame.verdict ELSE now.message = native[s].message
        /\ frame.kind = "claim" => now.message = frame.message
    BY <1>3, <1>4, <1>5
  <1> QED BY <1>1, <1>3, <1>4, <1>5, <1>6, <1>7, <1>8, <1>9, GatewayMoves

LEMMA EndHolds == ASSUME GatewayInv, NEW s \in Sessions, NEW verdict \in Verdicts, EndsTurn(s, verdict) PROVE GatewayInv'
  <1> DEFINE m == native[s].message
             now == [native[s] EXCEPT !.turn = "idle", !.message = NoRun]
             frame == [Blank EXCEPT !.kind = "end", !.verdict = verdict]
  <1>1. /\ native' = [native EXCEPT ![s] = now] /\ worked' = [worked EXCEPT ![m] = verdict]
        /\ Emits(s, frame) /\ native[s].turn \in InTurn /\ UNCHANGED <<client, posts, oddities>>
    BY GatewayTypes DEF EndsTurn, InTurn
  <1>2. m \in Messages /\ worked[m] = "working" /\ native[s] \in NativeRec
    BY <1>1, InboxFacts DEF GatewayInv, WorkInv, NativeRec
  <1>3. /\ now \in NativeRec /\ now.exists = native[s].exists /\ now.fresh = native[s].fresh
        /\ now.followed = native[s].followed /\ now.message = NoRun /\ now.turn = "idle" /\ now.inbox = native[s].inbox
    BY <1>2 DEF NativeRec, Turns
  <1>4. frame \in Frame /\ frame.kind = "end" /\ frame.verdict = verdict /\ FrameFits(frame)
    BY NoLogFits DEF Frame, Blank, FrameFits
  <1>5. /\ worked' \in [Messages -> Verdicts \cup {"none", "queued", "working", "dropped"}] /\ worked'[m] = verdict
        /\ \A k \in Messages \ {m} : worked'[k] = worked[k]
    BY <1>1, <1>2, GatewayTypes
  <1>6. /\ \A k \in Messages : worked[k] \in Verdicts => worked'[k] = worked[k]
        /\ \A r \in Runs : worked'[r] # "none" => worked[r] # "none"
        /\ \A r \in Runs : worked'[r] \in {"queued", "working"} => worked[r] \in {"queued", "working"}
    BY <1>2, <1>5, GatewayTypes DEF Verdicts
  <1>7. oddities' \in 0..MaxOddities /\ posts' \in [Runs -> {"none", "sent", "admitted", "refused"}]
    BY <1>1, GatewayTypes
  <1>8. /\ native'[s] = now /\ \A t \in Sessions \ {s} : native'[t] = native[t]
        /\ \A t \in Sessions : native'[t].inbox = native[t].inbox
    BY <1>1, <1>3, GatewayTypes
  <1>9. WorkInv'
    <2>1. \A t \in Sessions : \A i \in 1..Len(native[t].inbox) : worked'[native[t].inbox[i]] = "queued"
      BY InboxFacts, <1>2, <1>5 DEF GatewayInv, WorkInv
    <2>2. ASSUME NEW t \in Sessions \ {s}, native[t].message # NoRun PROVE worked'[native[t].message] = "working"
      BY <1>2, <1>5, <2>2, InboxFacts DEF GatewayInv, WorkInv, NativeRec
    <2>3. /\ \A t \in Sessions : native'[t].message # NoRun <=> native'[t].turn \in InTurn
          /\ \A t, u \in Sessions : native'[t].message = native'[u].message => t = u \/ native'[t].message = NoRun
      <3> HIDE DEF now
      <3>1. /\ native'[s].message = NoRun /\ native'[s].turn \notin InTurn
            /\ \A t \in Sessions \ {s} : native'[t].message = native[t].message /\ native'[t].turn = native[t].turn
        BY <1>3, <1>8 DEF InTurn
      <3> QED BY <3>1 DEF GatewayInv, WorkInv
    <2>4. ASSUME NEW t \in Sessions, native'[t].message # NoRun PROVE worked'[native'[t].message] = "working"
      <3> HIDE DEF now
      <3>1. t # s /\ native'[t] = native[t]
        BY <1>3, <1>8, <2>4
      <3> QED BY <2>2, <2>4, <3>1
    <2> QED BY <1>8, <2>1, <2>3, <2>4 DEF GatewayInv, WorkInv
  <1> HIDE DEF now, frame
  <1> QED BY <1>1, <1>3, <1>4, <1>5, <1>6, <1>7, <1>9, GatewayMoves

LEMMA MoveHolds ==
  ASSUME GatewayInv, NEW s \in Sessions, NEW from, NEW to \in Turns, from \in InTurn <=> to \in InTurn,
         NEW kind \in {"turn", "step", "user", "output", "stepEnd"}, Moves(s, from, to, kind)
  PROVE  GatewayInv'
  <1> DEFINE now == [native[s] EXCEPT !.turn = to]
             frame == [Blank EXCEPT !.kind = kind, !.message = native[s].message]
  <1>1. /\ native' = [native EXCEPT ![s] = now] /\ Emits(s, frame) /\ native[s].turn = from
        /\ UNCHANGED <<client, worked, posts, oddities>>
    BY GatewayTypes DEF Moves, Says
  <1>2. native[s] \in NativeRec /\ native[s].message \in Messages \cup {NoRun}
    BY InboxFacts DEF NativeRec
  <1>3. /\ now \in NativeRec /\ now.exists = native[s].exists /\ now.fresh = native[s].fresh
        /\ now.followed = native[s].followed /\ now.message = native[s].message /\ now.turn = to
        /\ now.inbox = native[s].inbox
    BY <1>2 DEF NativeRec
  <1>4. frame \in Frame /\ frame.kind = kind /\ FrameFits(frame)
    BY <1>2, NoLogFits DEF Frame, Blank, FrameFits
  <1> HIDE DEF now, frame
  <1>5. /\ worked' \in [Messages -> Verdicts \cup {"none", "queued", "working", "dropped"}]
        /\ posts' \in [Runs -> {"none", "sent", "admitted", "refused"}] /\ oddities' \in 0..MaxOddities
        /\ UNCHANGED client /\ worked' = worked /\ posts' = posts
    BY <1>1, GatewayTypes
  <1>6. /\ native'[s] = now
        /\ \A t \in Sessions : /\ native'[t].message = native[t].message /\ native'[t].inbox = native[t].inbox
                               /\ native'[t].turn \in InTurn <=> native[t].turn \in InTurn
    BY <1>1, <1>3, GatewayTypes
  <1>7. WorkInv'
    BY <1>5, <1>6, SMTT(60) DEF GatewayInv, WorkInv
  <1>8. frame.kind # "end" /\ frame.kind # "claim"
    BY <1>4
  <1>9. native[s].message # NoRun =>
           IF frame.kind = "end" THEN worked'[native[s].message] = frame.verdict ELSE now.message = native[s].message
    BY <1>3, <1>8
  <1> QED BY <1>1, <1>3, <1>4, <1>5, <1>7, <1>8, <1>9, GatewayMoves

LEMMA WorksHolds == ASSUME GatewayInv, NEW s \in Sessions, Works(s) PROVE GatewayInv'
  <1>1. /\ {"started", "claimed", "step", "said", "shown", "stepped"} \subseteq Turns
        /\ "idle" \notin InTurn /\ "started" \notin InTurn /\ {"claimed", "step", "said", "shown", "stepped"} \subseteq InTurn
    BY DEF Turns, InTurn
  <1>2. CASE Moves(s, "idle", "started", "turn")
    BY <1>1, <1>2, MoveHolds
  <1>3. CASE Moves(s, "claimed", "step", "step")
    BY <1>1, <1>3, MoveHolds
  <1>4. CASE Moves(s, "step", "said", "user")
    BY <1>1, <1>4, MoveHolds
  <1>5. CASE Moves(s, "said", "shown", "output")
    BY <1>1, <1>5, MoveHolds
  <1>6. CASE Moves(s, "said", "stepped", "stepEnd")
    BY <1>1, <1>6, MoveHolds
  <1>7. CASE Moves(s, "shown", "stepped", "stepEnd")
    BY <1>1, <1>7, MoveHolds
  <1> QED BY <1>2, <1>3, <1>4, <1>5, <1>6, <1>7, ClaimHolds, EndHolds DEF Works

LEMMA IrregularHolds ==
  ASSUME GatewayInv, NEW s \in Sessions, NEW kind \in {"title", "seed", "required", "gap"}, Irregular(s, kind)
  PROVE  GatewayInv'
  <1> DEFINE frame == [Blank EXCEPT !.kind = kind, !.message = native[s].message]
  <1>1. Emits(s, frame) /\ Odd /\ UNCHANGED <<client, native, worked, posts>>
    BY DEF Irregular, Says
  <1>2. PICK now \in NativeRec : now = native[s]
    BY InboxFacts
  <1>10. now.message \in Messages \cup {NoRun}
    BY DEF NativeRec
  <1>3. native' = [native EXCEPT ![s] = now]
    BY <1>1, <1>2, GatewayTypes
  <1>4. frame \in Frame /\ frame.kind = kind /\ FrameFits(frame)
    BY <1>2, <1>10, NoLogFits DEF Frame, Blank, FrameFits
  <1> HIDE DEF frame
  <1>5. /\ worked' \in [Messages -> Verdicts \cup {"none", "queued", "working", "dropped"}]
        /\ posts' \in [Runs -> {"none", "sent", "admitted", "refused"}] /\ oddities' \in 0..MaxOddities
        /\ UNCHANGED client /\ worked' = worked /\ posts' = posts 
    BY <1>1, GatewayTypes DEF Odd
  <1>6. WorkInv'
    BY <1>1, <1>5 DEF GatewayInv, WorkInv
  <1>7. frame.kind # "end" /\ frame.kind # "claim"
    BY <1>4
  <1>8. native[s].message # NoRun =>
           IF frame.kind = "end" THEN worked'[native[s].message] = frame.verdict ELSE now.message = native[s].message
    BY <1>2, <1>7
  <1>9. now.exists = native[s].exists /\ now.fresh = native[s].fresh /\ now.followed = native[s].followed
    BY <1>2
  <1>11. /\ \A r \in Runs : posts'[r] = posts[r] \/ (posts[r] = "sent" /\ posts'[r] \in {"admitted", "refused"})
         /\ \A m \in Messages : worked[m] \in Verdicts => worked'[m] = worked[m]
         /\ \A r \in Runs : worked'[r] # "none" => worked[r] # "none" \/ posts'[r] = "admitted"
         /\ \A r \in Runs : worked'[r] \in {"queued", "working"} => worked[r] \in {"queued", "working"} \/ posts[r] = "sent"
    BY <1>5
  <1>12. Emits(s, frame) /\ frame.kind = "claim" => now.message = frame.message
    BY <1>7
  <1>13. Emits(s, frame)
    BY <1>1
  <1> QED BY <1>11, <1>12, <1>13, <1>3, <1>4, <1>5, <1>6, <1>7, <1>8, <1>9, GatewayMoves

LEMMA PromptsHold ==
  ASSUME GatewayInv, NEW r \in Runs, NEW s \in Sessions, Admits(r) \/ OthersPrompt(s)
  PROVE  GatewayInv'
  <1>1. CASE Admits(r)
    BY <1>1, GatewayTypes, EnqueueHolds DEF Admits, Enqueues, RunRec, GatewayInv, RunInv, RunFits
  <1>2. CASE OthersPrompt(s)
    BY <1>2, EnqueueHolds DEF OthersPrompt, Messages
  <1> QED BY <1>1, <1>2

LEMMA RefusesHolds == ASSUME GatewayInv, NEW r \in Runs, Refuses(r) PROVE GatewayInv'
  <1>1. /\ posts[r] = "sent" /\ posts' = [posts EXCEPT ![r] = "refused"] /\ posts' \in [Runs -> {"none", "sent", "admitted", "refused"}]
        /\ \A t \in Runs : posts'[t] = posts[t] \/ (posts[t] = "sent" /\ posts'[t] \in {"admitted", "refused"})
        /\ \A t \in Runs : posts'[t] = "sent" => posts[t] = "sent"
    BY GatewayTypes DEF Refuses
  <1>2. UNCHANGED <<closed, mutation, attached, logs, active, runs, native, worked, streams, oddities>>
    BY DEF Refuses, client
  <1>3. RunInv' /\ StreamInv'
    BY <1>1, <1>2, RunsKept, StreamsKept
  <1>4. OwnerInv' /\ SessionInv' /\ WorkInv'
    BY <1>1, <1>2 DEF GatewayInv, OwnerInv, SessionInv, WorkInv, Owned
  <1> QED BY <1>1, <1>2, <1>3, <1>4 DEF GatewayInv, GatewayTypeOK, GatewayAssumption

-------------------------------------------------------------------------------
(* The end of the Client. *)

Ended(run) == [run EXCEPT !.final = "connection_aborted"]

LEMMA EndedFits ==
  ASSUME NEW run \in RunRec
  PROVE  /\ Ended(run) \in RunRec /\ [Ended(run) EXCEPT !.call = "refused"] \in RunRec
         /\ [run EXCEPT !.call = "refused"] \in RunRec
  BY DEF Ended, RunRec, Terminals

LEMMA ReleasedFits ==
  ASSUME NEW log \in Log
  PROVE  Released(log) \in Log /\ Released(log).request = NoRun
  BY DEF Released, Log

LEMMA UnfollowedFits ==
  ASSUME NEW one \in NativeRec, NEW now, now = [one EXCEPT !.followed = FALSE]
  PROVE  /\ now \in NativeRec /\ now.exists = one.exists /\ now.fresh = one.fresh /\ now.inbox = one.inbox
         /\ now.message = one.message /\ now.turn = one.turn /\ now.followed = FALSE
  BY DEF NativeRec

LEMMA ClosedHolds ==
  ASSUME GatewayInv, closed' = TRUE, streams' = [s \in Sessions |-> <<>>],
         native' = [s \in Sessions |-> [native[s] EXCEPT !.followed = FALSE]], active' = NoRun,
         logs' \in [Sessions -> Log], \A s \in Sessions : logs'[s].request = NoRun, runs' \in [Runs -> RunRec],
         \A r \in Runs : IF active = r
           THEN \/ runs'[r] = Ended(runs[r])
                \/ runs[r].call = "prompting" /\ runs'[r] = [Ended(runs[r]) EXCEPT !.call = "refused"]
           ELSE runs'[r] = runs[r],
         mutation' \in {mutation, NoMutation}, attached' \in {attached, {}}, UNCHANGED <<worked, posts, oddities>>
  PROVE  GatewayInv'
  <1>1. /\ native' \in [Sessions -> NativeRec]
        /\ \A s \in Sessions : /\ native'[s].exists = native[s].exists /\ native'[s].fresh = native[s].fresh
                               /\ native'[s].inbox = native[s].inbox /\ native'[s].message = native[s].message
                               /\ native'[s].turn = native[s].turn /\ native'[s].followed = FALSE
    <2>1. \A s \in Sessions : native[s] \in NativeRec /\ native'[s] = [native[s] EXCEPT !.followed = FALSE]
      BY GatewayTypes
    <2>2. \A s \in Sessions : native'[s] \in NativeRec
      BY <2>1, UnfollowedFits
    <2> QED BY <2>1, <2>2, UnfollowedFits, ZenonT(60)
  <1>2. mutation' \in MutationRec /\ NoMutation.at = "none" /\ NoMutation.kind = "none"
    BY GatewayTypes DEF NoMutation, MutationRec
  <1>3. streams' \in [Sessions -> Seq(Frame)] /\ \A s \in Sessions : streams'[s] = <<>> /\ Len(streams'[s]) = 0
    BY EmptySeq
  <1>4. WorkInv'
    BY <1>1 DEF GatewayInv, WorkInv
  <1>5. StreamInv'
    BY <1>3 DEF StreamInv, Owned
  <1>6. RunInv'
    <2> SUFFICES ASSUME NEW r \in Runs PROVE RunFits(runs'[r], posts[r], worked[r])
      BY DEF RunInv, RunFits
    <2>1. RunFits(runs[r], posts[r], worked[r]) /\ runs[r] \in RunRec
      BY GatewayTypes DEF GatewayInv, RunInv
    <2>2. active = r => runs[r].call \in {"prompting", "returned"}
      BY GatewayTypes DEF GatewayInv, OwnerInv
    <2>3. CASE active # r
      BY <2>1, <2>3
    <2>4. CASE active = r /\ runs'[r] = Ended(runs[r])
      BY <2>1, <2>2, <2>4 DEF RunFits, Ended, RunRec
    <2>5. CASE active = r /\ runs[r].call = "prompting" /\ runs'[r] = [Ended(runs[r]) EXCEPT !.call = "refused"]
      BY <2>1, <2>2, <2>5 DEF RunFits, Ended, RunRec
    <2> QED BY <2>3, <2>4, <2>5
  <1>7. OwnerInv'
    <2>1. ASSUME NEW r \in Runs PROVE runs'[r].call # "idle" /\ runs'[r].final = "none" => FALSE
      <3>1. active = r => runs'[r].final = "connection_aborted"
        BY GatewayTypes, ZenonT(60) DEF Ended, RunRec
      <3>2. active # r => runs'[r] = runs[r]
        OBVIOUS
      <3> QED BY <3>1, <3>2 DEF GatewayInv, OwnerInv
    <2> QED BY <2>1 DEF OwnerInv, Owned
  <1>8. SessionInv'
    <2>1. IsFiniteSet(attached') /\ Cardinality(attached') <= MaxSessions
      <3>1. IsFiniteSet({}) /\ Cardinality({}) = 0 /\ MaxSessions \in Nat \ {0}
        BY FS_EmptySet DEF GatewayInv, GatewayAssumption
      <3>2. IsFiniteSet(attached) /\ Cardinality(attached) <= MaxSessions
        BY DEF GatewayInv, SessionInv
      <3>3. attached' = {} \/ attached' = attached
        OBVIOUS
      <3>4. CASE attached' = {}
        BY <3>1, <3>4
      <3>5. CASE attached' = attached
        BY <3>2, <3>5
      <3> QED BY <3>3, <3>4, <3>5
    <2>2. attached' \subseteq attached
      OBVIOUS
    <2>3. mutation'.kind \in {"create", "fork", "resume"} => Cardinality(attached') < MaxSessions
      <3>1. Cardinality({}) = 0 /\ MaxSessions \in Nat \ {0}
        BY FS_EmptySet DEF GatewayInv, GatewayAssumption
      <3>2. mutation.kind \in {"create", "fork", "resume"} => Cardinality(attached) < MaxSessions
        BY DEF GatewayInv, SessionInv
      <3>3. attached' = {} \/ attached' = attached
        OBVIOUS
      <3>4. CASE attached' = {}
        BY <3>1, <3>4
      <3>5. CASE attached' = attached
        BY <1>2, <3>2, <3>5
      <3> QED BY <3>3, <3>4, <3>5
    <2>4. mutation'.at = "follow" \/ (mutation'.at = "done" /\ mutation'.kind # "cancel") =>
            /\ mutation'.kind \in {"create", "fork", "resume"} /\ mutation'.session \in Sessions \ attached'
            /\ native'[mutation'.session].exists
      BY <1>1, <1>2, <2>2 DEF GatewayInv, SessionInv
    <2> QED BY <1>1, <1>3, <2>1, <2>2, <2>3, <2>4 DEF GatewayInv, SessionInv
  <1> QED BY <1>1, <1>2, <1>3, <1>4, <1>5, <1>6, <1>7, <1>8, GatewayTypes
          DEF GatewayInv, GatewayTypeOK, GatewayAssumption, MutationRec, NativeRec, RunRec

LEMMA AbortHolds ==
  ASSUME GatewayInv, Abort, mutation' \in {mutation, NoMutation}, attached' \in {attached, {}},
         UNCHANGED <<worked, posts, oddities>>
  PROVE  GatewayInv'
  <1>1. \A r \in Runs : Ended(runs[r]) \in RunRec
    BY GatewayTypes, EndedFits
  <1>2. runs' \in [Runs -> RunRec] /\ \A r \in Runs : runs'[r] = IF active = r THEN Ended(runs[r]) ELSE runs[r]
    BY <1>1, GatewayTypes DEF Abort, Ended
  <1>3. \A s \in Sessions : Released(logs[s]) \in Log /\ Released(logs[s]).request = NoRun
    BY GatewayTypes, ReleasedFits
  <1>4. \A s \in Sessions : Owned(logs[s]) => active # NoRun /\ runs[active].session = s
    BY DEF GatewayInv, OwnerInv, Owned
  <1>5. logs' \in [Sessions -> Log] /\ \A s \in Sessions : logs'[s].request = NoRun
    BY <1>3, <1>4, GatewayTypes DEF Abort, Owned
  <1> QED BY <1>2, <1>5, ClosedHolds DEF Abort

LEMMA UncertainHolds == ASSUME GatewayInv, NEW r \in Runs, PromptUncertain(r) PROVE GatewayInv'
  <1>1. runs[r] \in RunRec /\ runs[r].call = "prompting" /\ UNCHANGED <<mutation, attached, worked, posts, oddities>>
    BY GatewayTypes DEF PromptUncertain
  <1>2. CASE closed
    <2>1. /\ runs' = [runs EXCEPT ![r].call = "refused"]
          /\ UNCHANGED <<closed, active, logs, native, streams, mutation, attached, worked, posts, oddities>>
      BY <1>1, <1>2 DEF PromptUncertain
    <2>2. runs' \in [Runs -> RunRec] /\ runs'[r] = [runs[r] EXCEPT !.call = "refused"] /\ \A t \in Runs \ {r} : runs'[t] = runs[t]
      BY <1>1, <2>1, GatewayTypes, EndedFits
    <2>3. active = NoRun /\ runs[r].final # "none"
      BY <1>1, <1>2, GatewayTypes DEF GatewayInv, OwnerInv
    <2>4. RunFits(runs'[r], posts[r], worked[r])
      BY <1>1, <2>2, <2>3 DEF GatewayInv, RunInv, RunFits, RunRec
    <2>5. RunInv'
      BY <2>1, <2>2, <2>4 DEF GatewayInv, RunInv, RunFits
    <2>6. StreamInv'
      BY <2>1, StreamsKept
    <2>7. runs'[r].final = runs[r].final
      BY <1>1, <2>2 DEF RunRec
    <2>8. OwnerInv'
      BY <1>2, <2>1, <2>2, <2>3, <2>7 DEF GatewayInv, OwnerInv, Owned
    <2> QED BY <2>1, <2>2, <2>5, <2>6, <2>8 DEF GatewayInv, GatewayTypeOK, GatewayAssumption, WorkInv, SessionInv, RunRec
  <1>3. CASE ~closed
    <2>1. active = r /\ runs[r].final = "none" /\ runs[r].session \in Sessions /\ logs[runs[r].session].request = r
      BY <1>1, <1>3, GatewayTypes DEF GatewayInv, OwnerInv
    <2>2. /\ runs' = [[runs EXCEPT ![r].call = "refused"] EXCEPT ![r].final = IF @ = "none" THEN "connection_aborted" ELSE @]
          /\ active' = NoRun /\ logs' = Freed(r, logs) /\ closed' = TRUE /\ streams' = [s \in Sessions |-> <<>>]
          /\ native' = [s \in Sessions |-> [native[s] EXCEPT !.followed = FALSE]]
      BY <1>3, <2>1 DEF PromptUncertain, Finish
    <2>3. /\ runs'[r] = [Ended(runs[r]) EXCEPT !.call = "refused"] /\ runs'[r] \in RunRec
          /\ runs' \in [Runs -> RunRec] /\ \A t \in Runs \ {r} : runs'[t] = runs[t]
      BY <1>1, <2>1, <2>2, GatewayTypes DEF Ended, RunRec, Terminals
    <2>4. /\ logs' \in [Sessions -> Log] /\ logs'[runs[r].session].request = NoRun
          /\ \A s \in Sessions : s # runs[r].session => logs'[s] = logs[s]
      BY <2>1, <2>2, GatewayTypes, ReleasedFits DEF Freed
    <2>5. \A s \in Sessions : logs'[s].request = NoRun
      BY <2>1, <2>4 DEF GatewayInv, OwnerInv, Owned
    <2> QED BY <1>1, <2>1, <2>2, <2>3, <2>4, <2>5, ClosedHolds
  <1> QED BY <1>2, <1>3

-------------------------------------------------------------------------------
(* Runs of the Client. *)

LEMMA StartHolds == ASSUME GatewayInv, NEW r \in Runs, NEW s \in Sessions, StartRun(r, s) PROVE GatewayInv'
  <1>1. /\ ~closed /\ active = NoRun /\ s \in attached /\ runs[r].call = "idle" /\ active' = r
        /\ runs' = [runs EXCEPT ![r].call = "prompting", ![r].session = s]
        /\ logs' = [logs EXCEPT ![s] = Begun(@, r)] /\ posts' = [posts EXCEPT ![r] = "sent"]
        /\ UNCHANGED <<closed, mutation, attached, native, worked, streams, oddities>>
    BY DEF StartRun
  <1>2. /\ runs' \in [Runs -> RunRec] /\ runs'[r] = [runs[r] EXCEPT !.call = "prompting", !.session = s]
        /\ \A q \in Runs \ {r} : runs'[q] = runs[q]
    <2>1. PICK run \in RunRec : run = runs[r]
      BY GatewayTypes
    <2>2. [run EXCEPT !.call = "prompting", !.session = s] \in RunRec
      BY DEF RunRec
    <2> QED BY <1>1, <2>1, <2>2, GatewayTypes
  <1>3. /\ runs'[r].call = "prompting" /\ runs'[r].session = s /\ runs'[r].accepted = runs[r].accepted
        /\ runs'[r].candidate = runs[r].candidate /\ runs'[r].final = runs[r].final
    BY <1>2, GatewayTypes DEF RunRec
  <1>4. /\ logs' \in [Sessions -> Log] /\ logs'[s].request = r /\ logs'[s].claim = "none" /\ logs'[s].final = "none"
        /\ \A t \in Sessions \ {s} : logs'[t] = logs[t]
    <2>1. PICK log \in Log : log = logs[s]
      BY GatewayTypes
    <2>2. Begun(log, r) \in Log /\ Begun(log, r).request = r /\ Begun(log, r).claim = "none" /\ Begun(log, r).final = "none"
      BY DEF Begun, Log
    <2> QED BY <1>1, <2>1, <2>2, GatewayTypes
  <1>5. /\ posts' \in [Runs -> {"none", "sent", "admitted", "refused"}] /\ posts'[r] = "sent"
        /\ \A q \in Runs \ {r} : posts'[q] = posts[q]
    BY <1>1, GatewayTypes
  <1>6. RunFits(runs[r], posts[r], worked[r]) /\ \A t \in Sessions : ~Owned(logs[t])
    BY <1>1 DEF GatewayInv, RunInv, OwnerInv, Owned
  <1>7. RunInv'
    BY <1>1, <1>3, <1>5, <1>6, GatewayTypes, <1>2 DEF RunFits, RunRec, GatewayInv, RunInv
  <1>8. OwnerInv'
    BY <1>1, <1>2, GatewayTypes, <1>5, <1>3, <1>6, <1>4 DEF GatewayInv, OwnerInv, RunFits, Owned
  <1>9. StreamInv'
    BY <1>4, <1>6, <1>1, StreamsKept DEF Owned
  <1>10. WorkInv' /\ SessionInv'
    BY <1>1 DEF GatewayInv, WorkInv, SessionInv
  <1> QED BY <1>1, <1>2, <1>4, <1>5, <1>7, <1>8, <1>9, <1>10
          DEF GatewayInv, GatewayTypeOK, GatewayAssumption, RunRec

(* The active Run goes on or is over: its log goes with it. *)
LEMMA RunSteps ==
  ASSUME GatewayInv, NEW r \in Runs, active = r, NEW now \in RunRec, runs' = [runs EXCEPT ![r] = now],
         RunFits(now, posts[r], worked[r]), now.call # "prompting", now.session = runs[r].session,
         logs' \in [Sessions -> Log], \A s \in Sessions : s # runs[r].session => logs'[s] = logs[s],
         \/ /\ active' = NoRun /\ now.final # "none" /\ posts[r] # "sent" /\ worked[r] \notin {"queued", "working"}
            /\ logs'[runs[r].session].request = NoRun
         \/ active' = r /\ now.call = "returned" /\ now.final = "none" /\ logs' = logs,
         StreamInv', streams' \in [Sessions -> Seq(Frame)], \A s \in Sessions : streams[s] = <<>> => streams'[s] = <<>>,
         UNCHANGED <<closed, mutation, attached, native, worked, posts, oddities>>
  PROVE  GatewayInv'
  <1>1. runs' \in [Runs -> RunRec] /\ runs'[r] = now /\ \A q \in Runs \ {r} : runs'[q] = runs[q]
    BY GatewayTypes
  <1>2. /\ ~closed /\ runs[r].session \in Sessions /\ runs[r].session \in attached /\ logs[runs[r].session].request = r
    BY GatewayTypes DEF GatewayInv, OwnerInv
  <1>3. \A s \in Sessions : s # runs[r].session => ~Owned(logs[s])
    BY DEF GatewayInv, OwnerInv, Owned
  <1>4. RunInv'
    BY <1>1 DEF GatewayInv, RunInv, RunFits
  <1>5. \A q \in Runs \ {r} : /\ runs'[q].call # "idle" /\ runs'[q].final = "none" => FALSE
                              /\ runs'[q].call # "prompting"
                              /\ posts[q] # "sent" /\ worked[q] \notin {"queued", "working"}
    BY <1>1, <1>2 DEF GatewayInv, OwnerInv
  <1>6. OwnerInv'
    <2>1. CASE active' = NoRun /\ now.final # "none"
      <3>1. \A s \in Sessions : ~Owned(logs'[s])
        BY <1>2, <1>3, <2>1, GatewayTypes DEF Owned
      <3>2. posts[r] # "sent" /\ worked[r] \notin {"queued", "working"}
        BY <2>1, GatewayTypes
      <3> QED BY <1>1, <1>5, <2>1, <3>1, <3>2 DEF OwnerInv
    <2>2. CASE active' = r /\ now.call = "returned" /\ now.final = "none" /\ logs' = logs
      BY <1>1, <1>2, <1>3, <1>5, <2>2 DEF GatewayInv, OwnerInv, Owned
    <2> QED BY <2>1, <2>2
  <1>7. WorkInv' /\ SessionInv'
    BY DEF GatewayInv, WorkInv, SessionInv
  <1> QED BY <1>1, <1>4, <1>6, <1>7, GatewayTypes
          DEF GatewayInv, GatewayTypeOK, GatewayAssumption, RunRec

LEMMA Finished ==
  ASSUME GatewayInv, NEW r \in Runs, active = r, NEW one \in RunRec, one.final = "none", NEW result,
         NEW now, now = [runs EXCEPT ![r] = one], Finish(r, now, result)
  PROVE  runs' = [runs EXCEPT ![r] = [one EXCEPT !.final = result]] /\ active' = NoRun
  <1>1. now \in [Runs -> RunRec] /\ now[r] = one
    BY GatewayTypes
  <1>2. runs' = [now EXCEPT ![r] = [one EXCEPT !.final = result]] /\ active' = NoRun
    BY <1>1 DEF Finish
  <1> QED BY <1>2, GatewayTypes

LEMMA AnswerHolds == ASSUME GatewayInv, NEW r \in Runs, Acknowledged(r) \/ Rejected(r) PROVE GatewayInv'
  <1>1. /\ runs[r].call = "prompting" /\ ~closed
        /\ UNCHANGED <<closed, native, streams, mutation, attached, worked, posts, oddities>>
    BY DEF Acknowledged, Rejected
  <1>2. /\ active = r /\ runs[r].final = "none" /\ runs[r].session \in Sessions /\ runs[r] \in RunRec
        /\ RunFits(runs[r], posts[r], worked[r])
    BY <1>1, GatewayTypes DEF GatewayInv, OwnerInv, RunInv
  <1>3. streams' \in [Sessions -> Seq(Frame)] /\ \A s \in Sessions : streams[s] = <<>> => streams'[s] = <<>>
    BY <1>1, GatewayTypes
  <1>4. ASSUME logs' = Freed(r, logs)
        PROVE  /\ logs' \in [Sessions -> Log] /\ logs'[runs[r].session].request = NoRun
               /\ \A s \in Sessions : s # runs[r].session => logs'[s] = logs[s]
               /\ StreamInv'
    BY <1>2, <1>4, GatewayTypes, ReleasedFits, <1>1, StreamsKept DEF Freed, Owned
  <1>5. CASE Rejected(r)
    <2>1. PICK now \in RunRec : now = [[runs[r] EXCEPT !.call = "refused"] EXCEPT !.final = "failed"]
      BY <1>2 DEF RunRec, Terminals, Verdicts
    <2>2. /\ runs' = [runs EXCEPT ![r] = now] /\ active' = NoRun /\ posts[r] = "refused" /\ logs' = Freed(r, logs)
      <3>1. PICK one \in RunRec : one = [runs[r] EXCEPT !.call = "refused"]
        BY <1>2 DEF RunRec
      <3>2. one.final = "none" /\ [runs EXCEPT ![r].call = "refused"] = [runs EXCEPT ![r] = one]
        BY <1>2, <3>1, GatewayTypes DEF RunRec
      <3>3. Finish(r, [runs EXCEPT ![r] = one], "failed") /\ posts[r] = "refused" /\ logs' = Freed(r, logs)
        BY <1>5, <3>2 DEF Rejected
      <3>4. now = [one EXCEPT !.final = "failed"]
        BY <2>1, <3>1
      <3> QED BY <1>2, <3>2, <3>3, <3>4, Finished
    <2>3. /\ now.call = "refused" /\ now.final = "failed" /\ now.session = runs[r].session
          /\ now.accepted = runs[r].accepted /\ now.candidate = runs[r].candidate
      BY <1>2, <2>1 DEF RunRec
    <2>4. RunFits(now, posts[r], worked[r]) /\ worked[r] = "none"
      BY <1>1, <1>2, <2>2, <2>3 DEF RunFits
    <2> QED BY <1>1, <1>2, <1>3, <1>4, <2>2, <2>3, <2>4, RunSteps
  <1>6. CASE Acknowledged(r)
    <2>1. posts[r] = "admitted" /\ (runs[r].candidate # "none" => worked[r] = runs[r].candidate /\ runs[r].candidate \in Verdicts)
      BY <1>2, <1>6 DEF Acknowledged, RunFits, RunRec
    <2>2. PICK one \in RunRec : one = [runs[r] EXCEPT !.call = "returned", !.accepted = TRUE]
      BY <1>2 DEF RunRec
    <2>3. /\ one.call = "returned" /\ one.final = "none" /\ one.session = runs[r].session
          /\ one.accepted = TRUE /\ one.candidate = runs[r].candidate
      BY <1>2, <2>2 DEF RunRec
    <2>4. CASE runs[r].candidate # "none"
      <3>1. PICK now \in RunRec : now = [one EXCEPT !.final = runs[r].candidate]
        BY <2>1, <2>4 DEF RunRec, Terminals
      <3>2. /\ runs' = [runs EXCEPT ![r] = now] /\ active' = NoRun /\ logs' = Freed(r, logs)
        <4>1. [runs EXCEPT ![r].call = "returned", ![r].accepted = TRUE] = [runs EXCEPT ![r] = one]
          BY <2>2, GatewayTypes
        <4>2. [runs EXCEPT ![r] = one][r] = one
          BY GatewayTypes
        <4>3. Finish(r, [runs EXCEPT ![r] = one], runs[r].candidate) /\ logs' = Freed(r, logs)
          BY <1>6, <2>3, <2>4, <4>1, <4>2 DEF Acknowledged
        <4> QED BY <1>2, <2>3, <3>1, <4>3, Finished
      <3>3. /\ now.call = "returned" /\ now.final = runs[r].candidate /\ now.session = runs[r].session
            /\ now.accepted = TRUE /\ now.candidate = runs[r].candidate
        BY <2>3, <3>1 DEF RunRec
      <3>4. RunFits(now, posts[r], worked[r]) /\ worked[r] \notin {"queued", "working"}
        BY <1>1, <1>2, <2>1, <2>4, <3>3 DEF RunFits, Verdicts
      <3> QED BY <1>1, <1>2, <1>3, <1>4, <2>1, <2>4, <3>2, <3>3, <3>4, RunSteps
    <2>5. CASE runs[r].candidate = "none"
      <3>1. runs' = [runs EXCEPT ![r] = one] /\ active' = r /\ logs' = logs
        BY <1>2, <1>6, <2>2, <2>5, GatewayTypes DEF Acknowledged
      <3>2. RunFits(one, posts[r], worked[r])
        BY <1>1, <1>2, <2>1, <2>3, <2>5 DEF RunFits
      <3>3. StreamInv' /\ logs' \in [Sessions -> Log]
        BY <1>1, <3>1, StreamsKept, GatewayTypes
      <3> QED BY <1>1, <1>2, <1>3, <2>3, <3>1, <3>2, <3>3, RunSteps
    <2> QED BY <2>4, <2>5
  <1> QED BY <1>5, <1>6

LEMMA AcceptedFits ==
  ASSUME NEW log \in Log, NEW frame \in Frame, FrameFits(frame), Fits(log, frame)
  PROVE  /\ Accepted(log, frame) \in Log /\ Accepted(log, frame).request = log.request
         /\ Owned(log) /\ Accepted(log, frame).claim = "current" =>
              \/ log.claim = "current" /\ frame.kind # "end"
              \/ frame.kind = "claim" /\ frame.message = log.request
         /\ Owned(log) /\ Accepted(log, frame).final # "none" =>
              \/ Accepted(log, frame).final = log.final
              \/ frame.kind = "end" /\ log.claim = "current" /\ Accepted(log, frame).final = frame.verdict
  <1> DEFINE new == Accepted(log, frame)
  <1>1. frame.kind \in {"snapshot", "insert", "claim", "cancel", "turn", "step", "user", "output", "stepEnd", "end",
                        "title", "seed", "required", "gap"} /\ log.inbox \in Seq(Messages)
    BY DEF Frame, Log
  <1>2. CASE frame.kind = "insert"
    <2>1. PICK inbox \in Seq(Messages) : inbox = Append(log.inbox, frame.message)
      <3>1. PICK box \in Seq(Messages), m \in Messages : box = log.inbox /\ m = frame.message
        BY <1>1, <1>2 DEF FrameFits
      <3>2. Append(box, m) \in Seq(Messages)
        OBVIOUS
      <3> QED BY <3>1, <3>2
    <2>2. new = [log EXCEPT !.inbox = inbox]
      BY <1>2, <2>1 DEF Accepted
    <2>3. [log EXCEPT !.inbox = inbox] \in Log
      BY DEF Log
    <2> QED BY <1>2, <2>2, <2>3 DEF Log
  <1>3. CASE frame.kind \in {"claim", "cancel"}
    <2>1. log.inbox # <<>>
      BY <1>3 DEF Fits, SpliceFits
    <2>2. PICK inbox \in Seq(Messages) : inbox = Tail(log.inbox)
      <3>1. PICK box \in Seq(Messages) : box = log.inbox
        BY <1>1
      <3>2. Tail(box) \in Seq(Messages)
        BY <2>1, <3>1
      <3> QED BY <3>1, <3>2
    <2>3. CASE frame.kind = "claim"
      BY <2>2, <2>3 DEF Log, Accepted, Fits, SpliceFits
    <2>4. CASE frame.kind = "cancel"
      BY <2>2, <2>4 DEF Accepted, Log
    <2> QED BY <1>3, <2>3, <2>4
  <1>4. CASE frame.kind \in {"turn", "step", "stepEnd", "user"}
    BY <1>4 DEF Accepted, Log, Owned
  <1>5. CASE frame.kind = "end"
    BY <1>5 DEF FrameFits, Fits, Log, Accepted
  <1>6. CASE frame.kind \in {"output", "seed", "title"}
    BY <1>6 DEF Accepted
  <1>7. frame.kind \notin {"required", "gap", "snapshot"}
    BY DEF Fits
  <1> QED BY <1>1, <1>2, <1>3, <1>4, <1>5, <1>6, <1>7

(* The next frame of a Session is read, and what the others hold stays. *)
LEMMA TailKept ==
  ASSUME GatewayInv, NEW s \in Sessions, streams[s] # <<>>, streams' = [streams EXCEPT ![s] = Tail(@)],
         UNCHANGED worked, \A t \in Sessions : native'[t].message = native[t].message,
         \A t \in Sessions \ {s} : logs'[t] = logs[t],
         Owned(logs'[s]) /\ logs'[s].claim = "current" =>
           logs'[s].request = logs[s].request /\ EndsWith(s, 0, logs[s].request)'
  PROVE  /\ StreamInv' /\ streams' \in [Sessions -> Seq(Frame)]
         /\ \A t \in Sessions : streams[t] = <<>> => streams'[t] = <<>>
  <1>1. PICK n \in Nat : n = Len(streams'[s])
    BY TailFrame
  <1>2. /\ streams' \in [Sessions -> Seq(Frame)] /\ \A t \in Sessions \ {s} : streams'[t] = streams[t]
        /\ Len(streams[s]) = n + 1 /\ \A i \in 1..n : streams'[s][i] = streams[s][i + 1]
    BY <1>1, TailFrame
  <1>3. \A i \in 1..n : i + 1 \in 1..(n + 1)
    OBVIOUS
  <1>4. ASSUME NEW i \in 1..n PROVE /\ FrameFits(streams'[s][i])
                                    /\ streams'[s][i].kind = "claim" => EndsWith(s, i, streams[s][i].message)'
    <2>1. /\ FrameFits(streams[s][i + 1])
          /\ streams[s][i + 1].kind = "claim" => EndsWith(s, i + 1, streams[s][i + 1].message)
      BY <1>2, <1>3 DEF GatewayInv, StreamInv
    <2>2. ASSUME streams[s][i + 1].kind = "claim" PROVE EndsWith(s, i, streams[s][i].message)'
      <3>1. PICK m \in Messages : m = streams[s][i + 1].message
        BY <2>1, <2>2 DEF FrameFits
      <3>2. EndsWith(s, i + 1, m) /\ streams'[s][i] = streams[s][i + 1] /\ i \in Nat
        BY <1>2, <2>1, <2>2, <3>1
      <3>3. EndsWith(s, i, m)'
        BY <3>2, EndsRead
      <3> QED BY <3>1, <3>2, <3>3
    <2> QED BY <1>2, <2>1, <2>2
  <1>5. ASSUME NEW t \in Sessions \ {s}
        PROVE  /\ \A i \in 1..Len(streams'[t]) : FrameFits(streams'[t][i])
               /\ \A i \in 1..Len(streams'[t]) :
                    streams'[t][i].kind = "claim" => EndsWith(t, i, streams[t][i].message)'
               /\ Owned(logs'[t]) /\ logs'[t].claim = "current" => EndsWith(t, 0, logs[t].request)'
    <2>1. ASSUME NEW i, NEW m \in Messages, EndsWith(t, i, m) PROVE EndsWith(t, i, m)'
      BY <1>2, <2>1, EndsKept
    <2>2. ASSUME NEW i \in 1..Len(streams[t]), streams[t][i].kind = "claim" PROVE EndsWith(t, i, streams[t][i].message)'
      <3>1. PICK m \in Messages : m = streams[t][i].message /\ EndsWith(t, i, m)
        BY <2>2 DEF GatewayInv, StreamInv, FrameFits
      <3> QED BY <1>2, <2>1, <3>1
    <2>3. ASSUME Owned(logs[t]), logs[t].claim = "current" PROVE EndsWith(t, 0, logs[t].request)'
      <3>1. PICK m \in Messages : m = logs[t].request /\ EndsWith(t, 0, m)
        BY <2>3, GatewayTypes DEF Owned, Log, GatewayInv, StreamInv
      <3> QED BY <2>1, <3>1
    <2> QED BY <1>2, <2>2, <2>3 DEF GatewayInv, StreamInv, FrameFits
  <1>6. StreamInv'
    BY <1>1, <1>4, <1>5, ZenonT(60) DEF StreamInv, FrameFits, Owned
  <1> QED BY <1>2, <1>6

(* The next frame of a Session is read: the log is what it says, or the Run lets go of it. *)
LEMMA StreamRead ==
  ASSUME GatewayInv, NEW s \in Sessions, streams[s] # <<>>, streams' = [streams EXCEPT ![s] = Tail(@)],
         UNCHANGED <<native, worked>>, Fits(logs[s], Head(streams[s])), NEW log \in Log,
         log = Accepted(logs[s], Head(streams[s])), logs' \in [Sessions -> Log],
         \A t \in Sessions \ {s} : logs'[t] = logs[t], logs'[s] = log \/ ~Owned(logs'[s])
  PROVE  /\ StreamInv' /\ streams' \in [Sessions -> Seq(Frame)]
         /\ \A t \in Sessions : streams[t] = <<>> => streams'[t] = <<>>
         /\ log.request = logs[s].request
         /\ Owned(logs[s]) /\ log.final # "none" => log.final = worked[active] /\ log.final \in Verdicts
  <1> DEFINE frame == Head(streams[s])
  <1>1. PICK n \in Nat : n = Len(streams'[s])
    BY TailFrame
  <1>2. /\ streams' \in [Sessions -> Seq(Frame)] /\ \A t \in Sessions \ {s} : streams'[t] = streams[t]
        /\ Len(streams[s]) = n + 1 /\ frame = streams[s][1] /\ frame \in Frame
    BY <1>1, TailFrame
  <1>3. 1 \in 1..(n + 1)
    OBVIOUS
  <1>4. FrameFits(frame) /\ logs[s] \in Log
    BY <1>2, <1>3, GatewayTypes DEF GatewayInv, StreamInv
  <1>5. /\ log.request = logs[s].request
        /\ Owned(logs[s]) /\ log.claim = "current" =>
             \/ logs[s].claim = "current" /\ frame.kind # "end"
             \/ frame.kind = "claim" /\ frame.message = logs[s].request
        /\ Owned(logs[s]) /\ log.final # "none" =>
             \/ log.final = logs[s].final
             \/ frame.kind = "end" /\ logs[s].claim = "current" /\ log.final = frame.verdict
    BY <1>2, <1>4, AcceptedFits
  <1> HIDE DEF frame
  <1>6. ASSUME Owned(logs'[s]), logs'[s].claim = "current" PROVE EndsWith(s, 0, logs[s].request)'
    <2>1. logs'[s] = log /\ Owned(logs[s])
      BY <1>5, <1>6 DEF Owned
    <2>2. PICK m \in Messages : m = logs[s].request
      BY <1>4, <2>1, GatewayTypes DEF Owned, Log
    <2>3. CASE logs[s].claim = "current" /\ frame.kind # "end"
      BY <2>1, <2>2, <2>3, <1>2, EndsRead, <1>5 DEF GatewayInv, StreamInv
    <2>4. CASE frame.kind = "claim" /\ frame.message = logs[s].request
      <3>1. EndsWith(s, 1, m) /\ 0 + 1 = 1
        BY <1>2, <1>3, <2>2, <2>4 DEF GatewayInv, StreamInv
      <3>2. EndsWith(s, 0, m)'
        BY <3>1, EndsRead
      <3> QED BY <1>5, <2>1, <2>2, <3>2
    <2> QED BY <1>5, <1>6, <2>1, <2>3, <2>4
  <1>7. /\ StreamInv' /\ streams' \in [Sessions -> Seq(Frame)]
        /\ \A t \in Sessions : streams[t] = <<>> => streams'[t] = <<>>
    BY <1>5, <1>6, TailKept DEF Owned
  <1>8. ASSUME Owned(logs[s]), log.final # "none" PROVE log.final = worked[active]
    BY <1>8, <1>2, <1>3, <1>5 DEF GatewayInv, OwnerInv, StreamInv, EndsWith
  <1> QED BY <1>5, <1>7, <1>8 DEF Log

LEMMA ObserveHolds == ASSUME GatewayInv, NEW s \in Sessions, NEW room, Observe(s, room) PROVE GatewayInv'
  <1> DEFINE frame == Head(streams[s])
             owner == active # NoRun /\ runs[active].session = s
             free == Fits(logs[s], frame) /\ (owner => room)
  <1>1. /\ ~closed /\ s \in attached /\ streams[s] # <<>> /\ UNCHANGED <<mutation, attached, worked, posts, oddities>>
    BY DEF Observe
  <1>2. CASE ~free
    <2>1. Abort
      BY <1>2 DEF Observe
    <2> QED BY <1>1, <2>1, AbortHolds
  <1>3. CASE free
    <2>1. FrameFits(frame) /\ frame \in Frame /\ logs[s] \in Log
      BY GatewayTypes, <1>1 DEF GatewayInv, StreamInv
    <2>2. PICK log \in Log : log = Accepted(logs[s], frame)
      BY <1>3, <2>1, AcceptedFits
    <2>3. streams' = [streams EXCEPT ![s] = Tail(@)] /\ UNCHANGED <<closed, native>>
      BY <1>3 DEF Observe
    <2>4. owner => /\ active \in Runs /\ runs[active].session = s /\ logs[s].request = active /\ runs[active] \in RunRec
                   /\ runs[active].final = "none" /\ runs[active].call \in {"prompting", "returned"} /\ Owned(logs[s])
                   /\ RunFits(runs[active], posts[active], worked[active])
      BY GatewayTypes DEF GatewayInv, OwnerInv, RunInv, Owned
    <2>5. Owned(logs[s]) => owner
      BY DEF GatewayInv, OwnerInv, Owned
    <2>6. CASE owner /\ log.final # "none"
      <3>1. PICK r \in Runs : r = active
        BY <2>4, <2>6
      <3>2. PICK one \in RunRec : one = [runs[r] EXCEPT !.candidate = log.final]
        BY <2>4, <2>6, <3>1 DEF RunRec, Log
      <3>3. /\ one.final = "none" /\ one.call = runs[r].call /\ one.session = s /\ one.accepted = runs[r].accepted
            /\ one.candidate = log.final
        BY <2>4, <2>6, <3>1, <3>2 DEF RunRec
      <3>4. [runs EXCEPT ![r].candidate = log.final] = [runs EXCEPT ![r] = one]
        BY <3>2, GatewayTypes
      <3>5. CASE runs[r].accepted
        <4>1. PICK freed \in Log : freed = Released(log) /\ freed.request = NoRun
          BY ReleasedFits
        <4>2. logs' = [logs EXCEPT ![s] = freed] /\ Finish(r, [runs EXCEPT ![r] = one], log.final)
          BY <1>3, <2>2, <2>6, <3>1, <3>4, <3>5, <4>1 DEF Observe
        <4>3. /\ logs' \in [Sessions -> Log] /\ logs'[s].request = NoRun /\ \A t \in Sessions \ {s} : logs'[t] = logs[t]
          BY <4>1, <4>2, GatewayTypes
        <4>4. /\ StreamInv' /\ streams' \in [Sessions -> Seq(Frame)]
              /\ \A t \in Sessions : streams[t] = <<>> => streams'[t] = <<>>
              /\ log.final = worked[r] /\ log.final \in Verdicts
          BY <4>3, <1>1, <1>3, <2>2, <2>3, <2>4, <2>6, <3>1, StreamRead DEF Owned
        <4>5. runs' = [runs EXCEPT ![r] = [one EXCEPT !.final = log.final]] /\ active' = NoRun
          BY <3>1, <3>3, <4>2, Finished
        <4>6. PICK now \in RunRec : now = [one EXCEPT !.final = log.final]
          BY <4>4 DEF RunRec, Terminals
        <4>7. /\ now.final = log.final /\ now.call = runs[r].call /\ now.session = runs[r].session
              /\ now.accepted = runs[r].accepted /\ now.candidate = log.final
          BY <2>4, <2>6, <3>1, <3>3, <4>6 DEF RunRec
        <4>8. /\ now.call = "returned" /\ posts[r] = "admitted" /\ RunFits(now, posts[r], worked[r])
              /\ worked[r] \notin {"queued", "working"} /\ now.final # "none"
          BY <2>4, <2>6, <3>1, <3>5, <4>4, <4>7 DEF RunFits, Verdicts
        <4> QED BY <1>1, <2>3, <2>4, <2>6, <3>1, <4>3, <4>4, <4>5, <4>6, <4>7, <4>8, RunSteps
      <3>6. CASE ~runs[r].accepted
        <4>1. runs' = [runs EXCEPT ![r] = one] /\ logs' = [logs EXCEPT ![s] = log] /\ active' = active
          BY <1>3, <2>2, <2>6, <3>1, <3>4, <3>6 DEF Observe
        <4>2. /\ logs' \in [Sessions -> Log] /\ logs'[s] = log /\ \A t \in Sessions \ {s} : logs'[t] = logs[t]
              /\ runs' \in [Runs -> RunRec] /\ runs'[r] = one /\ \A q \in Runs \ {r} : runs'[q] = runs[q]
          BY <4>1, GatewayTypes
        <4>3. /\ StreamInv' /\ streams' \in [Sessions -> Seq(Frame)]
              /\ \A t \in Sessions : streams[t] = <<>> => streams'[t] = <<>>
              /\ log.final = worked[r] /\ log.final \in Verdicts /\ log.request = r
          BY <1>1, <1>3, <2>2, <2>3, <2>4, <2>6, <3>1, <4>2, StreamRead
        <4>4. RunFits(one, posts[r], worked[r])
          BY <2>4, <2>6, <3>1, <3>3, <3>6, <4>3 DEF RunFits, Verdicts
        <4>5. RunInv'
          BY <1>1, <4>2, <4>4 DEF GatewayInv, RunInv, RunFits
        <4>6. OwnerInv'
          BY <2>4, <2>6, <3>1, <3>3, <4>2, <4>3, <1>1, <2>3, <4>1, GatewayTypes DEF GatewayInv, OwnerInv, Owned
        <4>7. WorkInv' /\ SessionInv'
          BY <1>1, <2>3, <4>3 DEF GatewayInv, WorkInv, SessionInv
        <4> QED BY <1>1, <2>3, <4>1, <4>2, <4>3, <4>5, <4>6, <4>7
                DEF GatewayInv, GatewayTypeOK, GatewayAssumption, RunRec
      <3> QED BY <3>5, <3>6
    <2>7. CASE ~(owner /\ log.final # "none")
      <3>1. logs' = [logs EXCEPT ![s] = log] /\ UNCHANGED <<runs, active>>
        BY <1>3, <2>2, <2>7 DEF Observe
      <3>2. /\ logs' \in [Sessions -> Log] /\ logs'[s] = log /\ \A t \in Sessions \ {s} : logs'[t] = logs[t]
        BY <3>1, GatewayTypes
      <3>3. /\ StreamInv' /\ streams' \in [Sessions -> Seq(Frame)]
            /\ \A t \in Sessions : streams[t] = <<>> => streams'[t] = <<>>
            /\ log.request = logs[s].request
        BY <1>1, <1>3, <2>2, <2>3, <3>2, StreamRead
      <3>4. RunInv'
        BY <1>1, <3>1 DEF GatewayInv, RunInv, RunFits
      <3>5. OwnerInv'
        BY <3>2, <3>3, <2>5, <2>7, <1>1, <2>3, <3>1, GatewayTypes DEF Owned, GatewayInv, OwnerInv
      <3>6. WorkInv' /\ SessionInv'
        BY <1>1, <2>3, <3>3 DEF GatewayInv, WorkInv, SessionInv
      <3> QED BY <1>1, <2>3, <3>1, <3>2, <3>3, <3>4, <3>5, <3>6 DEF GatewayInv, GatewayTypeOK, GatewayAssumption
    <2> QED BY <2>6, <2>7
  <1> QED BY <1>2, <1>3

-------------------------------------------------------------------------------
(* Sessions. *)

(* A stream begins anew, or is cut. *)
LEMMA StreamSet ==
  ASSUME GatewayInv, NEW s \in Sessions, ~Owned(logs[s]), UNCHANGED <<worked, logs>>, NEW new \in Seq(Frame),
         streams' = [streams EXCEPT ![s] = new], \A t \in Sessions : native'[t].message = native[t].message,
         \A i \in 1..Len(new) : FrameFits(new[i]) /\ new[i].kind # "claim"
  PROVE  StreamInv' /\ streams' \in [Sessions -> Seq(Frame)]
  <1>1. streams' \in [Sessions -> Seq(Frame)] /\ streams'[s] = new /\ \A t \in Sessions \ {s} : streams'[t] = streams[t]
    BY GatewayTypes
  <1>2. ASSUME NEW t \in Sessions \ {s}, NEW i, NEW m \in Messages, EndsWith(t, i, m) PROVE EndsWith(t, i, m)'
    BY <1>1, <1>2, EndsKept
  <1>3. ASSUME NEW t \in Sessions \ {s}, NEW i \in 1..Len(streams[t]), streams[t][i].kind = "claim"
        PROVE  EndsWith(t, i, streams[t][i].message)'
    BY <1>3, <1>1, <1>2 DEF GatewayInv, StreamInv, FrameFits
  <1>4. ASSUME NEW t \in Sessions \ {s}, Owned(logs[t]), logs[t].claim = "current" PROVE EndsWith(t, 0, logs[t].request)'
    BY <1>4, GatewayTypes, <1>2 DEF Owned, Log, GatewayInv, StreamInv
  <1>5. \A t \in Sessions : \A i \in 1..Len(streams[t]) : FrameFits(streams[t][i])
    BY DEF GatewayInv, StreamInv
  <1> QED BY <1>1, <1>3, <1>4, <1>5 DEF StreamInv, FrameFits, Owned

LEMMA WorkKept ==
  ASSUME GatewayInv, UNCHANGED worked,
         \A s \in Sessions : /\ native'[s].inbox = native[s].inbox /\ native'[s].message = native[s].message
                             /\ native'[s].turn = native[s].turn
  PROVE  WorkInv'
  BY DEF GatewayInv, WorkInv

(* What Sessions do is nothing to Runs. *)
LEMMA SessionsMove ==
  ASSUME GatewayInv, UNCHANGED <<closed, active, runs, worked, posts>>, native' \in [Sessions -> NativeRec],
         \A s \in Sessions : /\ native'[s].inbox = native[s].inbox /\ native'[s].message = native[s].message
                             /\ native'[s].turn = native[s].turn,
         oddities' \in 0..MaxOddities, mutation' \in MutationRec, attached' \subseteq Sessions, logs' \in [Sessions -> Log],
         \A s \in Sessions : logs'[s] = logs[s] \/ (~Owned(logs'[s]) /\ ~Owned(logs[s])),
         active # NoRun => runs[active].session \in attached', StreamInv', streams' \in [Sessions -> Seq(Frame)], SessionInv'
  PROVE  GatewayInv'
  <1>0. RunInv'
    BY DEF GatewayInv, RunInv, RunFits
  <1>1. WorkInv'
    BY WorkKept
  <1>2. OwnerInv'
    BY GatewayTypes DEF GatewayInv, OwnerInv, Owned
  <1> QED BY <1>0, <1>1, <1>2, GatewayTypes DEF GatewayInv, GatewayTypeOK, GatewayAssumption, MutationRec, NativeRec

(* Steps of which only the operation under way knows. *)
LEMMA MutationSteps ==
  ASSUME GatewayInv, UNCHANGED <<closed, attached, logs, active, runs, native, worked, posts, streams>>,
         oddities' \in 0..MaxOddities, mutation' \in MutationRec,
         \A s \in Sessions :
           /\ native[s].followed => s \in attached \/ (mutation'.at = "follow" /\ mutation'.session = s)
           /\ native[s].fresh /\ ~closed =>
                mutation'.kind \in {"create", "fork"} /\ mutation'.at \in {"done", "follow"} /\ mutation'.session = s,
         mutation'.at = "follow" \/ (mutation'.at = "done" /\ mutation'.kind # "cancel") =>
           /\ mutation'.kind \in {"create", "fork", "resume"} /\ mutation'.session \in Sessions \ attached
           /\ native[mutation'.session].exists,
         mutation'.kind \in {"create", "fork", "resume"} => Cardinality(attached) < MaxSessions
  PROVE  GatewayInv'
  <1>1. SessionInv'
    BY DEF GatewayInv, SessionInv
  <1>2. StreamInv' /\ streams' \in [Sessions -> Seq(Frame)]
    BY StreamsKept, GatewayTypes
  <1>3. active # NoRun => runs[active].session \in attached
    BY DEF GatewayInv, OwnerInv
  <1> QED BY <1>1, <1>2, <1>3, SessionsMove, GatewayTypes

LEMMA BeginHolds ==
  ASSUME GatewayInv, NEW s \in Sessions, Create \/ Fork(s) \/ CancelSession(s) \/ Resume(s)
  PROVE  GatewayInv'
  <1>1. /\ ~closed /\ mutation = NoMutation
        /\ UNCHANGED <<closed, attached, logs, active, runs, native, worked, posts, streams, oddities>>
    BY DEF Create, Fork, CancelSession, Resume, Begin, gateway
  <1>2. /\ mutation' \in MutationRec /\ (mutation'.kind \in {"create", "fork", "resume"} => Cardinality(attached) < MaxSessions)
        /\ \/ mutation'.at = "post"
           \/ /\ mutation'.at = "follow" /\ mutation'.kind = "resume" /\ mutation'.session = s
              /\ s \notin attached /\ native[s].exists
    BY DEF Create, Fork, CancelSession, Resume, Begin, Capacity, MutationRec
  <1>3. \A t \in Sessions : (native[t].followed => t \in attached) /\ ~native[t].fresh
    BY <1>1 DEF GatewayInv, SessionInv, NoMutation
  <1>4. oddities' \in 0..MaxOddities
    BY <1>1, GatewayTypes
  <1>5. CASE mutation'.at = "post"
    BY <1>1, <1>2, <1>3, <1>4, <1>5, MutationSteps
  <1>6. CASE /\ mutation'.at = "follow" /\ mutation'.kind = "resume" /\ mutation'.session = s
             /\ s \notin attached /\ native[s].exists
    BY <1>1, <1>2, <1>3, <1>4, <1>6, MutationSteps
  <1> QED BY <1>2, <1>5, <1>6

LEMMA OperationHolds ==
  ASSUME GatewayInv, Receipt \/ MutationRefused \/ TakesCancel \/ RefusesMutation
  PROVE  GatewayInv'
  <1>1. PICK old \in MutationRec : old = mutation
    BY GatewayTypes
  <1>2. /\ UNCHANGED <<closed, attached, logs, active, runs, native, worked, posts, streams>>
        /\ oddities' \in 0..MaxOddities
    BY GatewayTypes DEF Receipt, MutationRefused, TakesCancel, RefusesMutation, Odd, gateway
  <1>3. \/ /\ old.at = "done" /\ old.kind # "cancel" /\ ~closed /\ mutation' = [old EXCEPT !.at = "follow"]
        \/ /\ old.at \in {"refused", "done"} /\ (old.at = "done" => old.kind = "cancel") /\ ~closed /\ mutation' = NoMutation
        \/ old.at = "post" /\ old.kind = "cancel" /\ mutation' = [old EXCEPT !.at = "done"]
        \/ old.at = "post" /\ mutation' = [old EXCEPT !.at = "refused"]
    BY <1>1 DEF Receipt, MutationRefused, TakesCancel, RefusesMutation
  <1>4. /\ mutation' \in MutationRec
        /\ \/ /\ old.at = "done" /\ old.kind # "cancel" /\ mutation'.at = "follow" /\ mutation'.kind = old.kind
              /\ mutation'.session = old.session
           \/ /\ old.at \in {"refused", "done", "post"} /\ (old.at = "done" => old.kind = "cancel")
              /\ mutation'.kind = "none" \/ mutation'.kind = old.kind
              /\ mutation'.at \in {"none", "refused", "done"} /\ (mutation'.at = "done" => mutation'.kind = "cancel")
    BY <1>3 DEF MutationRec, NoMutation
  <1>5. /\ old.at = "done" /\ old.kind # "cancel" =>
             /\ old.kind \in {"create", "fork", "resume"} /\ old.session \in Sessions \ attached
             /\ native[old.session].exists
        /\ \A t \in Sessions :
             /\ native[t].followed => t \in attached \/ (old.at = "follow" /\ old.session = t)
             /\ native[t].fresh /\ ~closed => old.kind \in {"create", "fork"} /\ old.at \in {"done", "follow"} /\ old.session = t
        /\ old.kind \in {"create", "fork", "resume"} => Cardinality(attached) < MaxSessions
    BY <1>1 DEF GatewayInv, SessionInv
  <1> QED BY <1>2, <1>4, <1>5, MutationSteps

LEMMA CreatesHolds ==
  ASSUME GatewayInv, NEW s \in Sessions, NEW parent \in Sessions \cup {NoSession}, Creates(s, parent)
  PROVE  GatewayInv'
  <1>1. /\ mutation.kind \in {"create", "fork"} /\ mutation.at = "post" /\ ~native[s].exists /\ ~closed
        /\ native' = [native EXCEPT ![s].exists = TRUE, ![s].fresh = TRUE]
        /\ mutation' = [mutation EXCEPT !.at = "done", !.session = s]
        /\ UNCHANGED <<closed, attached, logs, active, runs, worked, posts, streams, oddities>>
    BY DEF Creates
  <1>2. /\ native' \in [Sessions -> NativeRec] /\ native'[s].exists /\ native'[s].inbox = native[s].inbox
        /\ native'[s].message = native[s].message /\ native'[s].turn = native[s].turn
        /\ native'[s].followed = native[s].followed /\ \A t \in Sessions \ {s} : native'[t] = native[t]
    <2>1. PICK one \in NativeRec : one = native[s]
      BY GatewayTypes
    <2>2. PICK now \in NativeRec : now = [one EXCEPT !.exists = TRUE, !.fresh = TRUE]
      BY DEF NativeRec
    <2>3. /\ now.exists /\ now.inbox = one.inbox /\ now.message = one.message /\ now.turn = one.turn
          /\ now.followed = one.followed
      BY <2>2 DEF NativeRec
    <2>4. native' = [native EXCEPT ![s] = now]
      BY <1>1, <2>1, <2>2, GatewayTypes
    <2> QED BY <2>1, <2>3, <2>4, GatewayTypes
  <1>3. /\ mutation' \in MutationRec /\ mutation'.kind = mutation.kind /\ mutation'.at = "done" /\ mutation'.session = s
    BY <1>1, GatewayTypes DEF MutationRec
  <1>4. \A t \in Sessions : /\ native[t].followed => t \in attached
                            /\ ~native[t].fresh
    BY <1>1 DEF GatewayInv, SessionInv
  <1>5. s \notin attached /\ (s \in Sessions => ~native[s].followed)
    BY <1>1, <1>4 DEF GatewayInv, SessionInv
  <1>6. SessionInv'
    BY <1>1, <1>2, <1>3, <1>4, <1>5 DEF GatewayInv, SessionInv
  <1>7. StreamInv' /\ streams' \in [Sessions -> Seq(Frame)]
    BY <1>1, <1>2, StreamsKept, GatewayTypes
  <1>8. active # NoRun => runs[active].session \in attached
    BY DEF GatewayInv, OwnerInv
  <1> QED BY <1>1, <1>2, <1>3, <1>6, <1>7, <1>8, SessionsMove, GatewayTypes

LEMMA FollowsHolds == ASSUME GatewayInv, NEW s \in Sessions, Follows(s) PROVE GatewayInv'
  <1>1. PICK log \in Log : log = [NoLog EXCEPT !.inbox = native[s].inbox, !.turn = native[s].turn # "idle",
                                               !.step = native[s].turn \in {"step", "said", "shown"}]
    <2>1. native[s].inbox \in Seq(Messages)
      BY InboxFacts
    <2>2. \A inbox \in Seq(Messages), turn, step \in BOOLEAN :
            [NoLog EXCEPT !.inbox = inbox, !.turn = turn, !.step = step] \in Log
      BY DEF NoLog, Log
    <2>3. (native[s].turn # "idle") \in BOOLEAN /\ (native[s].turn \in {"step", "said", "shown"}) \in BOOLEAN
      OBVIOUS
    <2> QED BY <2>1, <2>2, <2>3, Zenon
  <1>2. ~Owned(log)
    BY <1>1 DEF NoLog, Owned
  <1> DEFINE frame == [Blank EXCEPT !.kind = "snapshot", !.log = log]
             new == <<frame>>
  <1>3. frame \in Frame /\ FrameFits(frame) /\ frame.kind = "snapshot"
    BY <1>2 DEF Frame, Blank, FrameFits
  <1>4. /\ mutation.at = "follow" /\ mutation.session = s /\ ~closed /\ native' = [native EXCEPT ![s].followed = TRUE]
        /\ streams' = [streams EXCEPT ![s] = new] /\ UNCHANGED <<client, worked, posts, oddities>>
    BY <1>1 DEF Follows
  <1> HIDE DEF frame
  <1>5. new \in Seq(Frame) /\ Len(new) = 1 /\ \A i \in 1..Len(new) : FrameFits(new[i]) /\ new[i].kind # "claim"
    BY <1>3
  <1> HIDE DEF new
  <1>6. /\ native' \in [Sessions -> NativeRec] /\ native'[s].exists = native[s].exists /\ native'[s].fresh = native[s].fresh
        /\ native'[s].inbox = native[s].inbox /\ native'[s].message = native[s].message
        /\ native'[s].turn = native[s].turn /\ native'[s].followed /\ \A t \in Sessions \ {s} : native'[t] = native[t]
    <2>1. PICK one \in NativeRec : one = native[s]
      BY GatewayTypes
    <2>2. PICK now \in NativeRec : now = [one EXCEPT !.followed = TRUE]
      BY DEF NativeRec
    <2>3. /\ now.exists = one.exists /\ now.fresh = one.fresh /\ now.inbox = one.inbox /\ now.message = one.message
          /\ now.turn = one.turn /\ now.followed
      BY <2>2 DEF NativeRec
    <2>4. native' = [native EXCEPT ![s] = now]
      BY <1>4, <2>1, <2>2, GatewayTypes
    <2> QED BY <2>1, <2>3, <2>4, GatewayTypes
  <1>7. UNCHANGED <<closed, mutation, attached, logs, active, runs>>
    BY <1>4 DEF client
  <1>8. s \notin attached
    BY <1>4 DEF GatewayInv, SessionInv
  <1>9. StreamInv' /\ streams' \in [Sessions -> Seq(Frame)]
    <2>1. ~Owned(logs[s])
      BY <1>8 DEF GatewayInv, OwnerInv, Owned
    <2> QED BY <1>4, <1>5, <1>6, <1>7, <2>1, StreamSet
  <1>10. SessionInv'
    BY <1>4, GatewayTypes, <1>6, <1>7, <1>8 DEF GatewayInv, SessionInv
  <1>11. active # NoRun => runs[active].session \in attached
    BY DEF GatewayInv, OwnerInv
  <1> QED BY <1>4, <1>6, <1>7, <1>9, <1>10, <1>11, SessionsMove, GatewayTypes

(* A stream is cut, of a Session that is or was to be attached. *)
LEMMA CutHolds ==
  ASSUME GatewayInv, NEW s \in Sessions, ~Owned(logs[s]), streams' = [streams EXCEPT ![s] = <<>>],
         native' = [native EXCEPT ![s].followed = FALSE], UNCHANGED <<closed, logs, active, runs, worked, posts, oddities>>,
         \/ attached' = attached \ {s} /\ UNCHANGED mutation /\ s \in attached
         \/ /\ UNCHANGED attached /\ mutation' = NoMutation /\ mutation.at = "follow" /\ mutation.session = s
            /\ ~native[s].fresh
  PROVE  GatewayInv'
  <1>1. /\ native' \in [Sessions -> NativeRec] /\ native'[s].exists = native[s].exists /\ native'[s].fresh = native[s].fresh
        /\ native'[s].inbox = native[s].inbox /\ native'[s].message = native[s].message
        /\ native'[s].turn = native[s].turn /\ native'[s].followed = FALSE /\ \A t \in Sessions \ {s} : native'[t] = native[t]
    BY GatewayTypes, UnfollowedFits
  <1>2. StreamInv' /\ streams' \in [Sessions -> Seq(Frame)]
    <2>1. PICK new \in Seq(Frame) : new = <<>> /\ \A i \in 1..Len(new) : FALSE
      <3>1. <<>> \in Seq(Frame) /\ Len(<<>>) = 0
        BY EmptySeq
      <3>2. \A i \in 1..Len(<<>>) : FALSE
        BY <3>1
      <3> QED BY <3>1, <3>2
    <2> QED BY <1>1, <2>1, StreamSet
  <1>3. streams'[s] = <<>> /\ \A t \in Sessions \ {s} : streams'[t] = streams[t]
    BY GatewayTypes
  <1>4. active # NoRun => runs[active].session \in attached /\ runs[active].session # s
    BY GatewayTypes DEF GatewayInv, OwnerInv, Owned
  <1>5. IsFiniteSet(attached') /\ Cardinality(attached') <= Cardinality(attached) /\ attached' \subseteq attached
        /\ Cardinality(attached) \in Nat /\ Cardinality(attached') \in Nat /\ MaxSessions \in Nat
    BY FS_Subset, FS_CardinalityType DEF GatewayInv, SessionInv, GatewayAssumption
  <1>6. CASE UNCHANGED mutation /\ attached' = attached \ {s} /\ s \in attached
    BY <1>5, <1>6, <1>1, <1>3, <1>2, <1>4, SessionsMove, GatewayTypes DEF GatewayInv, SessionInv
  <1>7. CASE /\ UNCHANGED attached /\ mutation' = NoMutation /\ mutation.at = "follow" /\ mutation.session = s
             /\ ~native[s].fresh
    BY <1>7, <1>1, <1>3, <1>5, <1>2, <1>4, SessionsMove, GatewayTypes DEF NoMutation, MutationRec, GatewayInv, SessionInv
  <1> QED BY <1>6, <1>7

LEMMA DetachHolds == ASSUME GatewayInv, NEW s \in Sessions, Detach(s) PROVE GatewayInv'
  <1>1. ~Owned(logs[s])
    BY DEF Detach, GatewayInv, OwnerInv, Owned
  <1> QED BY <1>1, CutHolds DEF Detach

LEMMA MutationFailsHolds == ASSUME GatewayInv, MutationFails PROVE GatewayInv'
  <1>1. mutation # NoMutation /\ mutation' = NoMutation /\ UNCHANGED <<attached, worked, posts, oddities>>
    BY DEF MutationFails
  <1>2. CASE Writes /\ ~closed
    <2>1. Abort
      BY <1>2 DEF MutationFails
    <2> QED BY <1>1, <2>1, AbortHolds
  <1>3. CASE ~(Writes /\ ~closed) /\ mutation.at = "follow" /\ ~closed
    BY <1>3, <1>1, CutHolds DEF GatewayInv, SessionInv, Writes, OwnerInv, Owned, MutationFails
  <1>4. CASE ~(Writes /\ ~closed) /\ ~(mutation.at = "follow" /\ ~closed)
    BY <1>1, <1>4, MutationSteps, GatewayTypes DEF MutationFails, NoMutation, MutationRec, GatewayInv, SessionInv, Writes
  <1> QED BY <1>2, <1>3, <1>4

LEMMA AttachHolds == ASSUME GatewayInv, Attach PROVE GatewayInv'
  <1>1. PICK s \in Sessions : s = mutation.session
    BY DEF Attach, GatewayInv, SessionInv
  <1>2. /\ mutation.at = "follow" /\ ~closed /\ streams[s] # <<>> /\ Head(streams[s]).kind = "snapshot"
        /\ attached' = attached \cup {s} /\ logs' = [logs EXCEPT ![s] = Head(streams[s]).log]
        /\ streams' = [streams EXCEPT ![s] = Tail(@)] /\ mutation' = NoMutation
        /\ native' = [native EXCEPT ![s].fresh = FALSE] /\ UNCHANGED <<closed, active, runs, worked, posts, oddities>>
    BY <1>1 DEF Attach
  <1>3. PICK log \in Log : log = Head(streams[s]).log /\ ~Owned(log)
    <2>1. Head(streams[s]) \in Frame /\ Head(streams[s]) = streams[s][1] /\ 1 \in 1..Len(streams[s])
      BY GatewayTypes, <1>2
    <2>2. FrameFits(Head(streams[s]))
      BY <2>1 DEF GatewayInv, StreamInv
    <2> QED BY <1>2, <2>1, <2>2 DEF FrameFits, Frame
  <1>4. /\ s \notin attached /\ native[s].exists /\ native[s].followed /\ mutation.kind \in {"create", "fork", "resume"}
        /\ Cardinality(attached) < MaxSessions /\ IsFiniteSet(attached)
    BY <1>1, <1>2 DEF GatewayInv, SessionInv
  <1>5. ~Owned(logs[s])
    BY <1>4 DEF GatewayInv, OwnerInv, Owned
  <1>6. logs' \in [Sessions -> Log] /\ logs'[s] = log /\ \A t \in Sessions \ {s} : logs'[t] = logs[t]
    BY <1>2, <1>3, GatewayTypes
  <1>7. /\ native' \in [Sessions -> NativeRec] /\ native'[s].exists = native[s].exists /\ native'[s].fresh = FALSE
        /\ native'[s].inbox = native[s].inbox /\ native'[s].message = native[s].message
        /\ native'[s].turn = native[s].turn /\ native'[s].followed = native[s].followed
        /\ \A t \in Sessions \ {s} : native'[t] = native[t]
    <2>1. PICK one \in NativeRec : one = native[s]
      BY GatewayTypes
    <2>2. PICK now \in NativeRec : now = [one EXCEPT !.fresh = FALSE]
      BY DEF NativeRec
    <2>3. /\ now.exists = one.exists /\ now.fresh = FALSE /\ now.inbox = one.inbox /\ now.message = one.message
          /\ now.turn = one.turn /\ now.followed = one.followed
      BY <2>2 DEF NativeRec
    <2>4. native' = [native EXCEPT ![s] = now]
      BY <1>2, <2>1, <2>2, GatewayTypes
    <2> QED BY <2>1, <2>3, <2>4, GatewayTypes
  <1>8. /\ StreamInv' /\ streams' \in [Sessions -> Seq(Frame)]
        /\ \A t \in Sessions : streams[t] = <<>> => streams'[t] = <<>>
    BY <1>2, <1>3, <1>6, <1>7, TailKept
  <1>9. mutation' \in MutationRec /\ mutation'.kind = "none" /\ mutation'.at = "none"
    BY <1>2 DEF NoMutation, MutationRec
  <1>10. IsFiniteSet(attached') /\ Cardinality(attached') <= MaxSessions
    <2>1. IsFiniteSet(attached') /\ Cardinality(attached') = Cardinality(attached) + 1
      BY <1>2, <1>4, FS_AddElement
    <2> QED BY <1>4, <2>1, FS_CardinalityType DEF GatewayInv, GatewayAssumption
  <1>11. SessionInv'
    BY <1>1, <1>2, <1>4, <1>7, <1>8, <1>9, <1>10 DEF GatewayInv, SessionInv
  <1>12. active # NoRun => runs[active].session \in attached'
    BY <1>2 DEF GatewayInv, OwnerInv
  <1>13. attached' \subseteq Sessions
    BY <1>2, GatewayTypes
  <1>14. \A t \in Sessions : logs'[t] = logs[t] \/ (~Owned(logs'[t]) /\ ~Owned(logs[t]))
    BY <1>3, <1>5, <1>6
  <1>15. \A t \in Sessions : /\ native'[t].inbox = native[t].inbox /\ native'[t].message = native[t].message
                             /\ native'[t].turn = native[t].turn
    BY <1>7
  <1> QED BY <1>2, <1>6, <1>7, <1>8, <1>9, <1>11, <1>12, <1>13, <1>14, <1>15, SessionsMove, GatewayTypes

-------------------------------------------------------------------------------
LEMMA GatewayInitHolds == GatewayAssumption /\ GatewayInit => GatewayInv
<1> SUFFICES ASSUME GatewayAssumption, GatewayInit PROVE GatewayInv
  OBVIOUS
<1>1. /\ <<>> \in Seq(Frame) /\ <<>> \in Seq(Messages) /\ Len(<<>>) = 0 /\ IsFiniteSet({}) /\ Cardinality({}) = 0
  BY EmptySeq, FS_EmptySet
<1>2. /\ closed = FALSE /\ mutation = NoMutation /\ attached = {} /\ active = NoRun /\ logs = [s \in Sessions |-> NoLog]
      /\ \A r \in Runs : runs[r] = [call |-> "idle", session |-> NoSession, accepted |-> FALSE, candidate |-> "none",
                                    final |-> "none"]
      /\ \A s \in Sessions : /\ native[s] = [exists |-> FALSE, fresh |-> FALSE, inbox |-> <<>>, message |-> NoRun,
                                             turn |-> "idle", followed |-> FALSE]
                             /\ streams[s] = <<>>
      /\ \A m \in Messages : worked[m] = "none"
      /\ \A r \in Runs : posts[r] = "none"
  BY DEF GatewayInit
<1>3. GatewayTypeOK
  <2>1. logs \in [Sessions -> Log]
    BY <1>2, NoLogFits
  <2>2. mutation \in [kind: {"none", "create", "resume", "fork", "cancel"}, at: {"none", "post", "done", "refused", "follow"},
                      session: Sessions \cup {NoSession}, parent: Sessions \cup {NoSession}]
    BY <1>2 DEF NoMutation
  <2>3. runs \in [Runs -> RunRec] /\ native \in [Sessions -> NativeRec]
    BY <1>1 DEF GatewayInit, RunRec, NativeRec, Turns
  <2>4. /\ worked \in [Messages -> Verdicts \cup {"none", "queued", "working", "dropped"}]
        /\ posts \in [Runs -> {"none", "sent", "admitted", "refused"}]
        /\ streams \in [Sessions -> Seq(Frame)] /\ oddities \in 0..MaxOddities
    BY <1>1 DEF GatewayInit, GatewayAssumption
  <2> QED BY <1>2, <2>1, <2>2, <2>3, <2>4 DEF GatewayTypeOK, RunRec, NativeRec
<1>4. WorkInv
  BY <1>1, <1>2 DEF WorkInv, InTurn
<1>5. RunInv
  BY <1>2 DEF RunInv, RunFits, Messages
<1>6. \A s \in Sessions : ~Owned(logs[s])
  BY <1>2 DEF NoLog, Owned
<1>7. OwnerInv
  BY <1>2, <1>6 DEF OwnerInv, Messages
<1>8. SessionInv
  BY <1>1, <1>2 DEF SessionInv, NoMutation, GatewayAssumption
<1>9. StreamInv
  BY <1>1, <1>2, <1>6 DEF StreamInv
<1> QED BY <1>3, <1>4, <1>5, <1>7, <1>8, <1>9 DEF GatewayInv

LEMMA GatewayStepHolds == GatewayInv /\ [GatewayNext]_gatewayVars => GatewayInv'
<1> SUFFICES ASSUME GatewayInv, [GatewayNext]_gatewayVars PROVE GatewayInv'
  OBVIOUS
<1>1. CASE UNCHANGED gatewayVars
  BY <1>1 DEF gatewayVars, client, gateway, GatewayInv, GatewayAssumption, GatewayTypeOK, WorkInv, RunInv, RunFits, OwnerInv,
              Owned, SessionInv, StreamInv, EndsWith, FrameFits
<1>2. CASE CloseGateway \/ SocketEnds \/ \E r \in Runs : TimerFires(r)
  BY <1>2, AbortHolds DEF CloseGateway, SocketEnds, TimerFires
<1>3. CASE Create \/ Receipt \/ Attach \/ MutationRefused \/ MutationFails \/ TakesCancel \/ RefusesMutation
  BY BeginHolds, MutationSteps, GatewayTypes, <1>3, OperationHolds, AttachHolds, MutationFailsHolds
     DEF Create, Begin, Capacity, MutationRec, gateway
<1>4. ASSUME NEW r \in Runs,
             \/ \E s \in Sessions : StartRun(r, s)
             \/ Acknowledged(r) \/ Rejected(r) \/ PromptUncertain(r) \/ Admits(r) \/ Refuses(r)
      PROVE  GatewayInv'
  BY GatewayTypes, PromptsHold, <1>4, StartHolds, AnswerHolds, UncertainHolds, RefusesHolds
     DEF Admits, GatewayInv, RunInv, RunFits, RunRec
<1>5. ASSUME NEW s \in Sessions,
             \/ Fork(s) \/ CancelSession(s) \/ Resume(s) \/ Detach(s)
             \/ Follows(s) \/ OthersPrompt(s) \/ Drops(s) \/ Works(s)
             \/ \E room \in BOOLEAN : Observe(s, room)
             \/ \E parent \in Sessions \cup {NoSession} : Creates(s, parent)
             \/ \E kind \in {"title", "seed", "required", "gap"} : Irregular(s, kind)
      PROVE  GatewayInv'
  BY EnqueueHolds, <1>5, BeginHolds, DetachHolds, FollowsHolds, DropHolds, WorksHolds, ObserveHolds, CreatesHolds,
     IrregularHolds
     DEF OthersPrompt, Messages
<1> QED BY <1>1, <1>2, <1>3, <1>4, <1>5 DEF GatewayNext

LEMMA GatewayInvSound == GatewayInv => GatewaySound
<1> SUFFICES ASSUME GatewayInv PROVE GatewaySound
  OBVIOUS
<1>1. \A r \in Runs :
        /\ runs[r].final \in {"completed", "cancelled"} => (runs[r].accepted /\ worked[r] = runs[r].final)
        /\ (runs[r].final = "failed" /\ runs[r].accepted) => worked[r] = "failed"
  BY DEF GatewayInv, RunInv, RunFits
<1>2. \A r \in Runs : ~closed /\ (posts[r] = "sent" \/ worked[r] \in {"queued", "working"}) => active = r
  BY DEF GatewayInv, OwnerInv
<1>3. \A s \in Sessions :
        /\ ~closed /\ native[s].fresh => mutation.session = s
        /\ native[s].followed => (s \in attached \/ (mutation.at = "follow" /\ mutation.session = s))
        /\ Owned(logs[s]) => (active = logs[s].request /\ runs[active].session = s)
  BY DEF GatewayInv, SessionInv, OwnerInv
<1>4. Cardinality({s \in Sessions : native[s].followed}) <= MaxSessions
  <2> DEFINE followed == {s \in Sessions : native[s].followed}
  <2>1. IsFiniteSet(attached) /\ Cardinality(attached) \in Nat /\ Cardinality(attached) <= MaxSessions /\ MaxSessions \in Nat
    BY FS_CardinalityType DEF GatewayInv, SessionInv, GatewayAssumption
  <2>2. CASE mutation.at = "follow"
    <3>1. followed \subseteq attached \cup {mutation.session}
      BY <1>3
    <3>2. Cardinality(attached) < MaxSessions /\ mutation.session \notin attached
      BY <2>2 DEF GatewayInv, SessionInv
    <3>3. /\ IsFiniteSet(attached \cup {mutation.session})
          /\ Cardinality(attached \cup {mutation.session}) = Cardinality(attached) + 1
      BY <2>1, <3>2, FS_AddElement
    <3>4. Cardinality(followed) <= Cardinality(attached) + 1 /\ Cardinality(followed) \in Nat
      BY <3>1, <3>3, FS_Subset, FS_CardinalityType
    <3> QED BY <2>1, <3>2, <3>4
  <2>3. CASE mutation.at # "follow"
    BY <1>3, <2>3, <2>1, FS_Subset, FS_CardinalityType
  <2> QED BY <2>2, <2>3
<1>5. attached \subseteq Sessions /\ GatewayTypeOK
  BY GatewayTypes DEF GatewayInv
<1> QED BY <1>1, <1>2, <1>3, <1>4, <1>5 DEF GatewaySound

(* Of any Sessions and Runs: one that the Gateway's log ends ended as its own turn did, nothing of an   *)
(* earlier Run is worked on while the Client is in use, and only Sessions of the Client are followed.  *)
THEOREM GatewayIsSound == ASSUME GatewayAssumption PROVE GatewaySpec => []GatewaySound
<1>1. GatewayInit => GatewayInv
  BY GatewayInitHolds
<1> QED BY <1>1, GatewayStepHolds, GatewayInvSound, PTL DEF GatewaySpec

-------------------------------------------------------------------------------
(* What becomes of a Run, step by step. *)
RunMoves(r) ==
  \/ runs'[r] = runs[r]
  \/ runs[r].call = "idle" /\ runs'[r].call # "idle" /\ runs'[r].final = "none"
  \/ runs[r].call # "idle" /\ runs'[r].call # "idle" /\ (runs[r].final = "none" \/ runs'[r].final = runs[r].final)

LEMMA ActiveMoves ==
  ASSUME GatewayInv, NEW r \in Runs, runs[r].call # "idle",
         NEW one \in RunRec, one.call # "idle", one.final = runs[r].final, NEW now, now = [runs EXCEPT ![r] = one],
         runs' = now \/ \E result : Finish(r, now, result)
  PROVE  \A q \in Runs : RunMoves(q)
<1>1. now \in [Runs -> RunRec] /\ now[r] = one /\ \A q \in Runs \ {r} : now[q] = runs[q]
  BY GatewayTypes
<1>2. CASE runs' = now
  BY <1>1, <1>2 DEF RunMoves
<1>3. CASE \E result : Finish(r, now, result)
  BY <1>3, <1>1 DEF Finish, RunRec, RunMoves
<1> QED BY <1>2, <1>3

LEMMA AbortMoves == ASSUME GatewayInv, Abort PROVE \A q \in Runs : RunMoves(q)
<1> SUFFICES ASSUME NEW r \in Runs, active = r PROVE RunMoves(r)
  BY DEF Abort, RunMoves
<1>1. runs[r] \in RunRec /\ runs[r].call # "idle" /\ runs[r].final = "none" /\ runs'[r] = [runs[r] EXCEPT !.final = "connection_aborted"]
  BY GatewayTypes DEF GatewayInv, OwnerInv, Abort
<1> QED BY <1>1 DEF RunMoves, RunRec

LEMMA RunsMove == ASSUME GatewayInv, [GatewayNext]_gatewayVars PROVE \A q \in Runs : RunMoves(q)
<1>1. CASE UNCHANGED runs
  BY <1>1 DEF RunMoves
<1>2. ASSUME NEW r \in Runs, NEW s \in Sessions, StartRun(r, s) PROVE \A q \in Runs : RunMoves(q)
  BY <1>2, GatewayTypes DEF StartRun, GatewayInv, RunInv, RunFits, RunMoves, RunRec
<1>3. ASSUME NEW r \in Runs, Rejected(r) \/ PromptUncertain(r) PROVE \A q \in Runs : RunMoves(q)
  <2>1. PICK one \in RunRec : one = [runs[r] EXCEPT !.call = "refused"]
    BY GatewayTypes, EndedFits
  <2>2. one.call = "refused" /\ one.final = runs[r].final /\ [runs EXCEPT ![r].call = "refused"] = [runs EXCEPT ![r] = one]
    BY <2>1, GatewayTypes DEF RunRec
  <2>3. runs[r].call # "idle" /\ (runs' = [runs EXCEPT ![r] = one] \/ \E result : Finish(r, [runs EXCEPT ![r] = one], result))
    BY <1>3, <2>2 DEF Rejected, PromptUncertain
  <2> QED BY <2>2, <2>3, ActiveMoves
<1>4. ASSUME NEW r \in Runs, Acknowledged(r) PROVE \A q \in Runs : RunMoves(q)
  <2>1. PICK run \in RunRec : run = runs[r]
    BY GatewayTypes
  <2>2. PICK one \in RunRec : one = [run EXCEPT !.call = "returned", !.accepted = TRUE]
    BY DEF RunRec
  <2>3. one.call = "returned" /\ one.final = runs[r].final
    BY <2>1, <2>2 DEF RunRec
  <2>4. [runs EXCEPT ![r].call = "returned", ![r].accepted = TRUE] = [runs EXCEPT ![r] = one]
    BY <2>1, <2>2, GatewayTypes
  <2>5. runs[r].call # "idle" /\ (runs' = [runs EXCEPT ![r] = one] \/ \E result : Finish(r, [runs EXCEPT ![r] = one], result))
    BY <1>4, <2>4 DEF Acknowledged
  <2> QED BY <2>3, <2>5, ActiveMoves
<1>5. ASSUME NEW s \in Sessions, NEW room \in BOOLEAN, Observe(s, room) PROVE \A q \in Runs : RunMoves(q)
  <2> DEFINE frame == Head(streams[s])
             owner == active # NoRun /\ runs[active].session = s
             free == Fits(logs[s], frame) /\ (owner => room)
  <2>1. CASE ~free
    BY <1>5, <2>1, AbortMoves DEF Observe
  <2>2. CASE free /\ owner /\ Accepted(logs[s], frame).final # "none"
    <3>1. PICK r \in Runs : r = active
      BY <2>2, GatewayTypes
    <3>2. PICK verdict : verdict = Accepted(logs[s], frame).final
      OBVIOUS
    <3>3. PICK run \in RunRec : run = runs[r]
      BY GatewayTypes
    <3>4. verdict \in Verdicts
      <4>1. frame = streams[s][1] /\ frame \in Frame /\ 1 \in 1..Len(streams[s])
        BY GatewayTypes, <1>5 DEF Observe
      <4>2. FrameFits(frame) /\ logs[s] \in Log
        BY <4>1, GatewayTypes DEF GatewayInv, StreamInv
      <4>3. Accepted(logs[s], frame) \in Log
        BY <2>2, <4>1, <4>2, AcceptedFits
      <4> QED BY <2>2, <3>2, <4>3 DEF Log
    <3>5. PICK one \in RunRec : one = [run EXCEPT !.candidate = verdict]
      BY <3>4 DEF RunRec
    <3>6. one.call = run.call /\ one.final = run.final /\ [runs EXCEPT ![r].candidate = verdict] = [runs EXCEPT ![r] = one]
      BY <3>3, <3>5, GatewayTypes DEF RunRec
    <3>7. run.call # "idle" /\ (runs' = [runs EXCEPT ![r] = one] \/ Finish(r, [runs EXCEPT ![r] = one], verdict))
      BY <1>5, <2>2, <3>1, <3>2, <3>3, <3>6, GatewayTypes DEF Observe, GatewayInv, OwnerInv
    <3> QED BY <3>3, <3>6, <3>7, ActiveMoves
  <2>3. CASE free /\ ~(owner /\ Accepted(logs[s], frame).final # "none")
    BY <1>1, <1>5, <2>3 DEF Observe
  <2> QED BY <2>1, <2>2, <2>3
<1>6. CASE CloseGateway \/ SocketEnds \/ MutationFails \/ \E r \in Runs : TimerFires(r)
  BY <1>1, <1>6, AbortMoves DEF CloseGateway, SocketEnds, TimerFires, MutationFails
<1>7. CASE \/ UNCHANGED gatewayVars \/ Create \/ Receipt \/ Attach \/ MutationRefused \/ TakesCancel \/ RefusesMutation
  BY <1>1, <1>7 DEF gatewayVars, client, Create, Receipt, Attach, MutationRefused, TakesCancel, RefusesMutation
<1>8. ASSUME NEW r \in Runs, Admits(r) \/ Refuses(r) PROVE \A q \in Runs : RunMoves(q)
  BY <1>1, <1>8 DEF client, Admits, Refuses
<1>9. ASSUME NEW s \in Sessions,
             \/ Fork(s) \/ CancelSession(s) \/ Resume(s) \/ Detach(s)
             \/ Follows(s) \/ OthersPrompt(s) \/ Drops(s) \/ Works(s)
             \/ \E parent \in Sessions \cup {NoSession} : Creates(s, parent)
             \/ \E kind \in {"title", "seed", "required", "gap"} : Irregular(s, kind)
      PROVE  \A q \in Runs : RunMoves(q)
  BY <1>9, <1>1
     DEF client, Fork, CancelSession, Resume, Detach, Follows, OthersPrompt, Drops, Works, Moves, Claims, EndsTurn,
        Creates, Irregular
<1> QED BY <1>2, <1>3, <1>4, <1>5, <1>6, <1>7, <1>8, <1>9 DEF GatewayNext

GatewayStatus(r) ==
  IF Over(r) THEN runs[r].final ELSE IF runs[r].call = "idle" THEN "none" ELSE "active"

LEMMA GatewayRefines ==
  GatewayInv /\ GatewayInv' /\ [GatewayNext]_gatewayVars => [GatewayContract!Next]_(GatewayContract!runVars)
<1> SUFFICES ASSUME GatewayInv, GatewayInv', [GatewayNext]_gatewayVars PROVE GatewayContract!Next
  OBVIOUS
<1>1. Terminals = GatewayContract!RunStatus
  BY DEF Terminals, Verdicts, GatewayContract!RunStatus
<1>2. \A r \in Runs : /\ runs[r] \in RunRec /\ runs'[r] \in RunRec /\ (runs[r].call = "idle" => runs[r].final = "none")
                      /\ RunMoves(r)
  BY GatewayTypes, RunsMove DEF GatewayInv, GatewayTypeOK, RunRec, RunInv, RunFits
<1>3. ASSUME NEW r \in Runs
      PROVE  /\ GatewayContract!RunStep(r) /\ GatewayStatus(r)' \in {"none", "active"} \cup GatewayContract!RunStatus
  BY <1>2, <1>1
     DEF RunRec, Terminals, Verdicts, GatewayStatus, Over, GatewayContract!Reports, GatewayContract!Silent, RunMoves,
        GatewayContract!RunStep, GatewayContract!Start, GatewayContract!Settle, GatewayContract!Rest
<1>4. [r \in Runs |-> GatewayStatus(r)'] \in [Runs -> {"none", "active"} \cup GatewayContract!RunStatus]
  BY <1>3
<1>5. [r \in Runs |-> {}] \in [Runs -> SUBSET {}]
  OBVIOUS
<1> QED BY <1>3, <1>4, <1>5 DEF GatewayContract!Next, GatewayStatus, Over

(* Runs of the Gateway start once, end once, and stay as they ended: what HarnessRun promises its host. *)
THEOREM GatewayRunsImplementContract == ASSUME GatewayAssumption PROVE GatewaySpec => GatewayImplementsRunContract
<1>1. GatewayInit => GatewayInv
  BY GatewayInitHolds
<1>2. GatewayInit => GatewayContract!Init
  BY DEF GatewayInit, GatewayContract!Init, Over
<1> QED BY <1>1, <1>2, GatewayStepHolds, GatewayRefines, PTL DEF GatewaySpec, GatewayImplementsRunContract, GatewayContract!Spec

===========================================================================
