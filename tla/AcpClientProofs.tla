---------------------------- MODULE AcpClientProofs ----------------------------
(* Proofs about AcpClient, for any numbers of Sessions, calls and requests and any limits: that       *)
(* TurnsSound is an invariant of Spec, and that every step keeps StepsInOrder.                       *)
EXTENDS AcpClient, FiniteSetTheorems, SequenceTheorems, TLAPS

Positions == 1..Len(writeQueue)

(* Of each request of the Agent: it is answered only from "received" or "open", once.               *)
RequestTrue(k) ==
  /\ requests[k].state \in {"none", "received"} => requests[k].handler = "none"
  /\ requests[k].state \in {"none", "received", "open"} => requests[k].answers = <<>>
  /\ Len(requests[k].answers) <= 1
  /\ k \in pendingPermissions => requests[k].state = "open" /\ requests[k].session \in Sessions
  /\ open /\ requests[k].session = NoSession /\ requests[k].handler \notin {"none", "done"}
       => requests[k].state = "open"

RequestInv == \A k \in Requests : RequestTrue(k)

(* A request waits for its dispatch once, in the state it came in.                                   *)
InboundInv ==
  /\ \A i \in 1..Len(inbound) :
       inbound[i].request # NoRequest => requests[inbound[i].request].state = "received"
  /\ \A i, j \in 1..Len(inbound) :
       inbound[i].request = inbound[j].request /\ inbound[i].request # NoRequest => i = j

(* What a queued frame says of the call it belongs to. A prompt whose frame is queued still holds    *)
(* its Session, unless its wait was given up: then the frame is skipped.                            *)
FrameTrue(f) ==
  /\ f.kind = "prompt" => /\ prompts[f.of].state \in {"requested", "detached"}
                          /\ turn[f.of] = "none"
                          /\ prompts[f.of].state = "requested" => active[prompts[f.of].session] = f.of
  /\ f.kind = "cancel" => cancels[f.of].state = "notifying"
  /\ f.kind = "close" => closes[f.of].state \in {"requested", "detached"}
  /\ f.kind = "answer" => requests[f.of].state = "answering"

(* Every frame is queued once, and the prompts of a Session come before its close.                   *)
WireInv ==
  /\ \A i \in Positions : FrameTrue(writeQueue[i])
  /\ \A i, j \in Positions : writeQueue[i] = writeQueue[j] => i = j
  /\ \A i, j \in Positions :
       /\ writeQueue[i].kind = "prompt" /\ writeQueue[j].kind = "close"
       /\ prompts[writeQueue[i].of].session = closes[writeQueue[j].of].session
       => i < j

(* The Session of a running turn is held by the prompt of that turn.                                 *)
TurnInv ==
  /\ \A p \in Prompts :
       /\ prompts[p].state = "idle" => turn[p] = "none"
       /\ prompts[p].state # "idle" => prompts[p].session \in Sessions
       /\ prompts[p].state \in {"responded", "checkpoint", "acknowledged"} => turn[p] = "ended"
       /\ open /\ turn[p] = "running" => /\ prompts[p].state \in {"requested", "detached"}
                                         /\ active[prompts[p].session] = p
  /\ OneTurnPerSession

ActiveInv ==
  open => \A s \in Sessions : active[s] # NoPrompt =>
    /\ prompts[active[s]].state \in Waiting \cup {"acknowledged", "detached"}
    /\ prompts[active[s]].session = s

(* One close of a Session at a time, also while its result is unknown; when it has reached the Agent *)
(* no prompt of the Session is on its way there.                                                    *)
Closing(x) == closes[x].state \in {"settling", "requested", "detached"}

AtAgent(x) ==
  /\ closes[x].state \in {"requested", "detached"}
  /\ \A i \in Positions :
       /\ writeQueue[i].kind = "prompt" => prompts[writeQueue[i].of].session # closes[x].session
       /\ writeQueue[i].kind = "close" => writeQueue[i].of # x

CloseInv ==
  /\ \A x \in Closes : Closing(x) => closes[x].session \in Sessions
  /\ \A x, y \in Closes : Closing(x) /\ Closing(y) /\ closes[x].session = closes[y].session => x = y
  /\ open => \A s \in Sessions : s \in closing <=> \E x \in Closes : closes[x].session = s /\ Closing(x)
  /\ open => \A x \in atAgent : AtAgent(x)

(* A cancelSession() in progress: its Session takes no prompt, so that the prompts of it are those   *)
(* that the call found, and the permissions it found are answered as cancelled.                     *)
Cancelling(c) == cancels[c].state \in {"settling", "notifying"}

CancelTrue(c) ==
  LET s == cancels[c].session IN
  /\ s \in Sessions /\ s \in cancelling
  /\ \A p \in Prompts : prompts[p].session = s => p \in cancels[c].begun
  /\ \A k \in cancels[c].answers :
       /\ requests[k].session \in Sessions /\ requests[k].answers = <<"cancelled">>
       /\ requests[k].state = "answered" \/ (requests[k].state = "answering" /\ cancels[c].state = "settling")

CancelInv == \A c \in Cancels : Cancelling(c) => CancelTrue(c)

Ops(s) == {c \in Cancels : cancels[c].session = s /\ cancels[c].state \in {"settling", "notifying"}}

CountInv ==
  open => \A s \in Sessions :
    /\ IsFiniteSet(Ops(s)) /\ cancelOps[s] = Cardinality(Ops(s))
    /\ s \in cancelling => active[s] # NoPrompt \/ cancelOps[s] > 0

(* What is queued for the consumer are the last events, and it has acknowledged none of them.        *)
EventInv ==
  /\ sequence + Len(inbound) <= received
  /\ acknowledged + Len(values) <= sequence
  /\ consumer = "yielded" => acknowledged <= held /\ held + Len(values) <= sequence
  /\ consumer = "waiting" => values = <<>>
  /\ \A i \in 1..Len(values) : values[i] + Len(values) = sequence + i

(* A prompt with its response: the events it has to wait for are queued for the consumer or among    *)
(* the messages that come before the response.                                                      *)
Before(p) == {i \in 1..Len(inbound) : inbound[i].event /\ Dispatched + i <= prompts[p].target}

DueTrue(p) ==
  /\ prompts[p].state = "responded" =>
       /\ prompts[p].target <= received
       /\ prompts[p].due <= sequence + Cardinality(Before(p))
  /\ prompts[p].state = "checkpoint" => prompts[p].due <= prompts[p].target
  /\ prompts[p].state = "acknowledged" => prompts[p].due <= acknowledged

DueInv == \A p \in Prompts : DueTrue(p)

ClosedInv ==
  ~open => /\ writeQueue = <<>> /\ inbound = <<>> /\ values = <<>> /\ pendingPermissions = {}
           /\ \A p \in Prompts : prompts[p].state \notin Waiting
           /\ \A c \in Cancels : ~Cancelling(c)
           /\ \A x \in Closes : closes[x].state \notin {"settling", "requested"}

Inv ==
  /\ TypeOK /\ RequestInv /\ InboundInv /\ WireInv /\ TurnInv /\ ActiveInv
  /\ CloseInv /\ CancelInv /\ CountInv /\ EventInv /\ DueInv /\ ClosedInv

-------------------------------------------------------------------------------
(* TypeOK by the groups of variables that actions leave alone together. *)
SessTyped ==
  /\ active \in [Sessions -> Prompts \cup {NoPrompt}] /\ cancelOps \in [Sessions -> Nat]
  /\ cancelling \subseteq Sessions /\ closing \subseteq Sessions
CallTyped ==
  /\ prompts \in [Prompts -> PromptRecord] /\ cancels \in [Cancels -> CancelRecord]
  /\ closes \in [Closes -> CloseRecord]
PermTyped == requests \in [Requests -> RequestRecord] /\ pendingPermissions \subseteq Requests
Messages == [event : BOOLEAN, request : Requests \cup {NoRequest}]
InTyped ==
  /\ open \in BOOLEAN /\ initialized \in {"no", "attempted", "ready"}
  /\ inbound \in Seq(Messages) /\ received \in 0..MaxInbound /\ Len(inbound) <= received
QueueTyped == writeQueue \in Seq(Frames) /\ Len(writeQueue) <= MaxPendingWrites
EventTyped ==
  /\ values \in Seq(1..MaxInbound) /\ Len(values) <= MaxBufferedEvents
  /\ sequence \in 0..MaxInbound /\ acknowledged \in 0..MaxInbound /\ held \in 0..MaxInbound
  /\ consumer \in {"unclaimed", "idle", "waiting", "yielded", "ended"}
AgentTyped ==
  turn \in [Prompts -> {"none", "running", "closed", "ended"}] /\ atAgent \subseteq Closes

LEMMA TypeParts ==
  TypeOK <=> SessTyped /\ CallTyped /\ PermTyped /\ InTyped /\ QueueTyped /\ EventTyped /\ AgentTyped
  BY DEF TypeOK, SessTyped, CallTyped, PermTyped, InTyped, QueueTyped, EventTyped, AgentTyped, Messages

LEMMA TypePartsNext ==
  TypeOK' <=> SessTyped' /\ CallTyped' /\ PermTyped' /\ InTyped' /\ QueueTyped' /\ EventTyped' /\ AgentTyped'
  BY DEF TypeOK, SessTyped, CallTyped, PermTyped, InTyped, QueueTyped, EventTyped, AgentTyped, Messages

PromptStates == Waiting \cup {"idle", "acknowledged", "resolved", "rejected", "detached"}

LEMMA PromptGoes ==
  ASSUME CallTyped, NEW p \in Prompts, NEW st \in PromptStates
  PROVE  [prompts[p] EXCEPT !.state = st] \in PromptRecord
  BY DEF CallTyped, PromptRecord, PromptStates

LEMMA CancelGoes ==
  ASSUME CallTyped, NEW c \in Cancels, NEW st \in {"idle", "settling", "notifying", "resolved", "rejected"}
  PROVE  [cancels[c] EXCEPT !.state = st] \in CancelRecord
  BY DEF CallTyped, CancelRecord

LEMMA CloseGoes ==
  ASSUME CallTyped, NEW x \in Closes,
         NEW st \in {"idle", "settling", "requested", "resolved", "rejected", "detached"}
  PROVE  [closes[x] EXCEPT !.state = st] \in CloseRecord
  BY DEF CallTyped, CloseRecord

LEMMA RequestGoes ==
  ASSUME PermTyped, NEW k \in Requests,
         NEW st \in {"none", "received", "open", "answering", "answered", "refused", "released"}
  PROVE  [requests[k] EXCEPT !.state = st] \in RequestRecord
  BY DEF PermTyped, RequestRecord

LEMMA RequestAnswered ==
  ASSUME PermTyped, NEW k \in Requests, NEW outcome \in Outcomes,
         NEW st \in {"none", "received", "open", "answering", "answered", "refused", "released"}
  PROVE  [requests[k] EXCEPT !.state = st, !.answers = Append(@, outcome)] \in RequestRecord
<1>1. requests[k] \in RequestRecord
  BY DEF PermTyped
<1>2. Append(requests[k].answers, outcome) \in Seq(Outcomes)
  BY <1>1, AppendProperties DEF RequestRecord
<1> QED BY <1>1, <1>2 DEF RequestRecord

LEMMA EndTyped ==
  ASSUME TypeOK, End
  PROVE  CallTyped' /\ PermTyped' /\ QueueTyped' /\ inbound' = <<>> /\ values' = <<>> /\ ~open'
         /\ consumer' \in {"unclaimed", "idle", "yielded", "ended"}
<1>1. CallTyped /\ PermTyped /\ EventTyped
  BY TypeParts
<1>2. prompts' \in [Prompts -> PromptRecord]
  BY <1>1, PromptGoes DEF End, CallTyped, PromptStates
<1>3. cancels' \in [Cancels -> CancelRecord]
  BY <1>1, CancelGoes DEF End, CallTyped
<1>4. closes' \in [Closes -> CloseRecord]
  BY <1>1, CloseGoes DEF End, CallTyped
<1>5. requests' \in [Requests -> RequestRecord]
  BY <1>1, RequestGoes DEF End, PermTyped
<1>6. QueueTyped'
  BY LimitsAssumption DEF LimitsAssumption, End, QueueTyped
<1> QED BY <1>1, <1>2, <1>3, <1>4, <1>5, <1>6 DEF End, CallTyped, PermTyped, EventTyped

-------------------------------------------------------------------------------
(* The answers of a settlement: permissions of s, each once, as many as there is room for. *)
LEMMA AnswersFit ==
  ASSUME TypeOK, NEW s, NEW q \in Answerable(s)
  PROVE  /\ q \in Seq(Mine(s)) /\ Len(q) \in Nat /\ Len(writeQueue) + Len(q) <= MaxPendingWrites
         /\ DOMAIN q = 1..Len(q) /\ \A i \in 1..Len(q) : q[i] \in Mine(s)
         /\ \A i, j \in 1..Len(q) : q[i] = q[j] => i = j
         /\ Range(q) = {q[i] : i \in 1..Len(q)} /\ Range(q) \subseteq Mine(s)
<1>1. Room \in Nat /\ Len(writeQueue) + Room = MaxPendingWrites
  BY LimitsAssumption DEF LimitsAssumption, TypeOK, Room
<1>2. PICK n \in 0..Room : q \in [1..n -> Mine(s)] /\ IsInjective(q)
  BY DEF Answerable, Injection
<1>3. n \in Nat /\ q \in Seq(Mine(s)) /\ Len(q) = n
  BY <1>1, <1>2
<1> QED BY <1>1, <1>2, <1>3 DEF IsInjective, Range

LEMMA FramesOfAnswers ==
  ASSUME TypeOK, NEW s, NEW q \in Answerable(s)
  PROVE  /\ AnswerFrames(q) \in Seq(Frames) /\ Len(AnswerFrames(q)) = Len(q)
         /\ \A i \in 1..Len(q) : AnswerFrames(q)[i] = [kind |-> "answer", of |-> q[i]]
<1>1. Mine(s) \subseteq Requests
  BY DEF TypeOK, Mine
<1>2. \A i \in 1..Len(q) : [kind |-> "answer", of |-> q[i]] \in Frames
  BY <1>1, AnswersFit DEF Frames
<1>3. AnswerFrames(q) \in [1..Len(q) -> Frames]
  BY <1>2 DEF AnswerFrames
<1> QED BY <1>3, AnswersFit DEF AnswerFrames

LEMMA SettleTyped ==
  ASSUME TypeOK, NEW s, NEW q \in Answerable(s), SettlePermissions(s, q)
  PROVE  PermTyped' /\ QueueTyped'
<1>1. PermTyped /\ QueueTyped
  BY TypeParts
<1>2. requests' \in [Requests -> RequestRecord]
  BY <1>1, RequestAnswered DEF Outcomes, SettlePermissions, PermTyped
<1>3. writeQueue' = writeQueue \o AnswerFrames(q)
  BY DEF SettlePermissions
<1>4. PICK fs \in Seq(Frames) : fs = AnswerFrames(q) /\ Len(fs) = Len(q)
  BY FramesOfAnswers
<1>5. writeQueue \in Seq(Frames)
  BY <1>1 DEF QueueTyped
<1>6. writeQueue \o fs \in Seq(Frames) /\ Len(writeQueue \o fs) = Len(writeQueue) + Len(fs)
  BY <1>5, ConcatProperties
<1>7. QueueTyped'
  BY <1>3, <1>4, <1>6, AnswersFit DEF QueueTyped
<1> QED BY <1>1, <1>2, <1>7 DEF PermTyped, SettlePermissions

LEMMA FinishTyped ==
  ASSUME SessTyped, NEW p, Finish(p)
  PROVE  active' \in [Sessions -> Prompts \cup {NoPrompt}] /\ cancelling' \subseteq Sessions
  BY DEF SessTyped, Finish, MaybeClearCancellation

LEMMA OpsPositive ==
  ASSUME Inv, NEW c \in Cancels, Cancelling(c)
  PROVE  open /\ cancels[c].session \in Sessions /\ cancelOps[cancels[c].session] \in Nat \ {0}
<1>1. open /\ cancels[c].session \in Sessions
  BY DEF Inv, ClosedInv, CancelInv, CancelTrue, TypeOK
<1>2. PICK S : S = Ops(cancels[c].session)
  OBVIOUS
<1>3. IsFiniteSet(S) /\ cancelOps[cancels[c].session] = Cardinality(S) /\ c \in S
  BY <1>1, <1>2 DEF Inv, CountInv, Ops, Cancelling
<1> QED BY <1>1, <1>3, FS_CardinalityType, FS_EmptySet

-------------------------------------------------------------------------------
(* What each step does to a group of variables: the actions that change it. *)
PromptEnds(p) ==
  \/ CheckpointGivesUp(p) \/ PromptResolves(p)
  \/ PromptContinues(p) /\ Finish(p)

LEMMA SessChanges ==
  ASSUME [Next]_vars
  PROVE  \/ UNCHANGED sessVars
         \/ Close \/ Flush
         \/ \E p \in Prompts : PromptEnds(p) \/ \E s \in Sessions : Prompt(p, s)
         \/ \E c \in Cancels : \/ \E s \in Sessions : \E q \in Answerable(s) : CancelSession(c, s, q)
                               \/ CancelNotifies(c)
         \/ \E x \in Closes : \/ \E s \in Sessions : \E q \in Answerable(s) : CloseSession(x, s, q)
                              \/ CloseRequests(x)
                              \/ \E ok \in BOOLEAN : CloseAnswered(x, ok)
  BY ZenonT(60) DEF Next, vars, sessVars, Initialize, InitializeSettles, Fail, Dispatch, DispatchFails,
         DispatchNotification, DispatchAnswered, DispatchHandled, ReceiveNotification, ClaimEvents,
         ConsumerNext, PromptDetaches, PromptContinues, PromptAnswered, CloseGivesUp, ReceiveRequest,
         HandlerSettles, HandlerContinues, PromptEnds

(* What the frame at the head is. *)
LEMMA FlushHead ==
  ASSUME TypeOK, Flush
  PROVE  \E f \in Frames : /\ Head(writeQueue) = f /\ writeQueue[1] = f /\ 1 \in Positions
                           /\ Len(writeQueue') = Len(writeQueue) - 1
                           /\ \A i \in 1..Len(writeQueue') : /\ writeQueue'[i] = writeQueue[i + 1]
                                                             /\ i + 1 \in Positions
<1>1. writeQueue \in Seq(Frames) /\ writeQueue # <<>> /\ writeQueue' = Tail(writeQueue)
  BY DEF TypeOK, Flush
<1>2. Len(writeQueue) \in Nat /\ Len(writeQueue) > 0
  BY <1>1, EmptySeq
<1>3. /\ Head(writeQueue) = writeQueue[1] /\ Len(Tail(writeQueue)) = Len(writeQueue) - 1
      /\ \A i \in 1..Len(Tail(writeQueue)) : Tail(writeQueue)[i] = writeQueue[i + 1]
  BY <1>1, HeadTailProperties
<1> QED BY <1>1, <1>2, <1>3 DEF Positions

LEMMA FlushCancel ==
  ASSUME TypeOK, WireInv, Flush
  PROVE  \/ UNCHANGED <<cancels, cancelOps, cancelling>>
         \/ \E c \in Cancels : /\ cancels[c].state = "notifying" /\ writeQueue[1] = [kind |-> "cancel", of |-> c]
                               /\ cancels' = [cancels EXCEPT ![c].state = "resolved"]
                               /\ EndCancellation(cancels[c].session)
                               /\ UNCHANGED <<requests, agentVars>>
<1>1. PICK f \in Frames : Head(writeQueue) = f /\ writeQueue[1] = f /\ 1 \in Positions
  BY FlushHead
<1>2. CASE f.kind = "cancel"
  <2>1. PICK c \in Cancels : f = [kind |-> "cancel", of |-> c]
    BY <1>2 DEF Frames
  <2>2. cancels[c].state = "notifying"
    BY <1>1, <2>1 DEF WireInv, FrameTrue
  <2>3. Head(writeQueue).kind = "cancel" /\ Head(writeQueue).of = c
    BY <1>1, <2>1
  <2>4. /\ cancels' = [cancels EXCEPT ![c].state = "resolved"]
        /\ EndCancellation(cancels[c].session)
        /\ UNCHANGED <<requests, agentVars>>
    BY <2>3 DEF Flush
  <2> QED BY <1>1, <2>1, <2>2, <2>4
<1> QED BY <1>1, <1>2 DEF Flush, Frames

LEMMA CancelEndTyped ==
  ASSUME SessTyped, NEW s, cancelOps[s] \in Nat \ {0}, EndCancellation(s)
  PROVE  cancelOps' \in [Sessions -> Nat] /\ cancelling' \subseteq Sessions
<1>1. cancelOps[s] - 1 \in Nat
  OBVIOUS
<1> QED BY <1>1 DEF EndCancellation, MaybeClearCancellation, SessTyped

LEMMA SessStep ==
  ASSUME Inv, [Next]_vars
  PROVE  SessTyped'
<1> USE TypeParts DEF Inv
<1>1. SessTyped /\ CallTyped
  OBVIOUS
<1>2. CASE UNCHANGED sessVars
  BY <1>1, <1>2 DEF sessVars, SessTyped
<1>3. CASE Close
  BY <1>3 DEF Close, SessTyped
<1>4. CASE Flush
  BY <1>4, <1>1, OpsPositive, CancelEndTyped, FlushCancel DEF Flush, SessTyped, Cancelling
<1>5. ASSUME NEW p \in Prompts, PromptEnds(p) PROVE SessTyped'
  BY <1>5, <1>1, FinishTyped DEF PromptEnds, CheckpointGivesUp, PromptResolves, PromptContinues, SessTyped
<1>6. ASSUME NEW p \in Prompts, NEW s \in Sessions, Prompt(p, s) PROVE SessTyped'
  BY <1>1, <1>6 DEF Prompt, SessTyped
<1>7. ASSUME NEW c \in Cancels, NEW s \in Sessions, NEW q \in Answerable(s), CancelSession(c, s, q)
      PROVE  SessTyped'
  BY <1>1, <1>7 DEF CancelSession, SessTyped
<1>8. ASSUME NEW c \in Cancels, CancelNotifies(c) PROVE SessTyped'
  BY <1>8, OpsPositive, <1>1, CancelEndTyped DEF Cancelling, CancelNotifies, SessTyped
<1>9. ASSUME NEW x \in Closes, NEW s \in Sessions, NEW q \in Answerable(s), CloseSession(x, s, q)
      PROVE  SessTyped'
  BY <1>1, <1>9 DEF CloseSession, SessTyped
<1>10. ASSUME NEW x \in Closes, CloseRequests(x) PROVE SessTyped'
  BY <1>1, <1>10 DEF CloseRequests, SessTyped
<1>11. ASSUME NEW x \in Closes, NEW ok \in BOOLEAN, CloseAnswered(x, ok) PROVE SessTyped'
  BY <1>1, <1>11 DEF CloseAnswered, MaybeClearCancellation, SessTyped
<1> QED BY <1>2, <1>3, <1>4, <1>5, <1>6, <1>7, <1>8, <1>9, <1>10, <1>11, SessChanges

LEMMA CallChanges ==
  ASSUME [Next]_vars
  PROVE  \/ UNCHANGED callVars
         \/ End \/ Flush \/ ConsumerNext
         \/ \E p \in Prompts : \/ \E s \in Sessions : Prompt(p, s)
                               \/ PromptDetaches(p) \/ CheckpointGivesUp(p)
                               \/ PromptContinues(p) \/ PromptResolves(p)
                               \/ \E ok \in BOOLEAN : PromptAnswered(p, ok)
         \/ \E c \in Cancels : \/ \E s \in Sessions : \E q \in Answerable(s) : CancelSession(c, s, q)
                               \/ CancelNotifies(c)
         \/ \E x \in Closes : \/ \E s \in Sessions : \E q \in Answerable(s) : CloseSession(x, s, q)
                              \/ CloseRequests(x) \/ CloseGivesUp(x)
                              \/ \E ok \in BOOLEAN : CloseAnswered(x, ok)
  BY DEF Next, vars, callVars, Initialize, InitializeSettles, Fail, Close, Dispatch, DispatchFails,
         DispatchNotification, DispatchAnswered, DispatchHandled, ReceiveNotification, ClaimEvents,
         ReceiveRequest, HandlerSettles, HandlerContinues

(* Events among the messages that are not dispatched. *)
LEMMA EventsBounded ==
  ASSUME TypeOK, EventInv
  PROVE  /\ IsFiniteSet({i \in 1..Len(inbound) : inbound[i].event})
         /\ EventsReceived \in 0..MaxInbound
<1>1. /\ inbound \in Seq(Messages) /\ Len(inbound) \in Nat /\ DOMAIN inbound = 1..Len(inbound)
      /\ received \in 0..MaxInbound /\ sequence \in 0..MaxInbound /\ sequence + Len(inbound) <= received
  BY LenProperties DEF TypeOK, EventInv, Messages
<1>2. IsFiniteSet(1..Len(inbound)) /\ Cardinality(1..Len(inbound)) = Len(inbound)
  <2>1. PICK n \in Nat : n = Len(inbound)
    BY <1>1
  <2>2. IsFiniteSet(1..n) /\ Cardinality(1..n) = IF 1 > n THEN 0 ELSE n - 1 + 1
    BY FS_Interval
  <2>3. (IF 1 > n THEN 0 ELSE n - 1 + 1) = n
    OBVIOUS
  <2> QED BY <2>1, <2>2, <2>3
<1>3. PICK E : E = {i \in 1..Len(inbound) : inbound[i].event}
  OBVIOUS
<1>4. IsFiniteSet(E) /\ Cardinality(E) <= Len(inbound) /\ Cardinality(E) \in Nat
  BY <1>2, <1>3, FS_Subset, FS_CardinalityType
<1>5. EventsReceived = sequence + Cardinality(E)
  BY <1>1, <1>3 DEF EventsReceived
<1>6. MaxInbound \in Nat
  BY LimitsAssumption DEF LimitsAssumption
<1> QED BY <1>1, <1>3, <1>4, <1>5, <1>6

(* The steps of one prompt. *)
LEMMA PromptMoves ==
  ASSUME TypeOK, EventInv, NEW p \in Prompts,
         \/ PromptDetaches(p) \/ CheckpointGivesUp(p) \/ PromptContinues(p) \/ PromptResolves(p)
         \/ \E s \in Sessions : Prompt(p, s)
         \/ \E ok \in BOOLEAN : PromptAnswered(p, ok)
  PROVE  /\ \E new \in PromptRecord : prompts' = [prompts EXCEPT ![p] = new]
         /\ UNCHANGED <<cancels, closes>>
<1>1. /\ prompts \in [Prompts -> PromptRecord] /\ prompts[p] \in PromptRecord
      /\ received \in 0..MaxInbound /\ sequence \in 0..MaxInbound
  BY DEF TypeOK
<1>2. CASE PromptDetaches(p) \/ CheckpointGivesUp(p) \/ PromptResolves(p)
  <2>1. PICK st \in {"detached", "rejected", "resolved"} : prompts' = [prompts EXCEPT ![p].state = st]
    BY <1>2 DEF PromptDetaches, CheckpointGivesUp, PromptResolves
  <2>2. [prompts[p] EXCEPT !.state = st] \in PromptRecord
    BY <1>1 DEF PromptRecord
  <2>3. prompts' = [prompts EXCEPT ![p] = [prompts[p] EXCEPT !.state = st]]
    BY <2>1
  <2> QED BY <1>2, <2>2, <2>3 DEF PromptDetaches, CheckpointGivesUp, PromptResolves
<1>3. CASE PromptContinues(p)
  <2>1. PICK new \in {[prompts[p] EXCEPT !.state = "resolved"], [prompts[p] EXCEPT !.state = "rejected"],
                      [prompts[p] EXCEPT !.state = "checkpoint", !.target = sequence]} :
          prompts' = [prompts EXCEPT ![p] = new]
    BY <1>3 DEF PromptContinues
  <2>2. new \in PromptRecord
    BY <1>1 DEF PromptRecord, Waiting
  <2> QED BY <1>3, <2>1, <2>2 DEF PromptContinues
<1>4. ASSUME NEW s \in Sessions, Prompt(p, s)
      PROVE  /\ \E new \in PromptRecord : prompts' = [prompts EXCEPT ![p] = new]
             /\ UNCHANGED <<cancels, closes>>
  <2>1. PICK new : new = [prompts[p] EXCEPT !.state = "requested", !.session = s]
    OBVIOUS
  <2>2. new \in PromptRecord
    BY <1>1, <2>1 DEF PromptRecord, Waiting
  <2>3. prompts' = [prompts EXCEPT ![p] = new]
    BY <1>4, <2>1 DEF Prompt
  <2> QED BY <1>4, <2>2, <2>3 DEF Prompt
<1>5. ASSUME NEW ok \in BOOLEAN, PromptAnswered(p, ok)
      PROVE  /\ \E new \in PromptRecord : prompts' = [prompts EXCEPT ![p] = new]
             /\ UNCHANGED <<cancels, closes>>
  <2>1. EventsReceived \in 0..MaxInbound
    BY EventsBounded
  <2>2. [prompts[p] EXCEPT !.state = "responded", !.ok = ok, !.target = received, !.due = EventsReceived]
          \in PromptRecord
    BY <1>1, <2>1 DEF PromptRecord, Waiting
  <2>3. prompts = [prompts EXCEPT ![p] = prompts[p]]
    BY <1>1
  <2>4. \/ prompts' = prompts
        \/ prompts' = [prompts EXCEPT ![p] = [prompts[p] EXCEPT !.state = "responded", !.ok = ok,
                                             !.target = received, !.due = EventsReceived]]
    BY <1>5 DEF PromptAnswered
  <2> QED BY <1>1, <1>5, <2>2, <2>3, <2>4 DEF PromptAnswered
<1> QED BY <1>2, <1>3, <1>4, <1>5

(* The steps of one cancelSession() and of one closeSession(). *)
LEMMA CancelMoves ==
  ASSUME TypeOK, NEW c \in Cancels,
         \/ CancelNotifies(c)
         \/ \E s \in Sessions : \E q \in Answerable(s) : CancelSession(c, s, q)
  PROVE  /\ \E new \in CancelRecord : cancels' = [cancels EXCEPT ![c] = new]
         /\ UNCHANGED <<prompts, closes>>
<1>1. cancels \in [Cancels -> CancelRecord]
  BY DEF TypeOK
<1>2. CASE CancelNotifies(c)
  <2>1. PICK st \in {"notifying", "rejected"} : cancels' = [cancels EXCEPT ![c].state = st]
    BY <1>2 DEF CancelNotifies
  <2>2. [cancels[c] EXCEPT !.state = st] \in CancelRecord
    BY <1>1 DEF CancelRecord
  <2>3. cancels' = [cancels EXCEPT ![c] = [cancels[c] EXCEPT !.state = st]]
    BY <2>1
  <2> QED BY <1>2, <2>2, <2>3 DEF CancelNotifies
<1>3. ASSUME NEW s \in Sessions, NEW q \in Answerable(s), CancelSession(c, s, q)
      PROVE  /\ \E new \in CancelRecord : cancels' = [cancels EXCEPT ![c] = new]
             /\ UNCHANGED <<prompts, closes>>
  <2>1. PICK st \in {"settling", "rejected"} :
          cancels' = [cancels EXCEPT ![c] =
            [session |-> s, state |-> st, answers |-> Mine(s),
             begun |-> {p \in Prompts : prompts[p].session = s}]]
    BY <1>3 DEF CancelSession
  <2>2. Mine(s) \in SUBSET Requests
    BY DEF Mine, TypeOK
  <2>3. [session |-> s, state |-> st, answers |-> Mine(s),
         begun |-> {p \in Prompts : prompts[p].session = s}] \in CancelRecord
    BY <2>2 DEF CancelRecord
  <2> QED BY <1>3, <2>1, <2>3 DEF CancelSession
<1> QED BY <1>2, <1>3

LEMMA CloseMoves ==
  ASSUME TypeOK, NEW x \in Closes,
         \/ CloseRequests(x) \/ CloseGivesUp(x)
         \/ \E s \in Sessions : \E q \in Answerable(s) : CloseSession(x, s, q)
         \/ \E ok \in BOOLEAN : CloseAnswered(x, ok)
  PROVE  /\ \E new \in CloseRecord : closes' = [closes EXCEPT ![x] = new]
         /\ UNCHANGED <<prompts, cancels>>
<1>1. closes \in [Closes -> CloseRecord]
  BY DEF TypeOK
<1>2. ASSUME \/ CloseRequests(x) \/ CloseGivesUp(x)
             \/ \E ok \in BOOLEAN : CloseAnswered(x, ok)
      PROVE  /\ \E new \in CloseRecord : closes' = [closes EXCEPT ![x] = new]
             /\ UNCHANGED <<prompts, cancels>>
  <2>1. /\ UNCHANGED closes \/ \E st \in {"requested", "rejected", "detached", "resolved"} :
                                 closes' = [closes EXCEPT ![x].state = st]
        /\ UNCHANGED <<prompts, cancels>>
    BY <1>2 DEF CloseRequests, CloseGivesUp, CloseAnswered
  <2>2. ASSUME NEW st \in {"requested", "rejected", "detached", "resolved"},
               closes' = [closes EXCEPT ![x].state = st]
        PROVE  \E new \in CloseRecord : closes' = [closes EXCEPT ![x] = new]
    <3>1. [closes[x] EXCEPT !.state = st] \in CloseRecord
      BY <1>1 DEF CloseRecord
    <3>2. closes' = [closes EXCEPT ![x] = [closes[x] EXCEPT !.state = st]]
      BY <2>2
    <3> QED BY <3>1, <3>2
  <2>3. closes = [closes EXCEPT ![x] = closes[x]] /\ closes[x] \in CloseRecord
    BY <1>1
  <2> QED BY <2>1, <2>2, <2>3
<1>3. ASSUME NEW s \in Sessions, NEW q \in Answerable(s), CloseSession(x, s, q)
      PROVE  /\ \E new \in CloseRecord : closes' = [closes EXCEPT ![x] = new]
             /\ UNCHANGED <<prompts, cancels>>
  <2>1. PICK st \in {"settling", "rejected"} :
          closes' = [closes EXCEPT ![x] = [session |-> s, state |-> st, answers |-> Mine(s)]]
    BY <1>3 DEF CloseSession
  <2>2. Mine(s) \in SUBSET Requests
    BY DEF Mine, TypeOK
  <2>3. [session |-> s, state |-> st, answers |-> Mine(s)] \in CloseRecord
    BY <2>2 DEF CloseRecord
  <2> QED BY <1>3, <2>1, <2>3 DEF CloseSession
<1> QED BY <1>2, <1>3

LEMMA CallStep ==
  ASSUME Inv, [Next]_vars
  PROVE  CallTyped'
<1>1. TypeOK /\ EventInv /\ WireInv /\ CallTyped
  BY TypeParts DEF Inv
<1>2. CASE UNCHANGED callVars
  BY <1>1, <1>2 DEF callVars, CallTyped
<1>3. CASE End
  BY <1>1, <1>3, EndTyped
<1>4. CASE Flush
  BY <1>4, <1>1, CancelGoes, FlushCancel DEF Flush, CallTyped
<1>5. CASE ConsumerNext
  BY <1>1, PromptGoes, <1>5 DEF PromptStates, ConsumerNext, CallTyped
<1>6. ASSUME NEW p \in Prompts, NEW new \in PromptRecord, prompts' = [prompts EXCEPT ![p] = new],
             UNCHANGED <<cancels, closes>>
      PROVE  CallTyped'
  BY <1>1, <1>6 DEF CallTyped
<1>7. ASSUME NEW c \in Cancels, NEW new \in CancelRecord, cancels' = [cancels EXCEPT ![c] = new],
             UNCHANGED <<prompts, closes>>
      PROVE  CallTyped'
  BY <1>1, <1>7 DEF CallTyped
<1>8. ASSUME NEW x \in Closes, NEW new \in CloseRecord, closes' = [closes EXCEPT ![x] = new],
             UNCHANGED <<prompts, cancels>>
      PROVE  CallTyped'
  BY <1>1, <1>8 DEF CallTyped
<1> QED BY <1>1, <1>2, <1>3, <1>4, <1>5, <1>6, <1>7, <1>8, CallChanges, PromptMoves, CancelMoves, CloseMoves

LEMMA RequestChanges ==
  ASSUME [Next]_vars
  PROVE  \/ UNCHANGED <<open, permVars, inVars>>
         \/ End /\ UNCHANGED received
         \/ \E s \in Sessions : \E q \in Answerable(s) :
              SettlePermissions(s, q) /\ UNCHANGED <<open, inVars>>
         \/ Flush \/ ReceiveNotification \/ DispatchNotification \/ DispatchHandled
         \/ \E outcome \in {"cancelled", "error"} : DispatchAnswered(outcome)
         \/ \E k \in Requests :
              \/ \E s \in Sessions \cup {NoSession}, unknown \in BOOLEAN : ReceiveRequest(k, s, unknown)
              \/ \E result \in {"decision", "error"} : HandlerSettles(k, result)
              \/ HandlerContinues(k)
  BY ZenonT(60) DEF Next, vars, permVars, inVars, Initialize, InitializeSettles, Fail, Close, Dispatch, DispatchFails,
         ClaimEvents, ConsumerNext, PromptDetaches, CheckpointGivesUp, PromptContinues, PromptResolves,
         PromptAnswered, Prompt, CancelSession, CancelNotifies, CloseSession, CloseRequests, CloseGivesUp,
         CloseAnswered

(* What the next message is. *)
LEMMA NextMessage ==
  ASSUME TypeOK, inbound # <<>>, inbound' = Tail(inbound)
  PROVE  \E m \in Messages :
           /\ Head(inbound) = m /\ inbound[1] = m /\ 1 \in 1..Len(inbound)
           /\ Tail(inbound) \in Seq(Messages) /\ Len(inbound') = Len(inbound) - 1
           /\ \A i \in 1..Len(inbound') : inbound'[i] = inbound[i + 1] /\ i + 1 \in 1..Len(inbound)
<1>1. inbound \in Seq(Messages)
  BY DEF TypeOK, Messages
<1>2. Len(inbound) \in Nat /\ Len(inbound) > 0
  BY <1>1, EmptySeq
<1>3. /\ Head(inbound) = inbound[1] /\ Head(inbound) \in Messages
      /\ Tail(inbound) \in Seq(Messages) /\ Len(Tail(inbound)) = Len(inbound) - 1
      /\ \A i \in 1..Len(Tail(inbound)) : Tail(inbound)[i] = inbound[i + 1]
  BY <1>1, HeadTailProperties
<1> QED BY <1>1, <1>2, <1>3

LEMMA PermStep ==
  ASSUME Inv, [Next]_vars
  PROVE  PermTyped'
<1>1. TypeOK /\ PermTyped /\ QueueTyped /\ InTyped
  BY TypeParts DEF Inv
<1>2. CASE UNCHANGED permVars
  BY <1>1, <1>2 DEF permVars, PermTyped
<1>3. CASE End
  BY <1>1, <1>3, EndTyped
<1>4. ASSUME NEW s \in Sessions, NEW q \in Answerable(s), SettlePermissions(s, q) PROVE PermTyped'
  BY <1>1, <1>4, SettleTyped
<1>5. CASE Flush
  <2>1. PICK f \in Frames : Head(writeQueue) = f
    BY <1>1, <1>5, FlushHead
  <2>2. UNCHANGED pendingPermissions
    BY <1>5 DEF Flush
  <2>3. CASE f.kind = "answer"
    BY <1>5, <2>1, <2>3, <1>1, RequestGoes, <2>2 DEF Flush, Frames, PermTyped
  <2>4. CASE f.kind # "answer"
    BY <1>5, <2>1, <2>4, <1>1, <2>2 DEF Flush, Frames, PermTyped
  <2> QED BY <2>3, <2>4
<1>6. ASSUME NEW k \in Requests, NEW new \in RequestRecord, requests' = [requests EXCEPT ![k] = new],
             pendingPermissions' \subseteq Requests
      PROVE  PermTyped'
  BY <1>1, <1>6 DEF PermTyped
<1>7. CASE DispatchHandled
  <2>1. PICK k : /\ k = Head(inbound).request /\ k # NoRequest /\ MayDispatch /\ inbound' = Tail(inbound)
                 /\ requests' = [requests EXCEPT ![k].state = "open", ![k].handler = "running"]
                 /\ pendingPermissions' \in {pendingPermissions, pendingPermissions \cup {k}}
    BY <1>7 DEF DispatchHandled
  <2>2. k \in Requests
    BY <1>1, <2>1, NextMessage DEF MayDispatch, Messages
  <2>3. PICK new : new = [requests[k] EXCEPT !.state = "open", !.handler = "running"]
    OBVIOUS
  <2>4. new \in RequestRecord
    BY <1>1, <2>2, <2>3 DEF RequestRecord, PermTyped
  <2>5. requests' = [requests EXCEPT ![k] = new]
    BY <2>1, <2>3
  <2> QED BY <1>1, <1>6, <2>1, <2>2, <2>4, <2>5 DEF PermTyped
<1>8. ASSUME NEW outcome \in {"cancelled", "error"}, DispatchAnswered(outcome) PROVE PermTyped'
  <2>1. PICK k : /\ k = Head(inbound).request /\ k # NoRequest /\ MayDispatch /\ inbound' = Tail(inbound)
                 /\ requests' = [requests EXCEPT ![k].state = "answering", ![k].answers = Append(@, outcome)]
                 /\ UNCHANGED pendingPermissions
    BY <1>8 DEF DispatchAnswered, Answer
  <2>2. k \in Requests
    BY <1>1, <2>1, NextMessage DEF MayDispatch, Messages
  <2>3. [requests[k] EXCEPT !.state = "answering", !.answers = Append(@, outcome)] \in RequestRecord
    BY <1>1, <2>2, RequestAnswered DEF Outcomes
  <2>4. requests' = [requests EXCEPT ![k] = [requests[k] EXCEPT !.state = "answering",
                                                               !.answers = Append(@, outcome)]]
    BY <2>1
  <2> QED BY <1>1, <1>6, <2>1, <2>2, <2>3, <2>4 DEF PermTyped
<1>9. ASSUME NEW k \in Requests, NEW s \in Sessions \cup {NoSession}, NEW u \in BOOLEAN, ReceiveRequest(k, s, u)
      PROVE  PermTyped'
  <2>1. [requests[k] EXCEPT !.state = "received", !.session = s] \in RequestRecord
    BY <1>1 DEF RequestRecord, PermTyped
  <2>2. requests' = [requests EXCEPT ![k] = [requests[k] EXCEPT !.state = "received", !.session = s]]
    BY <1>9 DEF ReceiveRequest
  <2> QED BY <1>1, <1>6, <1>9, <2>1, <2>2 DEF ReceiveRequest, PermTyped
<1>10. ASSUME NEW k \in Requests, NEW result \in {"decision", "error"}, HandlerSettles(k, result)
       PROVE  PermTyped'
  BY <1>1, <1>10, <1>6 DEF RequestRecord, PermTyped, HandlerSettles
<1>11. ASSUME NEW k \in Requests, HandlerContinues(k), ~End PROVE PermTyped'
  <2>1. PICK h : h = requests[k].handler /\ h \in Outcomes
    BY <1>11 DEF HandlerContinues, Outcomes
  <2>2. pendingPermissions' \subseteq Requests
    BY <1>1, <1>11 DEF HandlerContinues, PermTyped
  <2>3. CASE requests' = [requests EXCEPT ![k].handler = "done"]
    BY <1>1, <2>3, <1>6, <2>2 DEF RequestRecord, PermTyped
  <2>4. CASE requests' = [requests EXCEPT ![k].handler = "done", ![k].state = "answering",
                                          ![k].answers = Append(@, h)]
    <3>1. PICK old \in RequestRecord : old = [requests[k] EXCEPT !.state = "answering", !.answers = Append(@, h)]
      BY <1>1, <2>1, RequestAnswered
    <3>2. [old EXCEPT !.handler = "done"] \in RequestRecord
      BY DEF RequestRecord
    <3>3. requests' = [requests EXCEPT ![k] = [old EXCEPT !.handler = "done"]]
      BY <1>1, <2>4, <3>1 DEF PermTyped, RequestRecord
    <3> QED BY <1>6, <2>2, <3>2, <3>3
  <2> QED BY <1>11, <2>1, <2>3, <2>4 DEF HandlerContinues
<1>12. CASE ReceiveNotification \/ DispatchNotification
  BY <1>1, <1>12 DEF ReceiveNotification, DispatchNotification, permVars, PermTyped
<1> QED BY <1>2, <1>3, <1>4, <1>5, <1>7, <1>8, <1>9, <1>10, <1>11, <1>12, RequestChanges

LEMMA InStep ==
  ASSUME Inv, [Next]_vars
  PROVE  InTyped'
<1>1. TypeOK /\ PermTyped /\ QueueTyped /\ InTyped
  BY TypeParts DEF Inv
<1>2. initialized' \in {"no", "attempted", "ready"}
  <2>1. UNCHANGED initialized \/ Initialize \/ InitializeSettles
    BY ZenonT(60) DEF Next, vars, Fail, Close, Dispatch, DispatchFails,
         DispatchNotification, DispatchAnswered, DispatchHandled, ReceiveNotification, ClaimEvents,
         ConsumerNext, PromptDetaches, PromptContinues, PromptAnswered, CloseGivesUp, ReceiveRequest,
         HandlerSettles, HandlerContinues, Prompt, CheckpointGivesUp, PromptResolves, CancelSession,
         CancelNotifies, CloseSession, CloseRequests, CloseAnswered, Flush
  <2> QED BY <1>1, <2>1 DEF InTyped, Initialize, InitializeSettles
<1>3. MaxInbound \in Nat
  BY LimitsAssumption DEF LimitsAssumption
<1>4. CASE UNCHANGED <<open, inVars>>
  BY <1>1, <1>2, <1>4 DEF InTyped, inVars
<1>5. CASE End /\ UNCHANGED received
  <2>1. inbound' = <<>> /\ open' \in BOOLEAN /\ received' = received
    BY <1>5 DEF End
  <2>2. inbound' \in Seq(Messages) /\ Len(inbound') = 0
    BY <2>1, EmptySeq
  <2>3. received \in 0..MaxInbound
    BY <1>1 DEF InTyped
  <2>4. received' \in 0..MaxInbound /\ Len(inbound') <= received'
    BY <1>3, <2>1, <2>2, <2>3
  <2> QED BY <1>2, <2>1, <2>2, <2>4 DEF InTyped
<1>6. ASSUME NEW m \in Messages, received < MaxInbound, received' = received + 1, UNCHANGED open,
             inbound' = Append(inbound, m)
      PROVE  InTyped'
  BY <1>1, AppendProperties, <1>2, <1>3, <1>6 DEF InTyped
<1>7. CASE ReceiveNotification
  BY <1>6, <1>7 DEF Messages, ReceiveNotification, CanReceive
<1>8. ASSUME NEW k \in Requests, NEW s, NEW u \in BOOLEAN, ReceiveRequest(k, s, u) PROVE InTyped'
  BY <1>6, <1>8 DEF Messages, ReceiveRequest, CanReceive
<1>9. ASSUME inbound # <<>>, inbound' = Tail(inbound), UNCHANGED <<open, received>> PROVE InTyped'
  BY <1>1, <1>9, NextMessage, <1>2, <1>3 DEF InTyped
<1>10. CASE \/ DispatchNotification \/ DispatchHandled
            \/ \E outcome \in {"cancelled", "error"} : DispatchAnswered(outcome)
  BY <1>9, <1>10 DEF DispatchNotification, DispatchHandled, DispatchAnswered, MayDispatch
<1>11. ASSUME NEW k \in Requests, HandlerContinues(k) PROVE InTyped'
  BY <1>4, <1>5, <1>11 DEF HandlerContinues, inVars
<1>12. CASE Flush \/ \E k \in Requests : \E result \in {"decision", "error"} : HandlerSettles(k, result)
  BY <1>4, <1>12 DEF Flush, HandlerSettles, inVars
<1> QED BY <1>4, <1>5, <1>7, <1>8, <1>10, <1>11, <1>12, RequestChanges

LEMMA WireChanges ==
  ASSUME [Next]_vars
  PROVE  \/ UNCHANGED writeQueue
         \/ End \/ Flush
         \/ \E s \in Sessions : \E q \in Answerable(s) : SettlePermissions(s, q)
         \/ \E p \in Prompts : \E s \in Sessions : Prompt(p, s)
         \/ \E c \in Cancels : CancelNotifies(c)
         \/ \E x \in Closes : CloseRequests(x)
         \/ \E outcome \in {"cancelled", "error"} : DispatchAnswered(outcome)
         \/ \E k \in Requests : HandlerContinues(k)
  BY ZenonT(60) DEF Next, vars, Initialize, InitializeSettles, Fail, Close, Dispatch, DispatchFails, DispatchNotification,
         DispatchHandled, ReceiveNotification, ReceiveRequest, HandlerSettles, ClaimEvents, ConsumerNext,
         PromptDetaches, CheckpointGivesUp, PromptContinues, PromptResolves, PromptAnswered, CancelSession,
         CloseSession, CloseGivesUp, CloseAnswered

(* The frame that a step appends. *)
LEMMA Appends ==
  ASSUME Inv, [Next]_vars
  PROVE  \/ UNCHANGED writeQueue
         \/ End \/ Flush
         \/ \E s \in Sessions : \E q \in Answerable(s) : SettlePermissions(s, q)
         \/ WriteRoom /\ \E f \in Frames : writeQueue' = Append(writeQueue, f)
<1>1. ASSUME NEW p \in Prompts, NEW s \in Sessions, Prompt(p, s)
      PROVE  WriteRoom /\ \E f \in Frames : writeQueue' = Append(writeQueue, f)
  BY <1>1 DEF Prompt, Frames
<1>2. ASSUME NEW c \in Cancels, CancelNotifies(c)
      PROVE  \/ UNCHANGED writeQueue
             \/ WriteRoom /\ \E f \in Frames : writeQueue' = Append(writeQueue, f)
  BY <1>2 DEF CancelNotifies, Frames
<1>3. ASSUME NEW x \in Closes, CloseRequests(x)
      PROVE  \/ UNCHANGED writeQueue
             \/ WriteRoom /\ \E f \in Frames : writeQueue' = Append(writeQueue, f)
  BY <1>3 DEF CloseRequests, Frames
<1>4. ASSUME NEW outcome, DispatchAnswered(outcome)
      PROVE  WriteRoom /\ \E f \in Frames : writeQueue' = Append(writeQueue, f)
  <2>1. PICK k : /\ k = Head(inbound).request /\ k # NoRequest /\ MayDispatch /\ inbound' = Tail(inbound)
                 /\ writeQueue' = Append(writeQueue, [kind |-> "answer", of |-> k]) /\ WriteRoom
    BY <1>4 DEF DispatchAnswered, Answer
  <2>2. k \in Requests
    BY <2>1, NextMessage DEF Inv, MayDispatch, Messages
  <2> QED BY <2>1, <2>2 DEF Frames
<1>5. ASSUME NEW k \in Requests, HandlerContinues(k)
      PROVE  \/ UNCHANGED writeQueue \/ End
             \/ WriteRoom /\ \E f \in Frames : writeQueue' = Append(writeQueue, f)
  BY <1>5 DEF HandlerContinues, Frames
<1> QED BY <1>1, <1>2, <1>3, <1>4, <1>5, WireChanges

LEMMA QueueStep ==
  ASSUME Inv, [Next]_vars
  PROVE  QueueTyped'
<1>1. TypeOK /\ QueueTyped /\ MaxPendingWrites \in Nat
  BY TypeParts, LimitsAssumption DEF Inv, LimitsAssumption
<1>2. CASE UNCHANGED writeQueue
  BY <1>1, <1>2 DEF QueueTyped
<1>3. CASE End
  BY <1>1, <1>3, EndTyped
<1>4. CASE Flush
  BY <1>4, <1>1, HeadTailProperties DEF Flush, QueueTyped
<1>5. ASSUME NEW s \in Sessions, NEW q \in Answerable(s), SettlePermissions(s, q) PROVE QueueTyped'
  BY <1>1, <1>5, SettleTyped
<1>6. ASSUME WriteRoom, NEW f \in Frames, writeQueue' = Append(writeQueue, f) PROVE QueueTyped'
  BY <1>1, AppendProperties, <1>6 DEF QueueTyped, WriteRoom
<1> QED BY <1>2, <1>3, <1>4, <1>5, <1>6, Appends

LEMMA AgentStep ==
  ASSUME Inv, [Next]_vars
  PROVE  AgentTyped'
<1>1. TypeOK /\ AgentTyped
  BY TypeParts DEF Inv
<1>2. \/ UNCHANGED agentVars \/ Flush
      \/ \E p \in Prompts : \E ok \in BOOLEAN : PromptAnswered(p, ok)
      \/ \E x \in Closes : \E ok \in BOOLEAN : CloseAnswered(x, ok)
  BY ZenonT(60) DEF Next, vars, agentVars, Initialize, InitializeSettles, Fail, Close, Dispatch, DispatchFails,
         DispatchNotification, DispatchAnswered, DispatchHandled, ReceiveNotification, ReceiveRequest,
         HandlerSettles, HandlerContinues, ClaimEvents, ConsumerNext, Prompt, PromptDetaches,
         CheckpointGivesUp, PromptContinues, PromptResolves, CancelSession, CancelNotifies, CloseSession,
         CloseRequests, CloseGivesUp
<1>3. CASE UNCHANGED agentVars
  BY <1>1, <1>3 DEF agentVars, AgentTyped
<1>4. CASE Flush
  <2>1. PICK f \in Frames : Head(writeQueue) = f
    BY <1>1, <1>4, FlushHead
  <2>2. /\ turn' = turn \/ (f.of \in Prompts /\ turn' = [turn EXCEPT ![f.of] = "running"])
        /\ atAgent' = atAgent \/ (f.of \in Closes /\ atAgent' = atAgent \cup {f.of})
    BY <1>4, <2>1 DEF Flush, Frames, agentVars
  <2> QED BY <1>1, <2>2 DEF AgentTyped
<1>5. ASSUME NEW p \in Prompts, NEW ok \in BOOLEAN, PromptAnswered(p, ok) PROVE AgentTyped'
  BY <1>1, <1>5 DEF PromptAnswered, AgentTyped
<1>6. ASSUME NEW x \in Closes, NEW ok \in BOOLEAN, CloseAnswered(x, ok) PROVE AgentTyped'
  BY <1>1, <1>6 DEF CloseAnswered, AgentTyped
<1> QED BY <1>2, <1>3, <1>4, <1>5, <1>6

-------------------------------------------------------------------------------
(* Events and their consumer. *)
Receives(m) == received < MaxInbound /\ received' = received + 1 /\ inbound' = Append(inbound, m)
Takes == MayDispatch /\ inbound' = Tail(inbound) /\ UNCHANGED received
Drops == End /\ UNCHANGED <<received, acknowledged, held>>
         /\ (sequence' = sequence \/ (sequence' = sequence + 1 /\ inbound # <<>>))

LEMMA EventChanges ==
  ASSUME [Next]_vars
  PROVE  \/ UNCHANGED <<eventVars, inVars>>
         \/ UNCHANGED eventVars /\ \E m \in Messages : Receives(m)
         \/ UNCHANGED eventVars /\ Takes /\ ~Head(inbound).event
         \/ Push /\ EventRoom /\ Takes
         \/ Drops
         \/ ClaimEvents \/ ConsumerNext
<1>1. CASE ReceiveNotification
  BY <1>1 DEF Messages, ReceiveNotification, CanReceive, Receives
<1>2. ASSUME NEW k \in Requests, NEW s, NEW u \in BOOLEAN, ReceiveRequest(k, s, u)
      PROVE  UNCHANGED eventVars /\ \E m \in Messages : Receives(m)
  BY <1>2 DEF Messages, ReceiveRequest, CanReceive, Receives
<1>3. CASE Dispatch
  BY <1>3 DEF Dispatch, DispatchFails, DispatchNotification, DispatchAnswered, DispatchHandled, MayDispatch,
              Takes, Drops, inVars
<1>4. CASE Fail \/ Close
  BY <1>4 DEF Fail, Close, Drops
<1>5. ASSUME NEW k \in Requests, HandlerContinues(k)
      PROVE  UNCHANGED <<eventVars, inVars>> \/ Drops
  BY <1>5 DEF HandlerContinues, Drops, eventVars, inVars
<1>6. \/ UNCHANGED <<eventVars, inVars>>
      \/ ReceiveNotification \/ Dispatch \/ Fail \/ Close \/ ClaimEvents \/ ConsumerNext
      \/ \E k \in Requests :
           \/ \E s \in Sessions \cup {NoSession}, u \in BOOLEAN : ReceiveRequest(k, s, u)
           \/ HandlerContinues(k)
  BY ZenonT(60) DEF Next, vars, Initialize, InitializeSettles, HandlerSettles, Prompt, PromptDetaches,
         CheckpointGivesUp, PromptContinues, PromptResolves, PromptAnswered, CancelSession, CancelNotifies,
         CloseSession, CloseRequests, CloseGivesUp, CloseAnswered, Flush
<1> QED BY <1>1, <1>2, <1>3, <1>4, <1>5, <1>6

LEMMA Shift ==
  ASSUME NEW v, NEW n \in Nat, NEW a \in Nat, NEW b \in Nat, v + n = a + b, v \in Nat
  PROVE  v + (n + 1) = (a + 1) + b /\ (n > 0 => v + (n - 1) = a + (b - 1))
  OBVIOUS

LEMMA EventStep ==
  ASSUME Inv, [Next]_vars
  PROVE  EventTyped' /\ EventInv'
<1>1. TypeOK /\ EventTyped /\ InTyped /\ EventInv
  BY TypeParts DEF Inv
<1>2. /\ sequence \in Nat /\ acknowledged \in Nat /\ held \in Nat /\ received \in Nat /\ MaxInbound \in Nat
      /\ Len(inbound) \in Nat /\ Len(values) \in Nat /\ received <= MaxInbound /\ MaxBufferedEvents \in Nat
      /\ values \in Seq(1..MaxInbound) /\ inbound \in Seq(Messages)
  BY <1>1, LenProperties, LimitsAssumption DEF EventTyped, InTyped, LimitsAssumption
<1>n. sequence \in Nat /\ acknowledged \in Nat /\ received \in Nat /\ Len(values) \in Nat
  BY <1>2
<1>3. CASE UNCHANGED <<eventVars, inVars>>
  BY <1>1, <1>3 DEF eventVars, inVars, EventTyped, EventInv
<1>4. ASSUME NEW m \in Messages, UNCHANGED eventVars, Receives(m)
      PROVE  EventTyped' /\ EventInv'
  BY <1>2, AppendProperties, <1>1, <1>4 DEF eventVars, EventTyped, EventInv, Receives
<1>5. CASE UNCHANGED eventVars /\ Takes
  BY <1>1, <1>5, NextMessage, <1>2 DEF Takes, MayDispatch, eventVars, EventTyped, EventInv
<1>6. CASE Push /\ EventRoom /\ Takes
  <2>1. Len(inbound') = Len(inbound) - 1 /\ received' = received /\ Len(inbound') \in Nat
    BY <1>1, <1>2, <1>6, NextMessage DEF Takes, MayDispatch, InTyped
  <2>2. sequence' = sequence + 1 /\ sequence + 1 \in 1..MaxInbound /\ acknowledged' = acknowledged
    BY <1>1, <1>2, <1>6, <2>1 DEF Push, EventInv
  <2>3. CASE consumer = "waiting"
    BY <1>1, <1>6, <2>3, <1>2, <2>1, <2>2 DEF Push, EventInv, EventTyped
  <2>4. CASE consumer # "waiting"
    <3>1. values' = Append(values, sequence + 1) /\ UNCHANGED <<consumer, held>> /\ Len(values) < MaxBufferedEvents
      BY <1>6, <2>4 DEF Push, EventRoom
    <3>2. /\ values' \in Seq(1..MaxInbound) /\ Len(values') = Len(values) + 1
          /\ \A i \in 1..Len(values) : values'[i] = values[i]
          /\ values'[Len(values) + 1] = sequence + 1
      BY <1>2, <2>2, <3>1, AppendProperties
    <3>3. \A i \in 1..Len(values') : values'[i] + Len(values') = sequence' + i
      <4> SUFFICES ASSUME NEW i \in 1..Len(values') PROVE values'[i] + Len(values') = sequence' + i
        OBVIOUS
      <4>1. CASE i = Len(values) + 1
        BY <1>2, <2>2, <3>2, <4>1
      <4>2. CASE i \in 1..Len(values)
        <5>1. values[i] \in Nat /\ values[i] + Len(values) = sequence + i
          BY <1>1, <1>2, <4>2 DEF EventInv
        <5>2. values'[i] = values[i] /\ Len(values') = Len(values) + 1 /\ sequence' = sequence + 1 /\ i \in Nat
          BY <1>2, <2>2, <3>2, <4>2
        <5> QED BY <1>2, <5>1, <5>2, Shift
      <4> QED BY <1>2, <3>2, <4>1, <4>2
    <3> QED BY <1>1, <1>2, <2>1, <2>2, <2>4, <3>1, <3>2, <3>3 DEF EventTyped, EventInv
  <2> QED BY <2>3, <2>4
<1>7. CASE Drops
  <2>1. inbound' = <<>> /\ values' = <<>> /\ UNCHANGED <<received, acknowledged, held>>
        /\ (consumer' = consumer \/ consumer' = "ended") /\ consumer' # "waiting"
    BY <1>7 DEF Drops, End
  <2>2. Len(inbound') = 0 /\ Len(values') = 0 /\ values' \in Seq(1..MaxInbound)
    BY <2>1
  <2>3. sequence' \in Nat /\ sequence' <= received /\ sequence' >= sequence
    BY <1>2, EmptySeq, <1>1, <1>7 DEF Drops, EventInv
  <2>4. EventTyped'
    BY <1>1, <1>2, <2>1, <2>2, <2>3 DEF EventTyped
  <2>5. acknowledged <= sequence /\ (consumer = "yielded" => acknowledged <= held /\ held <= sequence)
    BY <1>1, <1>2 DEF EventInv
  <2>6. acknowledged <= sequence' /\ (consumer' = "yielded" => acknowledged <= held /\ held <= sequence')
    BY <1>2, <2>1, <2>3, <2>5
  <2>7. sequence' + Len(inbound') <= received' /\ acknowledged' + Len(values') <= sequence'
    <3>1. acknowledged <= sequence' /\ sequence' <= received
      BY <2>3, <2>6
    <3>2. PICK n \in Nat : n = sequence'
      BY <2>3
    <3>3. n + 0 = n /\ acknowledged + 0 = acknowledged
      BY <1>n
    <3>4. n <= received /\ acknowledged <= n
      BY <3>1, <3>2
    <3> QED BY <2>1, <2>2, <3>2, <3>3, <3>4
  <2>8. consumer' = "yielded" => acknowledged' <= held' /\ held' + Len(values') <= sequence'
    BY <1>2, <2>1, <2>2, <2>3, <2>6
  <2> QED BY <2>1, <2>2, <2>4, <2>7, <2>8 DEF EventInv
<1>8. CASE ClaimEvents
  BY <1>1, <1>2, <1>8 DEF ClaimEvents, EventTyped, EventInv, inVars
<1>9. CASE ConsumerNext
  <2>1. UNCHANGED <<inVars, sequence>> /\ consumer \in {"idle", "yielded"}
    BY <1>9 DEF ConsumerNext
  <2>2. acknowledged' \in Nat /\ acknowledged' + Len(values) <= sequence
    BY <1>1, <1>2, <1>9 DEF ConsumerNext, EventInv
  <2>3. CASE values = <<>>
    BY <1>9, <2>3, <1>1, <1>2, <2>1, <2>2 DEF ConsumerNext, inVars, EventTyped, EventInv
  <2>4. CASE values # <<>>
    <3>1. consumer' = "yielded" /\ held' = Head(values) /\ values' = Tail(values)
      BY <1>9, <2>4 DEF ConsumerNext
    <3>2. /\ Head(values) = values[1] /\ values[1] \in 1..MaxInbound /\ Len(values) > 0
          /\ values' \in Seq(1..MaxInbound) /\ Len(values') = Len(values) - 1
          /\ \A i \in 1..Len(values') : values'[i] = values[i + 1]
      BY <1>2, <2>4, <3>1, HeadTailProperties, EmptySeq
    <3>3. values[1] + Len(values) = sequence + 1
      BY <1>1, <1>2, <3>2 DEF EventInv
    <3>4. \A i \in 1..Len(values') : values'[i] + Len(values') = sequence' + i
      <4> SUFFICES ASSUME NEW i \in 1..Len(values') PROVE values'[i] + Len(values') = sequence' + i
        OBVIOUS
      <4>1. i + 1 \in 1..Len(values) /\ values'[i] = values[i + 1]
        BY <1>2, <3>2
      <4>2. values[i + 1] \in Nat /\ values[i + 1] + Len(values) = sequence + (i + 1)
        BY <1>1, <1>2, <4>1, SMTT(30) DEF EventInv
      <4>3. values'[i] = values[i + 1] /\ Len(values') = Len(values) - 1 /\ sequence' = sequence /\ i \in Nat
        BY <1>2, <2>1, <3>2, <4>1
      <4>4. values[i + 1] + (Len(values) - 1) = sequence + i
        BY <1>n, <4>2, <4>3
      <4> QED BY <4>3, <4>4
    <3>5. held' \in 0..MaxInbound /\ acknowledged' <= held' /\ held' + Len(values') <= sequence
          /\ acknowledged' + Len(values') <= sequence
      BY <1>2, <2>2, <3>1, <3>2, <3>3
    <3>6. EventTyped'
      BY <1>1, <1>2, <2>1, <2>2, <3>1, <3>2, <3>5 DEF EventTyped
    <3> QED BY <1>1, <2>1, <3>1, <3>4, <3>5, <3>6 DEF inVars, EventInv
  <2> QED BY <2>3, <2>4
<1> QED BY <1>3, <1>4, <1>5, <1>6, <1>7, <1>8, <1>9, EventChanges

LEMMA TypeIsKept == ASSUME Inv, [Next]_vars PROVE TypeOK'
  BY SessStep, CallStep, PermStep, InStep, QueueStep, EventStep, AgentStep, TypePartsNext

-------------------------------------------------------------------------------
(* The requests of the Agent. *)
LEMMA FlushAnswer ==
  ASSUME TypeOK, WireInv, Flush
  PROVE  \/ UNCHANGED requests
         \/ \E k \in Requests : /\ requests[k].state = "answering"
                                /\ writeQueue[1] = [kind |-> "answer", of |-> k]
                                /\ requests' = [requests EXCEPT ![k].state = "answered"]
<1>1. PICK f \in Frames : Head(writeQueue) = f /\ writeQueue[1] = f /\ 1 \in Positions
  BY FlushHead
<1>2. CASE f.kind = "answer"
  <2>1. PICK k \in Requests : f = [kind |-> "answer", of |-> k]
    BY <1>2 DEF Frames
  <2>2. requests[k].state = "answering"
    BY <1>1, <2>1 DEF WireInv, FrameTrue
  <2>3. Head(writeQueue).kind = "answer" /\ Head(writeQueue).of = k
    BY <1>1, <2>1
  <2>4. requests' = [requests EXCEPT ![k].state = "answered"]
    BY <2>3 DEF Flush
  <2> QED BY <1>1, <2>1, <2>2, <2>4
<1> QED BY <1>1, <1>2 DEF Flush, Frames

(* The request of the message that is dispatched. *)
LEMMA Dispatched1 ==
  ASSUME Inv, MayDispatch, inbound' = Tail(inbound), Head(inbound).request # NoRequest
  PROVE  \E k \in Requests : /\ k = Head(inbound).request /\ requests[k].state = "received"
                             /\ requests[k].handler = "none" /\ requests[k].answers = <<>>
                             /\ k \notin pendingPermissions
<1>1. PICK m \in Messages : Head(inbound) = m /\ inbound[1] = m /\ 1 \in 1..Len(inbound)
  BY NextMessage DEF Inv, MayDispatch
<1>2. m.request \in Requests /\ requests[m.request].state = "received"
  BY <1>1 DEF Messages, Inv, InboundInv
<1> QED BY <1>1, <1>2 DEF Inv, RequestInv, RequestTrue

LEMMA RequestStep ==
  ASSUME Inv, [Next]_vars
  PROVE  RequestInv'
<1>1. TypeOK /\ PermTyped /\ WireInv /\ RequestInv
  BY TypeParts DEF Inv
<1> SUFFICES ASSUME NEW j \in Requests PROVE RequestTrue(j)'
  BY DEF RequestInv
<1>2. RequestTrue(j) /\ requests[j] \in RequestRecord /\ requests \in [Requests -> RequestRecord]
  BY <1>1 DEF RequestInv, PermTyped
<1>3. CASE UNCHANGED <<open, permVars>>
  BY <1>2, <1>3 DEF permVars, RequestTrue
<1>4. CASE End
  BY <1>2, <1>4 DEF End, RequestTrue, RequestRecord
<1>5. ASSUME NEW s \in Sessions, NEW q \in Answerable(s), SettlePermissions(s, q), UNCHANGED open
      PROVE  RequestTrue(j)'
  <2>1. CASE j \in Mine(s)
    <3>1. requests[j].state = "open" /\ requests[j].session = s /\ requests[j].answers = <<>>
      BY <1>2, <2>1 DEF Mine, RequestTrue
    <3>2. PICK st \in {"answering", "refused"} :
            requests'[j] = [requests[j] EXCEPT !.state = st, !.answers = Append(@, "cancelled")]
      BY <1>5, <2>1 DEF SettlePermissions
    <3>3. /\ requests'[j].state = st /\ requests'[j].session = s
          /\ requests'[j].answers = Append(<<>>, "cancelled") /\ j \notin pendingPermissions'
      BY <1>2, <1>5, <2>1, <3>1, <3>2 DEF SettlePermissions, RequestRecord
    <3>4. Len(Append(<<>>, "cancelled")) = 1
      OBVIOUS
    <3> QED BY <3>3, <3>4, NullAssumption DEF RequestTrue, NullAssumption
  <2>2. CASE j \notin Mine(s)
    BY <1>5, <2>2, <1>2 DEF SettlePermissions, RequestTrue
  <2> QED BY <2>1, <2>2
<1>6. CASE Flush
  <2>1. UNCHANGED <<open, pendingPermissions>>
    BY <1>6 DEF Flush
  <2>2. CASE UNCHANGED requests
    BY <1>2, <2>1, <2>2 DEF RequestTrue
  <2>3. ASSUME NEW k \in Requests, requests[k].state = "answering",
               requests' = [requests EXCEPT ![k].state = "answered"]
        PROVE  RequestTrue(j)'
    BY <1>2, <2>1, <2>3 DEF RequestTrue, RequestRecord
  <2> QED BY <1>1, <1>6, <2>2, <2>3, FlushAnswer
<1>7. ASSUME NEW k \in Requests, NEW s \in Sessions \cup {NoSession}, NEW u \in BOOLEAN, ReceiveRequest(k, s, u)
      PROVE  RequestTrue(j)'
  BY <1>7, <1>2 DEF ReceiveRequest, RequestTrue, RequestRecord
<1>8. CASE DispatchHandled
  <2>1. PICK k \in Requests : /\ k = Head(inbound).request /\ requests[k].state = "received"
                              /\ requests[k].handler = "none" /\ requests[k].answers = <<>>
                              /\ k \notin pendingPermissions
    BY <1>8, Dispatched1 DEF DispatchHandled
  <2>2. requests' = [requests EXCEPT ![k].state = "open", ![k].handler = "running"]
        /\ (j \in pendingPermissions' =>
              j \in pendingPermissions \/ (j = k /\ requests[k].session \in Sessions))
        /\ UNCHANGED open
    BY <1>8, <2>1 DEF DispatchHandled
  <2> QED BY <1>2, <2>1, <2>2 DEF RequestTrue, RequestRecord
<1>9. ASSUME NEW outcome \in {"cancelled", "error"}, DispatchAnswered(outcome) PROVE RequestTrue(j)'
  <2>1. PICK k \in Requests : /\ k = Head(inbound).request /\ requests[k].state = "received"
                              /\ requests[k].handler = "none" /\ requests[k].answers = <<>>
                              /\ k \notin pendingPermissions
    BY <1>9, Dispatched1 DEF DispatchAnswered
  <2>2. requests' = [requests EXCEPT ![k].state = "answering", ![k].answers = Append(@, outcome)]
        /\ UNCHANGED <<open, pendingPermissions>>
    BY <1>9, <2>1 DEF DispatchAnswered, Answer
  <2>3. Len(Append(<<>>, outcome)) = 1
    OBVIOUS
  <2> QED BY <1>2, <2>1, <2>2, <2>3 DEF RequestTrue, RequestRecord
<1>10. ASSUME NEW k \in Requests, NEW result \in {"decision", "error"}, HandlerSettles(k, result)
       PROVE  RequestTrue(j)'
  BY <1>10, <1>2 DEF HandlerSettles, RequestTrue, RequestRecord
<1>11. ASSUME NEW k \in Requests, HandlerContinues(k), ~End PROVE RequestTrue(j)'
  <2>1. requests[k].handler \in {"decision", "error"} /\ UNCHANGED open /\ RequestTrue(k)
    BY <1>1, <1>11 DEF HandlerContinues, RequestInv
  <2>2. CASE Owed(k)
    BY <1>11, <2>2, <2>1, <1>2 DEF HandlerContinues, Owed, RequestTrue, RequestRecord
  <2>3. CASE ~Owed(k)
    <3>1. requests' = [requests EXCEPT ![k].handler = "done"] /\ UNCHANGED pendingPermissions
      BY <1>11, <2>3 DEF HandlerContinues
    <3> QED BY <1>2, <2>1, <3>1 DEF RequestTrue, RequestRecord
  <2> QED BY <2>2, <2>3
<1>12. CASE ReceiveNotification \/ DispatchNotification
  BY <1>3, <1>12 DEF ReceiveNotification, DispatchNotification, permVars
<1> QED BY <1>3, <1>4, <1>5, <1>6, <1>7, <1>8, <1>9, <1>10, <1>11, <1>12, RequestChanges

Incoming == {j \in Requests : requests[j].state = "received"}

LEMMA InboundStep ==
  ASSUME Inv, [Next]_vars
  PROVE  InboundInv'
<1>1. TypeOK /\ PermTyped /\ WireInv /\ RequestInv /\ InboundInv /\ InTyped /\ QueueTyped
  BY TypeParts DEF Inv
<1>2. /\ inbound \in Seq(Messages) /\ Len(inbound) \in Nat /\ requests \in [Requests -> RequestRecord]
      /\ \A i \in 1..Len(inbound) : inbound[i] \in Messages
  BY <1>1 DEF InTyped, PermTyped
<1>3. ASSUME UNCHANGED inbound, Incoming \subseteq Incoming' PROVE InboundInv'
  BY <1>1, <1>2, <1>3 DEF InboundInv, Incoming, Messages
<1>4. CASE End
  BY <1>4 DEF End, InboundInv
<1>5. ASSUME NEW s \in Sessions, NEW q \in Answerable(s), SettlePermissions(s, q), UNCHANGED inbound
      PROVE  InboundInv'
  BY <1>1, <1>5, <1>3 DEF RequestInv, RequestTrue, Mine, PermTyped, Incoming, SettlePermissions
<1>6. CASE Flush
  BY <1>1, <1>2, <1>6, FlushAnswer, <1>3 DEF Incoming, Flush, inVars
<1>7. ASSUME NEW m \in Messages, inbound' = Append(inbound, m),
             \/ m.request = NoRequest /\ UNCHANGED requests
             \/ /\ m.request \in Requests /\ requests[m.request].state = "none"
                /\ \E s : requests' = [requests EXCEPT ![m.request].state = "received",
                                                       ![m.request].session = s]
      PROVE  InboundInv'
  <2>1. /\ Len(inbound') = Len(inbound) + 1 /\ inbound'[Len(inbound) + 1] = m
        /\ \A i \in 1..Len(inbound) : inbound'[i] = inbound[i]
    BY <1>2, <1>7, AppendProperties
  <2>2. \A i \in 1..Len(inbound') : i \in 1..Len(inbound) \/ i = Len(inbound) + 1
    BY <1>2, <2>1
  <2>3. m.request # NoRequest => requests'[m.request].state = "received"
    <3> SUFFICES ASSUME m.request # NoRequest PROVE requests'[m.request].state = "received"
      OBVIOUS
    <3>1. PICK k \in Requests : k = m.request
      BY <1>7
    <3>2. PICK s : requests' = [requests EXCEPT ![k].state = "received", ![k].session = s]
      BY <1>7, <3>1
    <3> QED BY <1>2, <3>1, <3>2 DEF RequestRecord
  <2>4. \A i \in 1..Len(inbound) : inbound[i].request # NoRequest =>
          /\ inbound[i].request \in Requests /\ requests[inbound[i].request].state = "received"
          /\ requests'[inbound[i].request].state = "received"
    BY <1>1, <1>2, <1>7, ZenonT(60) DEF InboundInv, Messages, RequestRecord
  <2>5. \A i \in 1..Len(inbound) : inbound[i].request # NoRequest => inbound[i].request # m.request
    BY <1>7, <2>4
  <2> QED BY <1>1, <2>1, <2>2, <2>3, <2>4, <2>5 DEF InboundInv
<1>8. CASE ReceiveNotification
  BY <1>7, <1>8 DEF Messages, ReceiveNotification, permVars
<1>9. ASSUME NEW k \in Requests, NEW s \in Sessions \cup {NoSession}, NEW u \in BOOLEAN, ReceiveRequest(k, s, u)
      PROVE  InboundInv'
  BY <1>7, <1>9 DEF Messages, ReceiveRequest
<1>10. ASSUME Takes, Incoming \subseteq Incoming' \cup {Head(inbound).request} PROVE InboundInv'
  <2>1. PICK m \in Messages :
          /\ Head(inbound) = m /\ inbound[1] = m /\ 1 \in 1..Len(inbound)
          /\ \A i \in 1..Len(inbound') : inbound'[i] = inbound[i + 1] /\ i + 1 \in 1..Len(inbound)
          /\ Len(inbound') = Len(inbound) - 1
    BY <1>1, <1>10, NextMessage DEF Takes, MayDispatch
  <2>2. \A i \in 1..Len(inbound') : inbound'[i].request # NoRequest =>
          /\ inbound'[i].request \in Incoming /\ inbound'[i].request # m.request
    <3> SUFFICES ASSUME NEW i \in 1..Len(inbound'), inbound'[i].request # NoRequest
                 PROVE  inbound'[i].request \in Incoming /\ inbound'[i].request # m.request
      OBVIOUS
    <3>1. PICK n \in 1..Len(inbound) : n = i + 1 /\ inbound'[i] = inbound[n] /\ n # 1
      BY <1>2, <2>1
    <3>2. inbound[n].request \in Incoming
      BY <1>1, <1>2, <3>1 DEF InboundInv, Incoming, Messages
    <3>3. inbound[n].request # inbound[1].request
      BY <1>1, <2>1, <3>1 DEF InboundInv
    <3> QED BY <2>1, <3>1, <3>2, <3>3
  <2>3. \A i \in 1..Len(inbound') : inbound'[i].request # NoRequest =>
          requests'[inbound'[i].request].state = "received"
    BY <1>10, <2>1, <2>2 DEF Incoming
  <2>4. ASSUME NEW i \in 1..Len(inbound'), NEW j \in 1..Len(inbound'),
               inbound'[i].request = inbound'[j].request, inbound'[i].request # NoRequest
        PROVE  i = j
    BY <1>1, <2>1, <2>4, <1>2 DEF InboundInv
  <2> QED BY <2>3, <2>4 DEF InboundInv
<1>11. CASE DispatchNotification
  BY <1>10, <1>11 DEF DispatchNotification, Takes, Incoming, permVars
<1>12. CASE DispatchHandled
  BY <1>12, <1>2, <1>10 DEF DispatchHandled, Takes, Incoming
<1>13. ASSUME NEW outcome \in {"cancelled", "error"}, DispatchAnswered(outcome) PROVE InboundInv'
  BY <1>13, <1>2, <1>10 DEF DispatchAnswered, Answer, Takes, Incoming
<1>14. ASSUME NEW k \in Requests, NEW result \in {"decision", "error"}, HandlerSettles(k, result)
       PROVE  InboundInv'
  BY <1>2, <1>14, <1>3 DEF HandlerSettles, Incoming, RequestRecord, inVars
<1>15. ASSUME NEW k \in Requests, HandlerContinues(k), ~End PROVE InboundInv'
  BY <1>1, <1>15, <1>2, <1>3 DEF RequestInv, HandlerContinues, RequestTrue, Incoming, RequestRecord
<1>16. CASE UNCHANGED <<permVars, inVars>>
  BY <1>3, <1>16 DEF permVars, inVars, Incoming
<1> QED BY <1>4, <1>5, <1>6, <1>8, <1>9, <1>11, <1>12, <1>13, <1>14, <1>15, <1>16, RequestChanges DEF inVars

-------------------------------------------------------------------------------
(* After the end of the connection only handlers, the consumer and a prompt that has its events go on. *)
LEMMA ClosedSteps ==
  ASSUME Inv, ~open, [Next]_vars
  PROVE  /\ UNCHANGED <<open, writeQueue, inVars, pendingPermissions, cancels, closes, agentVars, values, sequence>>
         /\ \/ UNCHANGED prompts \/ ConsumerNext
            \/ \E p \in Prompts : PromptResolves(p)
<1>1. /\ writeQueue = <<>> /\ inbound = <<>> /\ values = <<>> /\ pendingPermissions = {}
      /\ \A p \in Prompts : prompts[p].state \notin Waiting
      /\ \A c \in Cancels : cancels[c].state \notin {"settling", "notifying"}
      /\ \A x \in Closes : closes[x].state \notin {"settling", "requested"}
  BY DEF Inv, ClosedInv, Cancelling
<1>2. \/ UNCHANGED vars \/ ClaimEvents \/ ConsumerNext
      \/ \E p \in Prompts : PromptResolves(p)
      \/ \E k \in Requests : (\E result \in {"decision", "error"} : HandlerSettles(k, result)) \/ HandlerContinues(k)
  BY <1>1, ZenonT(60) DEF Next, vars, Initialize, InitializeSettles, Fail, Close, Dispatch, DispatchFails,
         DispatchNotification, DispatchAnswered, DispatchHandled, MayDispatch, ReceiveNotification,
         ReceiveRequest, CanReceive, Prompt, RequireReady, PromptDetaches, CheckpointGivesUp, PromptContinues,
         Released, PromptAnswered, CancelSession, CancelNotifies, CloseSession, CloseRequests, CloseGivesUp,
         CloseAnswered, Flush, Waiting
<1>3. CASE UNCHANGED vars
  BY <1>3 DEF vars, callVars, permVars, eventVars
<1>4. ASSUME NEW k \in Requests, HandlerContinues(k)
      PROVE  UNCHANGED <<open, callVars, writeQueue, inVars, pendingPermissions, agentVars, values, sequence>>
  BY <1>1, <1>4 DEF HandlerContinues, Owed, inVars
<1>5. CASE ConsumerNext
  BY <1>1, <1>5 DEF ConsumerNext, permVars
<1> QED BY <1>2, <1>3, <1>4, <1>5 DEF ClaimEvents, HandlerSettles, PromptResolves, permVars, eventVars, callVars

LEMMA ClosedStep ==
  ASSUME Inv, [Next]_vars
  PROVE  ClosedInv'
<1>1. CASE End
  BY <1>1 DEF Inv, End, TypeOK, PromptRecord, Waiting, CancelRecord, CloseRecord, ClosedInv, Cancelling
<1>2. CASE ~open
  BY <1>2, ClosedSteps DEF Inv, TypeOK, ClosedInv, ConsumerNext, Waiting, PromptResolves, PromptRecord, Cancelling, inVars
<1>3. CASE open /\ ~End
  <2>1. UNCHANGED open
    BY <1>3, ZenonT(60) DEF Next, vars, Initialize, InitializeSettles, Fail, Close, Dispatch, DispatchFails,
         DispatchNotification, DispatchAnswered, DispatchHandled, ReceiveNotification, ClaimEvents,
         ConsumerNext, PromptDetaches, PromptContinues, PromptAnswered, CloseGivesUp, ReceiveRequest,
         HandlerSettles, HandlerContinues, Prompt, CheckpointGivesUp, PromptResolves, CancelSession,
         CancelNotifies, CloseSession, CloseRequests, CloseAnswered, Flush
  <2> QED BY <1>3, <2>1 DEF ClosedInv
<1> QED BY <1>1, <1>2, <1>3

-------------------------------------------------------------------------------
(* The events that a prompt waits for. *)
LEMMA PromptChanges ==
  ASSUME [Next]_vars
  PROVE  \/ UNCHANGED prompts
         \/ Drops \/ ConsumerNext
         \/ UNCHANGED <<eventVars, inVars>> /\ \E p \in Prompts :
              \/ \E s \in Sessions : Prompt(p, s)
              \/ PromptDetaches(p) \/ CheckpointGivesUp(p)
              \/ PromptContinues(p) \/ PromptResolves(p)
              \/ \E ok \in BOOLEAN : PromptAnswered(p, ok)
<1>1. Fail \/ Close \/ DispatchFails => Drops
  BY DEF Fail, Close, DispatchFails, MayDispatch, Drops
<1>2. ASSUME NEW k \in Requests, HandlerContinues(k)
      PROVE  UNCHANGED prompts \/ Drops
  BY <1>2 DEF HandlerContinues, Drops, callVars
<1> QED BY <1>1, <1>2, ZenonT(60) DEF Next, vars, callVars, Dispatch, Initialize, InitializeSettles,
           DispatchNotification, DispatchAnswered, DispatchHandled, ReceiveNotification, ClaimEvents,
           ReceiveRequest, HandlerSettles, Flush, CancelSession, CancelNotifies, CloseSession, CloseRequests,
           CloseGivesUp, CloseAnswered, Prompt, PromptDetaches, CheckpointGivesUp, PromptContinues,
           PromptResolves, PromptAnswered

LEMMA BeforeFinite ==
  ASSUME TypeOK, EventInv, NEW p \in Prompts
  PROVE  IsFiniteSet(Before(p)) /\ Cardinality(Before(p)) \in Nat
<1>1. Before(p) \subseteq {i \in 1..Len(inbound) : inbound[i].event}
  BY DEF Before
<1> QED BY <1>1, EventsBounded, FS_Subset, FS_CardinalityType

(* One message less to dispatch is one event less to wait for, if it is one. *)
LEMMA BeforeTakes ==
  ASSUME Inv, InTyped', EventInv', TypeOK', Takes, NEW p \in Prompts, UNCHANGED prompts
  PROVE  Cardinality(Before(p)) <= Cardinality(Before(p)') + (IF Head(inbound).event THEN 1 ELSE 0)
<1>1. TypeOK /\ EventInv /\ InTyped
  BY TypeParts DEF Inv
<1>2. PICK B : B = Before(p)
  OBVIOUS
<1>3. PICK C : C = Before(p)'
  OBVIOUS
<1>4. IsFiniteSet(B) /\ IsFiniteSet(C) /\ Cardinality(B) \in Nat /\ Cardinality(C) \in Nat
  <2>1. IsFiniteSet(Before(p)') /\ Cardinality(Before(p)') \in Nat
    <3>1. Before(p)' \subseteq {i \in 1..Len(inbound') : inbound'[i].event}
      BY DEF Before
    <3>2. inbound' \in Seq(Messages) /\ Len(inbound') \in Nat
      BY LenProperties DEF InTyped
    <3>3. IsFiniteSet(1..Len(inbound'))
      <4>1. PICK n \in Nat : n = Len(inbound')
        BY <3>2
      <4> QED BY <4>1, FS_Interval
    <3>4. Before(p)' \subseteq 1..Len(inbound')
      BY <3>1
    <3> QED BY <3>3, <3>4, FS_Subset, FS_CardinalityType
  <2> QED BY <1>1, <1>2, <1>3, <2>1, BeforeFinite
<1>5. /\ inbound[1] = Head(inbound) /\ Len(inbound) \in Nat \ {0} /\ Len(inbound') = Len(inbound) - 1
      /\ \A i \in 1..Len(inbound') : inbound'[i] = inbound[i + 1]
      /\ received \in Nat /\ received' = received /\ Len(inbound) <= received
  BY <1>1, LenProperties, NextMessage DEF InTyped, Takes, MayDispatch
<1>6. Dispatched \in Nat /\ Dispatched' = Dispatched + 1 /\ prompts'[p].target = prompts[p].target
      /\ prompts[p].target \in Nat
  BY <1>1, <1>5 DEF TypeOK, Dispatched, PromptRecord
<1>7. \A i \in Nat : i + 1 \in B /\ i # 0 <=> i \in C
  <2> SUFFICES ASSUME NEW i \in Nat PROVE i + 1 \in B /\ i # 0 <=> i \in C
    OBVIOUS
  <2>1. i + 1 \in B <=> /\ i + 1 \in 1..Len(inbound) /\ inbound[i + 1].event
                        /\ Dispatched + (i + 1) <= prompts[p].target
    BY <1>2 DEF Before
  <2>2. i \in C <=> /\ i \in 1..Len(inbound') /\ inbound'[i].event
                    /\ Dispatched' + i <= prompts'[p].target
    BY <1>3 DEF Before
  <2>3. i + 1 \in 1..Len(inbound) /\ i # 0 <=> i \in 1..Len(inbound')
    BY <1>5
  <2>4. Dispatched' + i = Dispatched + (i + 1)
    BY <1>6
  <2>5. i \in 1..Len(inbound') => inbound'[i] = inbound[i + 1]
    BY <1>5
  <2> QED BY <1>6, <2>1, <2>2, <2>3, <2>4, <2>5
<1>8. B \subseteq Nat \ {0} /\ C \subseteq Nat \ {0}
  BY <1>2, <1>3 DEF Before
<1>9. PICK D : D = B \ {1}
  OBVIOUS
<1>10. ExistsBijection(C, D)
  <2>1. PICK f : f = [i \in C |-> i + 1]
    OBVIOUS
  <2>2. \A i \in C : i + 1 \in D
    BY <1>7, <1>8, <1>9
  <2>3. f \in [C -> D] /\ \A a, b \in C : f[a] = f[b] => a = b
    BY <1>8, <2>1, <2>2
  <2>4. \A d \in D : \E i \in C : f[i] = d
    <3> SUFFICES ASSUME NEW d \in D PROVE \E i \in C : f[i] = d
      OBVIOUS
    <3>1. d \in Nat /\ d # 0 /\ d # 1 /\ d \in B
      BY <1>8, <1>9
    <3>2. d - 1 \in Nat /\ d - 1 # 0 /\ (d - 1) + 1 = d
      BY <3>1
    <3>3. d - 1 \in C
      BY <1>7, <3>1, <3>2
    <3> QED BY <2>1, <3>2, <3>3
  <2> QED BY <2>3, <2>4 DEF ExistsBijection, Bijection, Injection, Surjection, IsInjective
<1>11. Cardinality(C) = Cardinality(D)
  BY <1>4, <1>10, FS_Bijection
<1>12. Cardinality(D) = IF 1 \in B THEN Cardinality(B) - 1 ELSE Cardinality(B)
  BY <1>4, <1>9, FS_RemoveElement
<1>13. 1 \in B => Head(inbound).event
  BY <1>2, <1>5 DEF Before
<1> QED BY <1>2, <1>3, <1>4, <1>11, <1>12, <1>13

(* A prompt whose barrier is released has all its events with the consumer or before it. *)
LEMMA ReleasedIsDue ==
  ASSUME Inv, NEW p \in Prompts, p \in Released
  PROVE  prompts[p].due <= sequence
<1>1. Before(p) = {}
  BY LenProperties DEF Inv, TypeOK, Messages, Released, Dispatched, PromptRecord, Before
<1>2. sequence \in Nat /\ prompts[p].due <= sequence + Cardinality({})
  <2>1. sequence \in Nat
    BY DEF Inv, TypeOK
  <2>2. prompts[p].due <= sequence + Cardinality(Before(p))
    BY DEF Inv, DueInv, DueTrue, Released
  <2> QED BY <1>1, <2>1, <2>2
<1> QED BY <1>2, FS_EmptySet

LEMMA DueStep ==
  ASSUME Inv, [Next]_vars
  PROVE  DueInv'
<1>1. TypeOK /\ EventInv /\ EventTyped /\ InTyped /\ DueInv /\ TypeOK' /\ EventInv' /\ InTyped' /\ EventTyped'
  BY TypeParts, TypePartsNext, TypeIsKept, EventStep DEF Inv
<1> SUFFICES ASSUME NEW j \in Prompts PROVE DueTrue(j)'
  BY DEF DueInv
<1>2. /\ DueTrue(j) /\ prompts[j] \in PromptRecord /\ prompts \in [Prompts -> PromptRecord]
      /\ sequence \in Nat /\ acknowledged \in Nat /\ held \in Nat /\ received \in Nat
      /\ IsFiniteSet(Before(j)) /\ Cardinality(Before(j)) \in Nat
  BY <1>1, BeforeFinite DEF DueInv, TypeOK
<1>3. prompts[j].due \in Nat /\ prompts[j].target \in Nat
  BY <1>2 DEF PromptRecord
<1>4. CASE UNCHANGED <<prompts, eventVars, inVars>>
  BY <1>2, <1>4 DEF DueTrue, Before, Dispatched, eventVars, inVars
<1>5. ASSUME NEW m \in Messages, UNCHANGED <<prompts, eventVars>>, Receives(m) PROVE DueTrue(j)'
  <2>1. /\ Len(inbound) \in Nat /\ Len(inbound') = Len(inbound) + 1 /\ received' = received + 1
        /\ \A i \in 1..Len(inbound) : inbound'[i] = inbound[i]
    BY <1>1, <1>5, AppendProperties, LenProperties DEF InTyped, Receives
  <2>2. CASE prompts[j].state = "responded"
    <3>1. prompts[j].target <= received
      BY <1>2, <2>2 DEF DueTrue
    <3>2. Before(j)' = Before(j)
      <4>1. Dispatched' = Dispatched /\ Dispatched + (Len(inbound) + 1) > prompts[j].target
        BY <1>2, <1>3, <2>1, <3>1 DEF Dispatched
      <4>2. Dispatched \in Nat
        BY <1>1, <1>2, <2>1 DEF Dispatched, InTyped
      <4>3. \A i \in 1..Len(inbound') : i \in 1..Len(inbound) \/ i = Len(inbound) + 1
        BY <2>1
      <4>4. \A i \in 1..Len(inbound) : i \in 1..Len(inbound')
        BY <2>1
      <4>5. \A i \in 1..Len(inbound') : Dispatched + i <= prompts[j].target => i # Len(inbound) + 1
        BY <1>3, <2>1, <4>1, <4>2
      <4> QED BY <1>5, <2>1, <4>1, <4>3, <4>4, <4>5 DEF Before
    <3> QED BY <1>2, <1>3, <1>5, <2>1, <2>2, <3>1, <3>2 DEF DueTrue, eventVars
  <2> QED BY <1>2, <1>5, <2>2 DEF DueTrue, eventVars
<1>6. ASSUME UNCHANGED prompts, Takes, UNCHANGED acknowledged,
             sequence' = sequence + 1 \/ (sequence' = sequence /\ ~Head(inbound).event)
      PROVE  DueTrue(j)'
  <2>1. Cardinality(Before(j)) <= Cardinality(Before(j)') + (IF Head(inbound).event THEN 1 ELSE 0)
    BY <1>1, <1>6, BeforeTakes
  <2>2. Cardinality(Before(j)') \in Nat
    <3>1. Before(j)' \subseteq 1..Len(inbound')
      BY DEF Before
    <3>2. inbound' \in Seq(Messages)
      BY <1>1 DEF InTyped
    <3>3. PICK n \in Nat : n = Len(inbound')
      BY <3>2, LenProperties
    <3>4. IsFiniteSet(1..n)
      BY FS_Interval
    <3> QED BY <3>1, <3>3, <3>4, FS_Subset, FS_CardinalityType
  <2>3. PICK a, b \in Nat : a = Cardinality(Before(j)) /\ b = Cardinality(Before(j)')
    BY <1>2, <2>2
  <2>4. prompts[j].due <= sequence + a => prompts[j].due <= sequence' + b
    BY <1>2, <1>3, <2>1, <2>3, <1>6
  <2> QED BY <1>2, <1>6, <2>3, <2>4 DEF DueTrue, Takes
<1>7. CASE Drops
  BY <1>2, <1>7 DEF Drops, End, Waiting, PromptRecord, DueTrue
<1>8. CASE ConsumerNext
  <2>1. UNCHANGED <<inVars, sequence>>
    BY <1>8 DEF ConsumerNext
  <2>2. PICK a \in Nat : a = acknowledged' /\ acknowledged <= a
    BY <1>1, <1>2, <1>8 DEF ConsumerNext, EventInv
  <2>3. CASE prompts[j].state = "checkpoint" /\ prompts[j].target <= a
    BY <1>8, <2>2, <2>3, <1>2, <1>3 DEF ConsumerNext, PromptRecord, DueTrue
  <2>4. CASE ~(prompts[j].state = "checkpoint" /\ prompts[j].target <= a)
    BY <1>8, <2>2, <2>4, <2>1, <1>2, <1>3 DEF ConsumerNext, Before, Dispatched, inVars, DueTrue
  <2> QED BY <2>3, <2>4
<1>9. ASSUME UNCHANGED <<eventVars, inVars>>, NEW p \in Prompts, NEW new \in PromptRecord,
             prompts' = [prompts EXCEPT ![p] = new],
             j # p \/ new.state \notin {"responded", "checkpoint", "acknowledged"}
      PROVE  DueTrue(j)'
  BY <1>2, <1>9 DEF DueTrue, Before, Dispatched, eventVars, inVars
<1>10. ASSUME UNCHANGED <<eventVars, inVars>>, NEW p \in Prompts,
              PromptDetaches(p) \/ CheckpointGivesUp(p) \/ PromptResolves(p)
       PROVE  DueTrue(j)'
  <2>1. PICK st \in {"detached", "rejected", "resolved"} : prompts' = [prompts EXCEPT ![p].state = st]
    BY <1>10 DEF PromptDetaches, CheckpointGivesUp, PromptResolves
  <2>2. PICK new : new = [prompts[p] EXCEPT !.state = st]
    OBVIOUS
  <2>3. new \in PromptRecord /\ new.state = st /\ prompts' = [prompts EXCEPT ![p] = new]
    BY <1>2, <2>1, <2>2 DEF PromptRecord
  <2> QED BY <1>9, <1>10, <2>3
<1>11. ASSUME UNCHANGED <<eventVars, inVars>>, NEW p \in Prompts, NEW s \in Sessions, Prompt(p, s)
       PROVE  DueTrue(j)'
  <2>1. PICK new : new = [prompts[p] EXCEPT !.state = "requested", !.session = s]
    OBVIOUS
  <2>2. new \in PromptRecord /\ new.state = "requested" /\ prompts' = [prompts EXCEPT ![p] = new]
    BY <1>2, <1>11, <2>1 DEF PromptRecord, Prompt, Waiting
  <2> QED BY <1>9, <1>11, <2>2
<1>12. ASSUME UNCHANGED <<eventVars, inVars>>, NEW p \in Prompts, PromptContinues(p)
       PROVE  DueTrue(j)'
  <2>1. PICK st \in {"resolved", "rejected", "checkpoint"} :
          \/ prompts' = [prompts EXCEPT ![p].state = st] /\ st # "checkpoint"
          \/ prompts' = [prompts EXCEPT ![p].state = "checkpoint", ![p].target = sequence]
    BY <1>12 DEF PromptContinues
  <2>2. CASE prompts' = [prompts EXCEPT ![p].state = st] /\ st # "checkpoint"
    <3>1. PICK new : new = [prompts[p] EXCEPT !.state = st]
      OBVIOUS
    <3>2. new \in PromptRecord /\ new.state = st /\ prompts' = [prompts EXCEPT ![p] = new]
      BY <1>2, <2>1, <2>2, <3>1 DEF PromptRecord
    <3> QED BY <1>9, <1>12, <2>2, <3>2
  <2>3. CASE prompts' = [prompts EXCEPT ![p].state = "checkpoint", ![p].target = sequence]
    BY <1>2, <2>3, <1>12, ReleasedIsDue DEF DueTrue, Before, Dispatched, eventVars, inVars, PromptRecord, PromptContinues
  <2> QED BY <2>1, <2>2, <2>3
<1>13. ASSUME UNCHANGED <<eventVars, inVars>>, NEW p \in Prompts, NEW ok \in BOOLEAN, PromptAnswered(p, ok)
       PROVE  DueTrue(j)'
  <2>1. CASE prompts'[j] = prompts[j]
    BY <1>2, <1>13, <2>1 DEF DueTrue, Before, Dispatched, eventVars, inVars
  <2>2. CASE prompts'[j] # prompts[j]
    <3>1. prompts' = [prompts EXCEPT ![p].state = "responded", ![p].ok = ok,
                                     ![p].target = received, ![p].due = EventsReceived]
      BY <1>13, <2>2 DEF PromptAnswered
    <3>2. j = p /\ prompts'[j].state = "responded" /\ prompts'[j].target = received
          /\ prompts'[j].due = EventsReceived
      BY <1>2, <2>2, <3>1 DEF PromptRecord
    <3>3. Before(j)' = {i \in DOMAIN inbound : inbound[i].event}
      BY <1>1, LenProperties, <1>2, <1>13, <3>2 DEF InTyped, Dispatched, Before, inVars
    <3>4. EventsReceived \in Nat /\ EventsReceived = sequence + Cardinality(Before(j)')
      BY <1>1, <3>3, EventsBounded DEF EventsReceived
    <3>5. received' = received /\ sequence' = sequence
      BY <1>13 DEF eventVars, inVars
    <3> QED BY <1>2, <3>2, <3>4, <3>5 DEF DueTrue
  <2> QED BY <2>1, <2>2
<1>14. UNCHANGED prompts => DueTrue(j)'
  <2>1. Push => sequence' = sequence + 1 /\ UNCHANGED acknowledged
    BY DEF Push
  <2>2. ClaimEvents => UNCHANGED <<sequence, acknowledged, inVars>>
    BY DEF ClaimEvents
  <2>3. UNCHANGED <<prompts, sequence, acknowledged, inVars>> => DueTrue(j)'
    BY <1>2 DEF DueTrue, Before, Dispatched, inVars
  <2> QED BY <1>4, <1>5, <1>6, <1>7, <1>8, <2>1, <2>2, <2>3, EventChanges DEF eventVars
<1>15. Drops \/ ConsumerNext => DueTrue(j)'
  BY <1>7, <1>8
<1> QED BY <1>10, <1>11, <1>12, <1>13, <1>14, <1>15, PromptChanges

-------------------------------------------------------------------------------
(* Cancellation. *)
LEMMA OpenBefore ==
  ASSUME Inv, [Next]_vars, open'
  PROVE  open /\ ~End
  BY ClosedSteps DEF End

(* What has been answered stays so. *)
LEMMA AnsweredStays ==
  ASSUME Inv, [Next]_vars, open, ~End, NEW k \in Requests,
         requests[k].state \in {"answering", "answered"}
  PROVE  /\ requests'[k].session = requests[k].session /\ requests'[k].answers = requests[k].answers
         /\ requests'[k].state \in {requests[k].state, "answered"}
         /\ ~Flush => requests'[k].state = requests[k].state
<1>1. TypeOK /\ WireInv /\ RequestTrue(k) /\ NoSession \notin Sessions
      /\ requests \in [Requests -> RequestRecord]
  BY NullAssumption DEF Inv, RequestInv, TypeOK, NullAssumption
<1>2. CASE UNCHANGED permVars
  BY <1>2 DEF permVars
<1>3. ASSUME NEW s \in Sessions, NEW q \in Answerable(s), SettlePermissions(s, q)
      PROVE  requests'[k] = requests[k]
  BY <1>1, <1>3 DEF SettlePermissions, Mine, RequestTrue
<1>4. CASE Flush
  <2>1. CASE UNCHANGED requests
    BY <2>1
  <2>2. ASSUME NEW j \in Requests, requests' = [requests EXCEPT ![j].state = "answered"]
        PROVE  /\ requests'[k].session = requests[k].session /\ requests'[k].answers = requests[k].answers
               /\ requests'[k].state \in {requests[k].state, "answered"}
    BY <2>2, <1>1 DEF RequestRecord
  <2> QED BY <1>1, <1>4, <2>1, <2>2, FlushAnswer
<1>6. CASE DispatchHandled
  <2>1. PICK j \in Requests : j = Head(inbound).request /\ requests[j].state = "received"
    BY <1>6, Dispatched1 DEF DispatchHandled
  <2> QED BY <1>1, <1>6, <2>1 DEF DispatchHandled
<1>7. ASSUME NEW outcome \in {"cancelled", "error"}, DispatchAnswered(outcome)
      PROVE  requests'[k] = requests[k]
  <2>1. PICK j \in Requests : j = Head(inbound).request /\ requests[j].state = "received"
    BY <1>7, Dispatched1 DEF DispatchAnswered
  <2> QED BY <1>1, <1>7, <2>1 DEF DispatchAnswered, Answer
<1>8. ASSUME NEW j \in Requests, NEW s \in Sessions \cup {NoSession}, NEW u \in BOOLEAN, ReceiveRequest(j, s, u)
      PROVE  requests'[k] = requests[k]
  BY <1>1, <1>8 DEF ReceiveRequest
<1>9. ASSUME NEW j \in Requests, NEW result \in {"decision", "error"}, HandlerSettles(j, result)
      PROVE  requests'[k].session = requests[k].session /\ requests'[k].answers = requests[k].answers
             /\ requests'[k].state = requests[k].state
  BY <1>1, <1>9 DEF HandlerSettles, RequestRecord
<1>10. ASSUME NEW j \in Requests, HandlerContinues(j)
       PROVE  requests'[k].session = requests[k].session /\ requests'[k].answers = requests[k].answers
              /\ requests'[k].state = requests[k].state
  <2>1. CASE j = k
    <3>1. ~Owed(j)
      BY <1>10, <1>1, <2>1 DEF HandlerContinues, Owed, RequestTrue
    <3>2. requests' = [requests EXCEPT ![k].handler = "done"]
      BY <1>10, <2>1, <3>1 DEF HandlerContinues
    <3>3. requests' = [requests EXCEPT ![k] = [requests[k] EXCEPT !.handler = "done"]]
      BY <3>2
    <3>4. requests[k] \in RequestRecord
      BY <1>1
    <3> QED BY <1>1, <3>3, <3>4 DEF RequestRecord
  <2>2. CASE j # k
    BY <1>1, <1>10, <2>2 DEF HandlerContinues
  <2> QED BY <2>1, <2>2
<1>11. CASE ReceiveNotification \/ DispatchNotification
  BY <1>11 DEF ReceiveNotification, DispatchNotification, permVars
<1> QED BY <1>2, <1>3, <1>4, <1>6, <1>7, <1>8, <1>9, <1>10, <1>11, RequestChanges

(* How the calls in progress of a Session change with one of them. *)
LEMMA OpsChange ==
  ASSUME TypeOK, NEW c \in Cancels, NEW new \in CancelRecord, cancels' = [cancels EXCEPT ![c] = new], NEW s
  PROVE  Ops(s)' = IF new.session = s /\ new.state \in {"settling", "notifying"}
                   THEN Ops(s) \cup {c} ELSE Ops(s) \ {c}
<1>1. \A d \in Cancels : cancels'[d] = IF d = c THEN new ELSE cancels[d]
  BY DEF TypeOK
<1>2. \A d \in Cancels : d \in Ops(s)' <=> cancels'[d].session = s /\ cancels'[d].state \in {"settling", "notifying"}
  BY DEF Ops
<1>3. \A d \in Cancels : d \in Ops(s) <=> cancels[d].session = s /\ cancels[d].state \in {"settling", "notifying"}
  BY DEF Ops
<1>4. \A d \in Cancels : d \in Ops(s)' <=> \/ d # c /\ d \in Ops(s)
                                           \/ d = c /\ new.session = s /\ new.state \in {"settling", "notifying"}
  BY <1>1, <1>2, <1>3
<1>5. Ops(s) \subseteq Cancels /\ Ops(s)' \subseteq Cancels
  BY DEF Ops
<1> QED BY <1>4, <1>5

(* A call that ends is one less in progress. *)
LEMMA OpsEnd ==
  ASSUME TypeOK, CountInv, open, NEW c \in Cancels, Cancelling(c), cancels[c].session \in Sessions,
         NEW st \in {"resolved", "rejected"}, cancels' = [cancels EXCEPT ![c].state = st],
         EndCancellation(cancels[c].session), UNCHANGED active
  PROVE  CountInv'
<1>1. PICK new : new = [cancels[c] EXCEPT !.state = st]
  OBVIOUS
<1>2. new \in CancelRecord /\ new.state = st /\ cancels' = [cancels EXCEPT ![c] = new]
  BY <1>1, CancelGoes, TypeParts, ZenonT(60) DEF TypeOK, CancelRecord
<1>3. \A s \in Sessions : Ops(s)' = Ops(s) \ {c}
  BY <1>2, OpsChange
<1>4. \A s \in Sessions : c \in Ops(s) <=> s = cancels[c].session
  BY DEF Ops, Cancelling
<1> SUFFICES ASSUME NEW s \in Sessions
             PROVE  /\ IsFiniteSet(Ops(s)') /\ cancelOps'[s] = Cardinality(Ops(s)')
                    /\ s \in cancelling' => active'[s] # NoPrompt \/ cancelOps'[s] > 0
  BY DEF CountInv
<1>5. PICK A, B : A = Ops(s) /\ B = A \ {c} /\ B = Ops(s)'
  BY <1>3
<1>6. IsFiniteSet(A) /\ cancelOps[s] = Cardinality(A) /\ Cardinality(A) \in Nat
      /\ (s \in cancelling => active[s] # NoPrompt \/ cancelOps[s] > 0)
  BY <1>5, FS_CardinalityType DEF CountInv
<1>7. IsFiniteSet(B) /\ Cardinality(B) = IF c \in A THEN Cardinality(A) - 1 ELSE Cardinality(A)
  <2>1. IsFiniteSet(A) /\ B = A \ {c}
    BY <1>5, <1>6
  <2> QED BY ONLY <2>1, FS_RemoveElement
<1>8. cancelOps \in [Sessions -> Nat] /\ Cardinality(B) \in Nat
  BY <1>7, FS_CardinalityType DEF TypeOK
<1>9. CASE s = cancels[c].session
  <2>1. c \in A
    BY <1>4, <1>5, <1>9
  <2>2. cancelOps'[s] = Cardinality(B)
    BY <1>6, <1>7, <1>8, <1>9, <2>1 DEF EndCancellation
  <2>3. cancelOps' = [cancelOps EXCEPT ![s] = @ - 1] /\ MaybeClearCancellation(s, active, cancelOps')
    BY <1>9 DEF EndCancellation
  <2>4. s \in cancelling' => active'[s] # NoPrompt \/ cancelOps'[s] # 0
    BY <2>3 DEF MaybeClearCancellation
  <2>5. cancelOps'[s] \in Nat
    BY <1>8, <2>2
  <2>6. cancelOps'[s] # 0 => cancelOps'[s] > 0
    <3>1. PICK n \in Nat : n = cancelOps'[s]
      BY <2>5
    <3> QED BY ONLY <3>1
  <2> QED BY <1>5, <1>7, <2>2, <2>4, <2>6
<1>10. CASE s # cancels[c].session
  BY <1>4, <1>5, <1>10, <1>8, <1>6, <1>7 DEF EndCancellation, MaybeClearCancellation
<1> QED BY <1>9, <1>10

LEMMA CountChanges ==
  ASSUME [Next]_vars, ~End
  PROVE  \/ UNCHANGED <<active, cancelOps, cancelling, cancels>>
         \/ \E p \in Prompts : /\ PromptEnds(p) \/ \E s \in Sessions : Prompt(p, s)
                               /\ UNCHANGED <<cancelOps, cancels>>
         \/ Flush
         \/ \E c \in Cancels : \/ \E s \in Sessions : \E q \in Answerable(s) : CancelSession(c, s, q)
                               \/ CancelNotifies(c)
         \/ \E x \in Closes : \E ok \in BOOLEAN : CloseAnswered(x, ok) /\ UNCHANGED <<cancelOps, cancels>>
<1>1. ASSUME NEW p \in Prompts, PromptContinues(p)
      PROVE  UNCHANGED <<active, cancelOps, cancelling, cancels>>
             \/ (PromptEnds(p) /\ UNCHANGED <<cancelOps, cancels>>)
  BY <1>1 DEF PromptContinues, PromptEnds
<1>2. ASSUME NEW k \in Requests, HandlerContinues(k)
      PROVE  UNCHANGED <<active, cancelOps, cancelling, cancels>>
  BY <1>2 DEF HandlerContinues, callVars, sessVars
<1>3. ASSUME NEW x \in Closes, NEW ok \in BOOLEAN, CloseAnswered(x, ok)
      PROVE  UNCHANGED <<cancelOps, cancels>>
  BY <1>3 DEF CloseAnswered
<1>4. ASSUME NEW p \in Prompts, \/ CheckpointGivesUp(p) \/ PromptResolves(p)
                                \/ \E s \in Sessions : Prompt(p, s)
      PROVE  (PromptEnds(p) \/ \E s \in Sessions : Prompt(p, s)) /\ UNCHANGED <<cancelOps, cancels>>
  BY <1>4 DEF PromptEnds, CheckpointGivesUp, PromptResolves, Prompt
<1>5. ASSUME NEW x \in Closes, \/ \E s \in Sessions : \E q \in Answerable(s) : CloseSession(x, s, q)
                               \/ CloseRequests(x) \/ CloseGivesUp(x)
      PROVE  UNCHANGED <<active, cancelOps, cancelling, cancels>>
  BY <1>5 DEF CloseSession, CloseRequests, CloseGivesUp, sessVars
<1>6. \/ UNCHANGED <<active, cancelOps, cancelling, cancels>>
      \/ Flush
      \/ \E p \in Prompts : \/ CheckpointGivesUp(p) \/ PromptResolves(p) \/ PromptContinues(p)
                            \/ \E s \in Sessions : Prompt(p, s)
      \/ \E c \in Cancels : \/ \E s \in Sessions : \E q \in Answerable(s) : CancelSession(c, s, q)
                            \/ CancelNotifies(c)
      \/ \E x \in Closes : \/ \E s \in Sessions : \E q \in Answerable(s) : CloseSession(x, s, q)
                           \/ CloseRequests(x) \/ CloseGivesUp(x)
                           \/ \E ok \in BOOLEAN : CloseAnswered(x, ok)
      \/ \E k \in Requests : HandlerContinues(k)
  BY DEF Next, vars, sessVars, callVars, Initialize, InitializeSettles, Fail, Close, Dispatch, DispatchFails,
         DispatchNotification, DispatchAnswered, DispatchHandled, ReceiveNotification, ReceiveRequest,
         HandlerSettles, ClaimEvents, ConsumerNext, PromptDetaches, PromptAnswered
<1> QED BY <1>1, <1>2, <1>3, <1>4, <1>5, <1>6

(* A prompt or a close that ends takes the mark with it when no call is in progress. *)
LEMMA ClearKeeps ==
  ASSUME TypeOK, CountInv, open, NEW s, NEW left,
         left \in [Sessions -> Prompts \cup {NoPrompt}],
         \A r \in Sessions : r = s \/ left[r] = active[r],
         active' = left, MaybeClearCancellation(s, left, cancelOps), UNCHANGED <<cancelOps, cancels>>
  PROVE  CountInv'
<1> SUFFICES ASSUME NEW r \in Sessions
             PROVE  /\ IsFiniteSet(Ops(r)') /\ cancelOps'[r] = Cardinality(Ops(r)')
                    /\ r \in cancelling' => active'[r] # NoPrompt \/ cancelOps'[r] > 0
  BY DEF CountInv
<1>1. Ops(r)' = Ops(r) /\ cancelOps'[r] = cancelOps[r]
  BY DEF Ops
<1>2. IsFiniteSet(Ops(r)) /\ cancelOps[r] = Cardinality(Ops(r))
      /\ (r \in cancelling => active[r] # NoPrompt \/ cancelOps[r] > 0)
  BY DEF CountInv
<1>3. cancelOps[r] \in Nat
  BY DEF TypeOK
<1>4. cancelOps[r] # 0 => cancelOps[r] > 0
  <2>1. PICK n \in Nat : n = cancelOps[r]
    BY <1>3
  <2> QED BY ONLY <2>1
<1>5. r \in cancelling' => active'[r] # NoPrompt \/ cancelOps[r] > 0
  BY <1>2, <1>4 DEF MaybeClearCancellation
<1> QED BY <1>1, <1>2, <1>5

LEMMA CountStep ==
  ASSUME Inv, [Next]_vars
  PROVE  CountInv'
<1>1. TypeOK /\ CountInv /\ WireInv /\ CancelInv /\ NoPrompt \notin Prompts
  BY NullAssumption DEF Inv, NullAssumption
<1> SUFFICES ASSUME open' PROVE CountInv'
  BY DEF CountInv
<1>2. open /\ ~End
  BY OpenBefore
<1>3. CASE UNCHANGED <<active, cancelOps, cancelling, cancels>>
  BY <1>1, <1>2, <1>3 DEF CountInv, Ops
<1>4. ASSUME NEW p \in Prompts, NEW s \in Sessions, Prompt(p, s), UNCHANGED <<cancelOps, cancels>>
      PROVE  CountInv'
  <2>1. \A r \in Sessions : active'[r] # NoPrompt \/ active'[r] = active[r]
    BY <1>1, <1>4 DEF Prompt, TypeOK
  <2>2. UNCHANGED cancelling
    BY <1>4 DEF Prompt
  <2> QED BY <1>1, <1>2, <1>4, <2>1, <2>2 DEF CountInv, Ops
<1>5. ASSUME NEW p \in Prompts, PromptEnds(p), UNCHANGED <<cancelOps, cancels>>
      PROVE  CountInv'
  <2>1. Finish(p)
    BY <1>5 DEF PromptEnds, CheckpointGivesUp, PromptResolves
  <2>2. PICK s, left : /\ s = prompts[p].session
                       /\ left = IF active[s] = p THEN [active EXCEPT ![s] = NoPrompt] ELSE active
    OBVIOUS
  <2>3. active' = left /\ MaybeClearCancellation(s, left, cancelOps)
    BY <2>1, <2>2 DEF Finish
  <2>4. left \in [Sessions -> Prompts \cup {NoPrompt}] /\ \A r \in Sessions : r = s \/ left[r] = active[r]
    BY <1>1, <2>2 DEF TypeOK
  <2> QED BY <1>1, <1>2, <1>5, <2>3, <2>4, ClearKeeps
<1>6. ASSUME NEW x \in Closes, NEW ok \in BOOLEAN, CloseAnswered(x, ok), UNCHANGED <<cancelOps, cancels>>
      PROVE  CountInv'
  <2>1. CASE UNCHANGED <<active, cancelling>>
    BY <1>1, <1>2, <1>6, <2>1 DEF CountInv, Ops
  <2>2. CASE ~UNCHANGED <<active, cancelling>>
    <3>1. PICK s, left : s = closes[x].session /\ left = [active EXCEPT ![s] = NoPrompt]
      OBVIOUS
    <3>2. active' = left /\ MaybeClearCancellation(s, left, cancelOps)
      BY <1>6, <2>2, <3>1 DEF CloseAnswered
    <3>3. left \in [Sessions -> Prompts \cup {NoPrompt}] /\ \A r \in Sessions : r = s \/ left[r] = active[r]
      BY <1>1, <3>1 DEF TypeOK
    <3> QED BY <1>1, <1>2, <1>6, <3>2, <3>3, ClearKeeps
  <2> QED BY <2>1, <2>2
<1>7. CASE Flush
  BY <1>7, <1>3, <1>1, <1>2, OpsEnd, FlushCancel DEF Flush, Cancelling, CancelInv, CancelTrue
<1>8. ASSUME NEW c \in Cancels, CancelNotifies(c)
      PROVE  CountInv'
  <2>1. Cancelling(c) /\ cancels[c].session \in Sessions /\ UNCHANGED active
    BY <1>1, <1>8 DEF Cancelling, CancelInv, CancelTrue, CancelNotifies
  <2>2. CASE cancels' = [cancels EXCEPT ![c].state = "rejected"] /\ EndCancellation(cancels[c].session)
    BY <1>1, <1>2, <2>1, <2>2, OpsEnd
  <2>3. CASE cancels' = [cancels EXCEPT ![c].state = "notifying"] /\ UNCHANGED <<cancelOps, cancelling>>
    <3>1. \A s : Ops(s)' = Ops(s)
      BY <1>1, <2>1, <2>3 DEF Ops, TypeOK, CancelRecord, Cancelling
    <3> QED BY <1>1, <1>2, <2>1, <2>3, <3>1 DEF CountInv
  <2> QED BY <1>8, <2>2, <2>3 DEF CancelNotifies
<1>9. ASSUME NEW c \in Cancels, NEW s \in Sessions, NEW q \in Answerable(s), CancelSession(c, s, q)
      PROVE  CountInv'
  <2>1. PICK new \in CancelRecord :
          /\ cancels' = [cancels EXCEPT ![c] = new] /\ new.session = s
          /\ new.state = (IF AllAnswered(s, q) THEN "settling" ELSE "rejected")
    <3>1. Mine(s) \in SUBSET Requests /\ {p \in Prompts : prompts[p].session = s} \in SUBSET Prompts
      BY <1>1 DEF Mine, TypeOK
    <3>2. [session |-> s, state |-> IF AllAnswered(s, q) THEN "settling" ELSE "rejected",
           answers |-> Mine(s), begun |-> {p \in Prompts : prompts[p].session = s}] \in CancelRecord
      BY <3>1 DEF CancelRecord
    <3> QED BY <1>9, <3>2 DEF CancelSession
  <2>2. \A r : c \notin Ops(r)
    BY <1>9 DEF Ops, CancelSession
  <2> SUFFICES ASSUME NEW r \in Sessions
               PROVE  /\ IsFiniteSet(Ops(r)') /\ cancelOps'[r] = Cardinality(Ops(r)')
                      /\ r \in cancelling' => active'[r] # NoPrompt \/ cancelOps'[r] > 0
    BY DEF CountInv
  <2>3. /\ IsFiniteSet(Ops(r)) /\ cancelOps[r] = Cardinality(Ops(r)) /\ cancelOps[r] \in Nat
        /\ r \in cancelling => active[r] # NoPrompt \/ cancelOps[r] > 0
    BY <1>1, <1>2 DEF CountInv, TypeOK
  <2>4. UNCHANGED active
    BY <1>9 DEF CancelSession
  <2>5. cancelOps[r] # 0 => cancelOps[r] > 0
    <3>1. PICK n \in Nat : n = cancelOps[r]
      BY <2>3
    <3> QED BY ONLY <3>1
  <2>6. CASE AllAnswered(s, q)
    <3>1. cancelOps' = [cancelOps EXCEPT ![s] = @ + 1] /\ cancelling' = cancelling \cup {s}
      BY <1>9, <2>6 DEF CancelSession
    <3>2. CASE r = s
      <4>1. Ops(r)' = Ops(r) \cup {c}
        BY <1>1, <2>1, <2>6, <3>2, OpsChange
      <4>2. PICK A : A = Ops(r)
        OBVIOUS
      <4>3. IsFiniteSet(A \cup {c}) /\ Cardinality(A \cup {c}) = Cardinality(A) + 1
        <5>1. IsFiniteSet(A) /\ c \notin A
          BY <2>2, <2>3, <4>2
        <5> QED BY ONLY <5>1, FS_AddElement
      <4>4. cancelOps'[r] = cancelOps[r] + 1
        BY <1>1, <3>1, <3>2 DEF TypeOK
      <4>5. cancelOps[r] + 1 > 0
        <5>1. PICK n \in Nat : n = cancelOps[r]
          BY <2>3
        <5> QED BY ONLY <5>1
      <4> QED BY <2>3, <4>1, <4>2, <4>3, <4>4, <4>5
    <3>3. CASE r # s
      <4>1. Ops(r)' = Ops(r)
        <5>1. Ops(r)' = Ops(r) \ {c}
          BY <1>1, <2>1, <3>3, OpsChange
        <5> QED BY <2>2, <5>1
      <4>2. cancelOps'[r] = cancelOps[r] /\ (r \in cancelling' => r \in cancelling)
        BY <1>1, <3>1, <3>3 DEF TypeOK
      <4> QED BY <2>3, <2>4, <4>1, <4>2
    <3> QED BY <3>2, <3>3
  <2>7. CASE ~AllAnswered(s, q)
    <3>1. Ops(r)' = Ops(r)
      <4>1. Ops(r)' = Ops(r) \ {c}
        BY <1>1, <2>1, <2>7, OpsChange
      <4> QED BY <2>2, <4>1
    <3>2. /\ UNCHANGED cancelOps
          /\ cancelling' = IF active[s] = NoPrompt /\ cancelOps[s] = 0 THEN cancelling \ {s} ELSE cancelling \cup {s}
      BY <1>9, <2>7 DEF CancelSession
    <3> QED BY <2>3, <2>4, <2>5, <3>1, <3>2
  <2> QED BY <2>6, <2>7
<1> QED BY <1>2, <1>3, <1>4, <1>5, <1>6, <1>7, <1>8, <1>9, CountChanges

(* The mark of a Session goes with the last call in progress. *)
LEMMA ClearedIdle ==
  ASSUME TypeOK, WireInv, [Next]_vars, ~End, NEW s \in Sessions, s \in cancelling, s \notin cancelling'
  PROVE  cancelOps'[s] = 0
<1>1. cancelOps \in [Sessions -> Nat]
  BY DEF TypeOK
<1>2. ASSUME NEW p \in Prompts, PromptEnds(p), UNCHANGED <<cancelOps, cancels>>
      PROVE  cancelOps'[s] = 0
  BY <1>2 DEF PromptEnds, CheckpointGivesUp, PromptResolves, Finish, MaybeClearCancellation
<1>3. ASSUME NEW p \in Prompts, NEW r \in Sessions, Prompt(p, r)
      PROVE  cancelOps'[s] = 0
  BY <1>3 DEF Prompt
<1>4. ASSUME NEW r, EndCancellation(r)
      PROVE  cancelOps'[s] = 0
  BY <1>1, <1>4 DEF EndCancellation, MaybeClearCancellation
<1>5. CASE Flush
  BY <1>4, <1>5, FlushCancel
<1>6. ASSUME NEW c \in Cancels, CancelNotifies(c)
      PROVE  cancelOps'[s] = 0
  BY <1>4, <1>6 DEF CancelNotifies
<1>7. ASSUME NEW c \in Cancels, NEW r \in Sessions, NEW q \in Answerable(r), CancelSession(c, r, q)
      PROVE  cancelOps'[s] = 0
  BY <1>7 DEF CancelSession
<1>8. ASSUME NEW x \in Closes, NEW ok \in BOOLEAN, CloseAnswered(x, ok)
      PROVE  cancelOps'[s] = 0
  BY <1>8 DEF CloseAnswered, MaybeClearCancellation
<1> QED BY <1>2, <1>3, <1>5, <1>6, <1>7, <1>8, CountChanges

(* A prompt gets its Session when it begins. *)
LEMMA PromptSession ==
  ASSUME TypeOK, [Next]_vars, NEW p \in Prompts
  PROVE  \/ prompts'[p].session = prompts[p].session
         \/ \E s \in Sessions : Prompt(p, s) /\ prompts'[p].session = s
<1>1. prompts \in [Prompts -> PromptRecord] /\ prompts[p] \in PromptRecord
  BY DEF TypeOK
<1>2. CASE UNCHANGED prompts
  BY <1>2
<1>3. CASE Drops
  BY <1>1, <1>3 DEF Drops, End, PromptRecord
<1>4. CASE ConsumerNext
  BY <1>1, <1>4 DEF ConsumerNext, PromptRecord
<1>5. ASSUME NEW j \in Prompts, NEW s \in Sessions, Prompt(j, s)
      PROVE  \/ prompts'[p].session = prompts[p].session
             \/ Prompt(p, s) /\ prompts'[p].session = s
  BY <1>5, <1>1 DEF Prompt, PromptRecord
<1>6. ASSUME NEW j \in Prompts, \/ PromptDetaches(j) \/ CheckpointGivesUp(j)
                                \/ PromptContinues(j) \/ PromptResolves(j)
                                \/ \E ok \in BOOLEAN : PromptAnswered(j, ok)
      PROVE  prompts'[p].session = prompts[p].session
  <2>1. CASE PromptDetaches(j) \/ CheckpointGivesUp(j) \/ PromptResolves(j)
    <3>1. PICK st \in {"detached", "rejected", "resolved"} : prompts' = [prompts EXCEPT ![j].state = st]
      BY <2>1 DEF PromptDetaches, CheckpointGivesUp, PromptResolves
    <3>2. prompts' = [prompts EXCEPT ![j] = [prompts[j] EXCEPT !.state = st]]
      BY <3>1
    <3> QED BY <1>1, <3>2 DEF PromptRecord
  <2>2. CASE PromptContinues(j)
    <3>1. PICK new \in {[prompts[j] EXCEPT !.state = "resolved"], [prompts[j] EXCEPT !.state = "rejected"],
                        [prompts[j] EXCEPT !.state = "checkpoint", !.target = sequence]} :
            prompts' = [prompts EXCEPT ![j] = new]
      BY <2>2 DEF PromptContinues
    <3> QED BY <1>1, <3>1, ZenonT(60) DEF PromptRecord
  <2>3. ASSUME NEW ok \in BOOLEAN, PromptAnswered(j, ok)
        PROVE  prompts'[p].session = prompts[p].session
    <3>1. PICK new : new = [prompts[j] EXCEPT !.state = "responded", !.ok = ok,
                                              !.target = received, !.due = EventsReceived]
      OBVIOUS
    <3>2. prompts[j] \in PromptRecord
      BY <1>1
    <3>3. new.session = prompts[j].session
      BY <3>1, <3>2 DEF PromptRecord
    <3>4. prompts' = prompts \/ prompts' = [prompts EXCEPT ![j] = new]
      BY <2>3, <3>1 DEF PromptAnswered
    <3> QED BY <1>1, <3>3, <3>4
  <2> QED BY <1>6, <2>1, <2>2, <2>3
<1> QED BY <1>2, <1>3, <1>4, <1>5, <1>6, PromptChanges

(* A call in progress goes on, or has just begun. *)
LEMMA CancelGoesOn ==
  ASSUME TypeOK, WireInv, [Next]_vars, ~End, NEW c \in Cancels, Cancelling(c)'
  PROVE  \/ /\ Cancelling(c)
            /\ cancels'[c].session = cancels[c].session /\ cancels'[c].begun = cancels[c].begun
            /\ cancels'[c].answers = cancels[c].answers
            /\ \/ cancels'[c].state = cancels[c].state
               \/ cancels'[c].state = "notifying" /\ Flushed(cancels[c].answers)
         \/ \E s \in Sessions : \E q \in Answerable(s) : CancelSession(c, s, q) /\ AllAnswered(s, q)
<1>1. cancels \in [Cancels -> CancelRecord] /\ cancels[c] \in CancelRecord
  BY DEF TypeOK
<1>2. CASE UNCHANGED cancels
  BY <1>2 DEF Cancelling
<1>3. CASE Flush
  <2>1. ASSUME NEW d \in Cancels, cancels' = [cancels EXCEPT ![d].state = "resolved"]
        PROVE  cancels'[c] = cancels[c]
    BY <1>1, <2>1 DEF Cancelling, CancelRecord
  <2> QED BY <1>2, <1>3, <2>1, FlushCancel DEF Cancelling
<1>4. ASSUME NEW d \in Cancels, CancelNotifies(d)
      PROVE  \/ cancels'[c] = cancels[c]
             \/ /\ cancels'[c] = [cancels[c] EXCEPT !.state = "notifying"] /\ cancels[c].state = "settling"
                /\ Flushed(cancels[c].answers)
  BY <1>1, <1>4 DEF CancelNotifies, Cancelling, CancelRecord
<1>5. ASSUME NEW d \in Cancels, CancelNotifies(d)
      PROVE  /\ Cancelling(c)
             /\ cancels'[c].session = cancels[c].session /\ cancels'[c].begun = cancels[c].begun
             /\ cancels'[c].answers = cancels[c].answers
             /\ \/ cancels'[c].state = cancels[c].state
                \/ cancels'[c].state = "notifying" /\ Flushed(cancels[c].answers)
  BY <1>1, <1>4, <1>5 DEF Cancelling, CancelRecord
<1>6. ASSUME NEW d \in Cancels, NEW s \in Sessions, NEW q \in Answerable(s), CancelSession(d, s, q)
      PROVE  cancels'[c] = cancels[c] \/ (CancelSession(c, s, q) /\ AllAnswered(s, q))
  BY <1>1, <1>6 DEF CancelSession, Cancelling
<1> QED BY <1>2, <1>3, <1>5, <1>6, CountChanges DEF Cancelling

LEMMA CancelStep ==
  ASSUME Inv, [Next]_vars
  PROVE  CancelInv'
<1>1. TypeOK /\ TypeOK' /\ WireInv /\ CancelInv /\ CountInv' /\ ClosedInv' /\ RequestInv
  BY TypeIsKept, CountStep, ClosedStep DEF Inv
<1> SUFFICES ASSUME NEW c \in Cancels, Cancelling(c)' PROVE CancelTrue(c)'
  BY DEF CancelInv
<1>2. open' /\ open /\ ~End
  BY <1>1, OpenBefore DEF ClosedInv
<1>3. PICK s : s = cancels'[c].session
  OBVIOUS
<1>4. ASSUME s \in Sessions PROVE cancelOps'[s] # 0
  <2>1. PICK S : S = Ops(s)'
    OBVIOUS
  <2>2. IsFiniteSet(S) /\ cancelOps'[s] = Cardinality(S) /\ c \in S
    BY <1>1, <1>2, <1>3, <1>4, <2>1 DEF CountInv, Ops, Cancelling
  <2> QED BY <2>2, FS_EmptySet
<1>5. CASE /\ Cancelling(c)
           /\ cancels'[c].session = cancels[c].session /\ cancels'[c].begun = cancels[c].begun
           /\ cancels'[c].answers = cancels[c].answers
           /\ \/ cancels'[c].state = cancels[c].state
              \/ cancels'[c].state = "notifying" /\ Flushed(cancels[c].answers)
  <2>1. CancelTrue(c) /\ s = cancels[c].session
    BY <1>1, <1>3, <1>5 DEF CancelInv
  <2>2. s \in Sessions /\ s \in cancelling'
    BY <1>1, <1>2, <1>4, <2>1, ClearedIdle DEF CancelTrue
  <2>3. ASSUME NEW p \in Prompts, prompts'[p].session = s PROVE p \in cancels[c].begun
    <3>1. ~\E r \in Sessions : Prompt(p, r) /\ prompts'[p].session = r
      BY <2>1, <2>3 DEF Prompt, CancelTrue
    <3>2. prompts[p].session = s
      BY <1>1, <2>3, <3>1, PromptSession
    <3> QED BY <2>1, <3>2 DEF CancelTrue
  <2>4. ASSUME NEW k \in cancels[c].answers
        PROVE  /\ requests'[k].session \in Sessions /\ requests'[k].answers = <<"cancelled">>
               /\ \/ requests'[k].state = "answered"
                  \/ requests'[k].state = "answering" /\ cancels'[c].state = "settling"
    <3>1. k \in Requests
      BY <1>1, <2>4 DEF TypeOK, CancelRecord
    <3>2. /\ requests[k].session \in Sessions /\ requests[k].answers = <<"cancelled">>
          /\ requests[k].state = "answered" \/ (requests[k].state = "answering" /\ cancels[c].state = "settling")
      BY <2>1, <2>4 DEF CancelTrue
    <3>3. /\ requests'[k].session = requests[k].session /\ requests'[k].answers = requests[k].answers
          /\ requests'[k].state \in {requests[k].state, "answered"}
      BY <1>2, <3>1, <3>2, AnsweredStays
    <3>4. requests[k].state = "answered" \/ cancels'[c].state = cancels[c].state
      BY <1>5, <2>4, <3>2 DEF Flushed
    <3> QED BY <3>2, <3>3, <3>4
  <2> QED BY <1>3, <1>5, <2>2, <2>3, <2>4 DEF CancelTrue
<1>6. ASSUME NEW r \in Sessions, NEW q \in Answerable(r), CancelSession(c, r, q), AllAnswered(r, q)
      PROVE  CancelTrue(c)'
  <2>1. cancels'[c] = [session |-> r, state |-> "settling", answers |-> Mine(r),
                       begun |-> {p \in Prompts : prompts[p].session = r}]
    BY <1>1, <1>6 DEF CancelSession, TypeOK
  <2>2. cancelling' = cancelling \cup {r} /\ UNCHANGED prompts /\ SettlePermissions(r, q)
    BY <1>6 DEF CancelSession
  <2>3. ASSUME NEW k \in Mine(r)
        PROVE  /\ requests'[k].session \in Sessions /\ requests'[k].answers = <<"cancelled">>
               /\ requests'[k].state = "answering"
    <3>1. /\ k \in Requests /\ requests[k].session = r /\ requests[k].state = "open" /\ requests[k].answers = <<>>
          /\ requests[k] \in RequestRecord
      BY <1>1, <2>3 DEF Mine, TypeOK, RequestInv, RequestTrue
    <3>2. k \in Range(q)
      BY <1>6, <2>3 DEF AllAnswered
    <3>3. requests'[k] = [requests[k] EXCEPT !.state = "answering",
                                             !.answers = Append(requests[k].answers, "cancelled")]
      BY <2>2, <2>3, <3>1, <3>2 DEF SettlePermissions
    <3>4. Append(requests[k].answers, "cancelled") = <<"cancelled">>
      BY <3>1
    <3> QED BY <3>1, <3>3, <3>4 DEF RequestRecord
  <2> QED BY <1>1, <2>1, <2>2, <2>3 DEF CancelTrue
<1> QED BY <1>1, <1>2, <1>5, <1>6, CancelGoesOn

-------------------------------------------------------------------------------
(* What becomes of prompts, of the Sessions they hold and of their turns. *)
Moves(p, new) == prompts' = [prompts EXCEPT ![p] = new] /\ new.session = prompts[p].session

PromptTurns(p, new) ==
  \/ prompts[p].state = "requested" /\ new.state = "detached" /\ UNCHANGED <<active, turn>>
  \/ prompts[p].state = "responded" /\ new.state = "checkpoint" /\ UNCHANGED <<active, turn>>
  \/ /\ prompts[p].state \in {"responded", "checkpoint", "acknowledged"}
     /\ new.state \in {"resolved", "rejected"} /\ Finish(p) /\ UNCHANGED turn
  \/ /\ turn[p] \in {"running", "closed"} /\ turn' = [turn EXCEPT ![p] = "ended"] /\ UNCHANGED active
     /\ prompts[p].state = "requested" => new.state = "responded"
     /\ prompts[p].state # "requested" => new = prompts[p]

LEMMA TurnMoves ==
  ASSUME TypeOK, EventInv, [Next]_vars, ~End
  PROVE  \/ UNCHANGED <<prompts, active, turn>>
         \/ Flush \/ ConsumerNext
         \/ \E p \in Prompts : \E s \in Sessions : Prompt(p, s)
         \/ \E p \in Prompts : \E new \in PromptRecord : Moves(p, new) /\ PromptTurns(p, new)
         \/ \E x \in Closes : \E ok \in BOOLEAN : CloseAnswered(x, ok)
<1>1. \A p \in Prompts : prompts[p] \in PromptRecord
  BY DEF TypeOK
<1>2. prompts \in [Prompts -> PromptRecord] /\ sequence \in 0..MaxInbound /\ received \in 0..MaxInbound
  BY DEF TypeOK
<1>3. ASSUME NEW p \in Prompts, PromptDetaches(p)
      PROVE  \E new \in PromptRecord : Moves(p, new) /\ PromptTurns(p, new)
  <2>1. PICK new : new = [prompts[p] EXCEPT !.state = "detached"]
    OBVIOUS
  <2>2. new \in PromptRecord /\ new.state = "detached" /\ new.session = prompts[p].session
    BY <1>1, <2>1 DEF PromptRecord
  <2> QED BY <1>3, <2>1, <2>2 DEF PromptDetaches, Moves, PromptTurns, sessVars, agentVars
<1>4. ASSUME NEW p \in Prompts, CheckpointGivesUp(p) \/ PromptResolves(p)
      PROVE  \E new \in PromptRecord : Moves(p, new) /\ PromptTurns(p, new)
  <2>1. PICK st \in {"resolved", "rejected"} : prompts' = [prompts EXCEPT ![p].state = st]
    BY <1>4 DEF CheckpointGivesUp, PromptResolves
  <2>2. PICK new : new = [prompts[p] EXCEPT !.state = st]
    OBVIOUS
  <2>3. new \in PromptRecord /\ new.state = st /\ new.session = prompts[p].session
    BY <1>1, <2>2 DEF PromptRecord
  <2> QED BY <1>4, <2>1, <2>2, <2>3 DEF CheckpointGivesUp, PromptResolves, Moves, PromptTurns, agentVars
<1>5. ASSUME NEW p \in Prompts, PromptContinues(p)
      PROVE  \E new \in PromptRecord : Moves(p, new) /\ PromptTurns(p, new)
  <2>1. prompts[p].state = "responded" /\ UNCHANGED turn
    BY <1>5 DEF PromptContinues, Released, agentVars
  <2>2. CASE prompts' = [prompts EXCEPT ![p].state = "checkpoint", ![p].target = sequence] /\ UNCHANGED active
    <3>1. PICK new : new = [prompts[p] EXCEPT !.state = "checkpoint", !.target = sequence]
      OBVIOUS
    <3>2. new \in PromptRecord /\ new.state = "checkpoint" /\ new.session = prompts[p].session
      BY <1>1, <1>2, <3>1 DEF PromptRecord, Waiting
    <3> QED BY <1>2, <2>1, <2>2, <3>1, <3>2 DEF Moves, PromptTurns
  <2>3. ASSUME NEW st \in {"resolved", "rejected"}, prompts' = [prompts EXCEPT ![p].state = st], Finish(p)
        PROVE  \E new \in PromptRecord : Moves(p, new) /\ PromptTurns(p, new)
    <3>1. PICK new : new = [prompts[p] EXCEPT !.state = st]
      OBVIOUS
    <3>2. new \in PromptRecord /\ new.state = st /\ new.session = prompts[p].session
      BY <1>1, <3>1 DEF PromptRecord
    <3> QED BY <2>1, <2>3, <3>1, <3>2 DEF Moves, PromptTurns
  <2> QED BY <1>5, <2>2, <2>3 DEF PromptContinues
<1>6. ASSUME NEW p \in Prompts, NEW ok \in BOOLEAN, PromptAnswered(p, ok)
      PROVE  \E new \in PromptRecord : Moves(p, new) /\ PromptTurns(p, new)
  <2>1. CASE prompts[p].state = "requested"
    <3>1. PICK new : new = [prompts[p] EXCEPT !.state = "responded", !.ok = ok,
                                              !.target = received, !.due = EventsReceived]
      OBVIOUS
    <3>2. EventsReceived \in 0..MaxInbound
      BY EventsBounded
    <3>3. new \in PromptRecord /\ new.state = "responded" /\ new.session = prompts[p].session
      BY <1>1, <1>2, <3>1, <3>2 DEF PromptRecord, Waiting
    <3>4. prompts' = [prompts EXCEPT ![p] = new]
      BY <1>6, <2>1, <3>1 DEF PromptAnswered
    <3> QED BY <1>6, <2>1, <3>3, <3>4 DEF PromptAnswered, Moves, PromptTurns, sessVars
  <2>2. CASE prompts[p].state # "requested"
    BY <1>2, <1>6, <2>2, <1>1 DEF PromptAnswered, Moves, PromptTurns, sessVars
  <2> QED BY <2>1, <2>2
<1>7. ASSUME NEW k \in Requests, HandlerContinues(k)
      PROVE  UNCHANGED <<prompts, active, turn>>
  BY <1>7 DEF HandlerContinues, callVars, sessVars, agentVars
<1>8. ASSUME NEW x \in Closes, \/ \E s \in Sessions : \E q \in Answerable(s) : CloseSession(x, s, q)
                               \/ CloseRequests(x) \/ CloseGivesUp(x)
      PROVE  UNCHANGED <<prompts, active, turn>>
  BY <1>8 DEF CloseSession, CloseRequests, CloseGivesUp, sessVars, agentVars
<1>9. ASSUME NEW c \in Cancels, \/ \E s \in Sessions : \E q \in Answerable(s) : CancelSession(c, s, q)
                                \/ CancelNotifies(c)
      PROVE  UNCHANGED <<prompts, active, turn>>
  BY <1>9 DEF CancelSession, CancelNotifies, agentVars
<1>10. \/ UNCHANGED <<prompts, active, turn>>
       \/ Flush \/ ConsumerNext
       \/ \E p \in Prompts : \/ CheckpointGivesUp(p) \/ PromptResolves(p) \/ PromptContinues(p)
                             \/ PromptDetaches(p) \/ \E ok \in BOOLEAN : PromptAnswered(p, ok)
                             \/ \E s \in Sessions : Prompt(p, s)
       \/ \E c \in Cancels : \/ \E s \in Sessions : \E q \in Answerable(s) : CancelSession(c, s, q)
                             \/ CancelNotifies(c)
       \/ \E x \in Closes : \/ \E s \in Sessions : \E q \in Answerable(s) : CloseSession(x, s, q)
                            \/ CloseRequests(x) \/ CloseGivesUp(x)
                            \/ \E ok \in BOOLEAN : CloseAnswered(x, ok)
       \/ \E k \in Requests : HandlerContinues(k)
  BY DEF Next, vars, sessVars, callVars, agentVars, Initialize, InitializeSettles, Fail, Close, Dispatch,
         DispatchFails, DispatchNotification, DispatchAnswered, DispatchHandled, ReceiveNotification,
         ReceiveRequest, HandlerSettles, ClaimEvents
<1> QED BY <1>3, <1>4, <1>5, <1>6, <1>7, <1>8, <1>9, <1>10

LEMMA CloseChanges ==
  ASSUME [Next]_vars, ~End
  PROVE  \/ UNCHANGED <<closes, closing, atAgent>>
         \/ Flush
         \/ \E x \in Closes : \/ \E s \in Sessions : \E q \in Answerable(s) : CloseSession(x, s, q)
                              \/ CloseRequests(x) \/ CloseGivesUp(x)
                              \/ \E ok \in BOOLEAN : CloseAnswered(x, ok)
<1>1. ASSUME NEW k \in Requests, HandlerContinues(k)
      PROVE  UNCHANGED <<closes, closing, atAgent>>
  BY <1>1 DEF HandlerContinues, callVars, sessVars, agentVars
<1>2. ASSUME NEW p \in Prompts, \/ CheckpointGivesUp(p) \/ PromptResolves(p) \/ PromptContinues(p)
                                \/ PromptDetaches(p) \/ \E ok \in BOOLEAN : PromptAnswered(p, ok)
                                \/ \E s \in Sessions : Prompt(p, s)
      PROVE  UNCHANGED <<closes, closing, atAgent>>
  BY <1>2 DEF CheckpointGivesUp, PromptResolves, PromptContinues, PromptDetaches, PromptAnswered, Prompt,
              sessVars, agentVars
<1>3. ASSUME NEW c \in Cancels, \/ \E s \in Sessions : \E q \in Answerable(s) : CancelSession(c, s, q)
                                \/ CancelNotifies(c)
      PROVE  UNCHANGED <<closes, closing, atAgent>>
  BY <1>3 DEF CancelSession, CancelNotifies, agentVars
<1>4. \/ UNCHANGED <<closes, closing, atAgent>>
      \/ Flush
      \/ \E p \in Prompts : \/ CheckpointGivesUp(p) \/ PromptResolves(p) \/ PromptContinues(p)
                            \/ PromptDetaches(p) \/ \E ok \in BOOLEAN : PromptAnswered(p, ok)
                            \/ \E s \in Sessions : Prompt(p, s)
      \/ \E c \in Cancels : \/ \E s \in Sessions : \E q \in Answerable(s) : CancelSession(c, s, q)
                            \/ CancelNotifies(c)
      \/ \E x \in Closes : \/ \E s \in Sessions : \E q \in Answerable(s) : CloseSession(x, s, q)
                           \/ CloseRequests(x) \/ CloseGivesUp(x)
                           \/ \E ok \in BOOLEAN : CloseAnswered(x, ok)
      \/ \E k \in Requests : HandlerContinues(k)
  BY DEF Next, vars, sessVars, callVars, agentVars, Initialize, InitializeSettles, Fail, Close, Dispatch,
         DispatchFails, DispatchNotification, DispatchAnswered, DispatchHandled, ReceiveNotification,
         ReceiveRequest, HandlerSettles, ClaimEvents, ConsumerNext
<1> QED BY <1>1, <1>2, <1>3, <1>4

-------------------------------------------------------------------------------
(* A frame stays true until it is flushed. *)
LEMMA PromptFrameStays ==
  ASSUME Inv, [Next]_vars, open, ~End, NEW p \in Prompts, FrameTrue([kind |-> "prompt", of |-> p]),
         Flush => turn'[p] = turn[p],
         \A x \in atAgent : closes[x].session # prompts[p].session
  PROVE  FrameTrue([kind |-> "prompt", of |-> p])' /\ prompts'[p].session = prompts[p].session
<1>1. TypeOK /\ EventInv /\ TurnInv /\ NoPrompt \notin Prompts /\ prompts \in [Prompts -> PromptRecord]
      /\ active \in [Sessions -> Prompts \cup {NoPrompt}]
      /\ turn \in [Prompts -> {"none", "running", "closed", "ended"}]
  BY NullAssumption DEF Inv, NullAssumption, TypeOK
<1>2. /\ prompts[p].state \in {"requested", "detached"} /\ turn[p] = "none"
      /\ prompts[p].state = "requested" => active[prompts[p].session] = p
      /\ prompts[p].session \in Sessions
  BY <1>1 DEF FrameTrue, TurnInv
<1> SUFFICES /\ prompts'[p].state \in {"requested", "detached"} /\ turn'[p] = "none"
             /\ prompts'[p].state = "requested" => active'[prompts'[p].session] = p
             /\ prompts'[p].session = prompts[p].session
  BY DEF FrameTrue
<1>3. CASE UNCHANGED <<prompts, active, turn>>
  BY <1>2, <1>3
<1>4. CASE Flush
  BY <1>2, <1>4 DEF Flush
<1>5. CASE ConsumerNext
  BY <1>1, <1>2, <1>5 DEF ConsumerNext, sessVars, agentVars
<1>6. ASSUME NEW r \in Prompts, NEW s \in Sessions, Prompt(r, s)
      PROVE  /\ prompts'[p] = prompts[p] /\ turn'[p] = "none"
             /\ prompts[p].state = "requested" => active'[prompts[p].session] = p
  BY <1>2, <1>6, <1>1 DEF Prompt, agentVars
<1>7. ASSUME NEW r \in Prompts, NEW new \in PromptRecord, Moves(r, new), PromptTurns(r, new)
      PROVE  /\ prompts'[p].state \in {"requested", "detached"} /\ turn'[p] = "none"
             /\ prompts'[p].state = "requested" => active'[prompts'[p].session] = p
             /\ prompts'[p].session = prompts[p].session
  BY <1>1, <1>2, <1>7 DEF Moves, PromptTurns, Finish
<1>8. ASSUME NEW x \in Closes, NEW ok \in BOOLEAN, CloseAnswered(x, ok)
      PROVE  /\ prompts' = prompts /\ turn'[p] = "none"
             /\ prompts[p].state = "requested" => active'[prompts[p].session] = p
  BY <1>8, <1>2, <1>1 DEF CloseAnswered
<1> QED BY <1>1, <1>2, <1>3, <1>4, <1>5, <1>6, <1>7, <1>8, TurnMoves

LEMMA CloseFrameStays ==
  ASSUME Inv, [Next]_vars, ~End, NEW x \in Closes, closes[x].state \in {"requested", "detached"}
  PROVE  /\ closes'[x].session = closes[x].session
         /\ closes'[x].state \in {"requested", "detached"} \/ \E ok \in BOOLEAN : CloseAnswered(x, ok)
<1>1. closes \in [Closes -> CloseRecord]
  BY DEF Inv, TypeOK
<1>2. CASE UNCHANGED closes
  BY <1>2
<1>3. CASE Flush
  BY <1>3 DEF Flush
<1>4. ASSUME NEW y \in Closes, NEW s \in Sessions, NEW q \in Answerable(s), CloseSession(y, s, q)
      PROVE  closes'[x] = closes[x]
  BY <1>1, <1>4 DEF CloseSession
<1>5. ASSUME NEW y \in Closes, NEW st, closes' = [closes EXCEPT ![y].state = st]
      PROVE  closes'[x].session = closes[x].session /\ (y # x => closes'[x] = closes[x])
             /\ (y = x => closes'[x].state = st)
  BY <1>1, <1>5 DEF CloseRecord
<1>6. ASSUME NEW y \in Closes, CloseRequests(y)
      PROVE  closes'[x] = closes[x]
  BY <1>1, <1>6 DEF CloseRequests
<1>7. ASSUME NEW y \in Closes, CloseGivesUp(y)
      PROVE  closes'[x].session = closes[x].session /\ closes'[x].state \in {"requested", "detached"}
  BY <1>7, <1>5 DEF CloseGivesUp
<1>8. ASSUME NEW y \in Closes, NEW ok \in BOOLEAN, CloseAnswered(y, ok)
      PROVE  closes'[x].session = closes[x].session /\ (y # x => closes'[x] = closes[x])
  BY <1>5, <1>8 DEF CloseAnswered
<1> QED BY <1>2, <1>3, <1>4, <1>6, <1>7, <1>8, CloseChanges

LEMMA CancelFrameStays ==
  ASSUME TypeOK, WireInv, [Next]_vars, ~End, NEW c \in Cancels, cancels[c].state = "notifying",
         Flush => writeQueue[1] # [kind |-> "cancel", of |-> c]
  PROVE  cancels'[c].state = "notifying"
<1>1. cancels \in [Cancels -> CancelRecord]
  BY DEF TypeOK
<1>2. CASE UNCHANGED cancels
  BY <1>2
<1>3. CASE Flush
  BY <1>1, <1>3, <1>2, FlushCancel
<1>4. ASSUME NEW d \in Cancels, CancelNotifies(d)
      PROVE  cancels'[c] = cancels[c]
  BY <1>1, <1>4 DEF CancelNotifies
<1>5. ASSUME NEW d \in Cancels, NEW s \in Sessions, NEW q \in Answerable(s), CancelSession(d, s, q)
      PROVE  cancels'[c] = cancels[c]
  BY <1>1, <1>5 DEF CancelSession
<1> QED BY <1>2, <1>3, <1>4, <1>5, CountChanges

(* Whatever is flushed, the frames behind it are not about the same call. *)
LEMMA FlushedOnce ==
  ASSUME Inv, Flush, NEW f \in Frames, f # writeQueue[1]
  PROVE  /\ \A p \in Prompts : f = [kind |-> "prompt", of |-> p] => turn'[p] = turn[p]
         /\ \A k \in Requests : f = [kind |-> "answer", of |-> k] => requests'[k] = requests[k]
<1>1. TypeOK
  BY DEF Inv
<1>2. PICK h \in Frames : Head(writeQueue) = h /\ writeQueue[1] = h
  BY <1>1, FlushHead
<1>3. turn' = turn \/ (h.kind = "prompt" /\ turn' = [turn EXCEPT ![h.of] = "running"])
  BY <1>2 DEF Flush, Frames, agentVars
<1>4. requests' = requests \/ (h.kind = "answer" /\ requests' = [requests EXCEPT ![h.of].state = "answered"])
  BY <1>2 DEF Flush, Frames
<1>5. h = [kind |-> h.kind, of |-> h.of]
  BY DEF Frames
<1>6. turn \in [Prompts -> {"none", "running", "closed", "ended"}] /\ requests \in [Requests -> RequestRecord]
  BY <1>1 DEF TypeOK
<1> QED BY <1>2, <1>3, <1>4, <1>5, <1>6

LEMMA FrameStays ==
  ASSUME Inv, [Next]_vars, open, ~End, NEW i \in Positions, NEW f \in Frames, f = writeQueue[i],
         Flush => f # writeQueue[1]
  PROVE  /\ FrameTrue(f)'
         /\ f.kind = "prompt" => prompts'[f.of].session = prompts[f.of].session
         /\ f.kind = "close" => closes'[f.of].session = closes[f.of].session
<1>1. TypeOK /\ WireInv /\ CloseInv /\ FrameTrue(f)
  BY DEF Inv, WireInv
<1>2. \A x \in atAgent : AtAgent(x)
  BY <1>1 DEF CloseInv
<1>3. ASSUME NEW p \in Prompts, f = [kind |-> "prompt", of |-> p]
      PROVE  FrameTrue(f)' /\ prompts'[p].session = prompts[p].session
  <2>1. \A x \in atAgent : closes[x].session # prompts[p].session
    <3>1. f.kind = "prompt" /\ f.of = p
      BY <1>3
    <3> QED BY <1>2, <3>1 DEF AtAgent
  <2>2. Flush => turn'[p] = turn[p]
    BY <1>3, FlushedOnce
  <2> QED BY <1>1, <1>3, <2>1, <2>2, PromptFrameStays
<1>4. ASSUME NEW c \in Cancels, f = [kind |-> "cancel", of |-> c]
      PROVE  FrameTrue(f)'
  BY <1>1, <1>4, CancelFrameStays DEF FrameTrue
<1>5. ASSUME NEW x \in Closes, f = [kind |-> "close", of |-> x]
      PROVE  FrameTrue(f)' /\ closes'[x].session = closes[x].session
  <2>1. closes[x].state \in {"requested", "detached"}
    BY <1>1, <1>5 DEF FrameTrue
  <2>2. x \notin atAgent
    <3>1. f.kind = "close" /\ f.of = x
      BY <1>5
    <3> QED BY <1>2, <3>1 DEF AtAgent
  <2>3. ~\E ok \in BOOLEAN : CloseAnswered(x, ok)
    BY <2>2 DEF CloseAnswered
  <2>4. closes'[x].session = closes[x].session /\ closes'[x].state \in {"requested", "detached"}
    BY <2>1, <2>3, CloseFrameStays
  <2> QED BY <1>5, <2>4 DEF FrameTrue
<1>6. ASSUME NEW k \in Requests, f = [kind |-> "answer", of |-> k]
      PROVE  FrameTrue(f)'
  BY <1>1, <1>6, FlushedOnce, AnsweredStays DEF FrameTrue
<1> QED BY <1>3, <1>4, <1>5, <1>6 DEF Frames

(* The frame a step appends is of a call that has none yet, and no prompt is for a Session that is   *)
(* being closed.                                                                                     *)
Fresh(f) ==
  /\ FrameTrue(f)'
  /\ \A i \in Positions : writeQueue[i] # f
  /\ f.kind = "prompt" => \A x \in Closes : Closing(x) => closes'[x].session # prompts'[f.of].session
  /\ f.kind = "close" => closes[f.of].state = "settling"

LEMMA AppendsFresh ==
  ASSUME Inv, [Next]_vars, open, ~End
  PROVE  \/ UNCHANGED writeQueue
         \/ Flush
         \/ \E s \in Sessions : \E q \in Answerable(s) : SettlePermissions(s, q)
         \/ \E f \in Frames : writeQueue' = Append(writeQueue, f) /\ Fresh(f)
<1>1. TypeOK /\ WireInv /\ CloseInv /\ TurnInv /\ RequestInv
  BY DEF Inv
<1>2. \A i \in Positions : writeQueue[i] \in Frames /\ FrameTrue(writeQueue[i])
  BY <1>1 DEF TypeOK, Positions, WireInv
<1>3. ASSUME NEW p \in Prompts, NEW s \in Sessions, Prompt(p, s)
      PROVE  \E f \in Frames : writeQueue' = Append(writeQueue, f) /\ Fresh(f)
  <2>1. PICK f : f = [kind |-> "prompt", of |-> p]
    OBVIOUS
  <2>2. f \in Frames /\ writeQueue' = Append(writeQueue, f)
    BY <1>3, <2>1 DEF Prompt, Frames
  <2>3. prompts'[p].state = "requested" /\ prompts'[p].session = s /\ active'[s] = p /\ turn'[p] = "none"
    BY <1>1, <1>3 DEF Prompt, TypeOK, TurnInv, agentVars, PromptRecord
  <2>4. FrameTrue(f)'
    BY <2>1, <2>3 DEF FrameTrue
  <2>5. \A i \in Positions : writeQueue[i] # f
    BY <1>2, <1>3, <2>1 DEF FrameTrue, Prompt
  <2>6. ASSUME NEW x \in Closes, Closing(x)
        PROVE  closes'[x].session # s
    BY <1>1, <1>3, <2>6 DEF CloseInv, Prompt
  <2> QED BY <2>1, <2>2, <2>3, <2>4, <2>5, <2>6 DEF Fresh
<1>4. ASSUME NEW c \in Cancels, CancelNotifies(c)
      PROVE  \/ UNCHANGED writeQueue
             \/ \E f \in Frames : writeQueue' = Append(writeQueue, f) /\ Fresh(f)
  <2>1. PICK f : f = [kind |-> "cancel", of |-> c]
    OBVIOUS
  <2>2. \A i \in Positions : writeQueue[i] # f
    BY <1>2, <1>4, <2>1 DEF FrameTrue, CancelNotifies
  <2>3. ASSUME cancels' = [cancels EXCEPT ![c].state = "notifying"]
        PROVE  FrameTrue(f)'
    BY <1>1, <2>1, <2>3 DEF FrameTrue, TypeOK, CancelRecord
  <2> QED BY <1>4, <2>1, <2>2, <2>3 DEF CancelNotifies, Fresh, Frames
<1>5. ASSUME NEW x \in Closes, CloseRequests(x)
      PROVE  \/ UNCHANGED writeQueue
             \/ \E f \in Frames : writeQueue' = Append(writeQueue, f) /\ Fresh(f)
  <2>1. PICK f : f = [kind |-> "close", of |-> x]
    OBVIOUS
  <2>2. \A i \in Positions : writeQueue[i] # f
    BY <1>2, <1>5, <2>1 DEF FrameTrue, CloseRequests
  <2>3. ASSUME closes' = [closes EXCEPT ![x].state = "requested"]
        PROVE  FrameTrue(f)'
    BY <1>1, <2>1, <2>3 DEF FrameTrue, TypeOK, CloseRecord
  <2>4. f.kind = "close" /\ f.of = x /\ f \in Frames
    BY <2>1 DEF Frames
  <2> QED BY <1>5, <2>1, <2>2, <2>3, <2>4 DEF CloseRequests, Fresh
<1>6. ASSUME NEW k \in Requests, requests[k].state # "answering", requests'[k].state = "answering"
      PROVE  Fresh([kind |-> "answer", of |-> k])
  BY <1>2, <1>6 DEF Fresh, FrameTrue
<1>7. ASSUME NEW outcome \in {"cancelled", "error"}, DispatchAnswered(outcome)
      PROVE  \E f \in Frames : writeQueue' = Append(writeQueue, f) /\ Fresh(f)
  <2>1. PICK k \in Requests : k = Head(inbound).request /\ requests[k].state = "received"
    BY <1>7, Dispatched1 DEF DispatchAnswered
  <2>2. /\ requests' = [requests EXCEPT ![k].state = "answering", ![k].answers = Append(@, outcome)]
        /\ writeQueue' = Append(writeQueue, [kind |-> "answer", of |-> k])
    BY <1>7, <2>1 DEF DispatchAnswered, Answer
  <2>3. requests'[k].state = "answering"
    BY <1>1, <2>2 DEF TypeOK, RequestRecord
  <2> QED BY <1>6, <2>1, <2>2, <2>3 DEF Frames
<1>8. ASSUME NEW k \in Requests, HandlerContinues(k)
      PROVE  \/ UNCHANGED writeQueue
             \/ \E f \in Frames : writeQueue' = Append(writeQueue, f) /\ Fresh(f)
  <2>1. CASE Owed(k) /\ WriteRoom
    <3>1. requests[k].state = "open"
      BY <1>1, <1>8, <2>1 DEF HandlerContinues, Owed, RequestInv, RequestTrue
    <3>2. /\ requests' = [requests EXCEPT ![k].handler = "done", ![k].state = "answering",
                                          ![k].answers = Append(@, requests[k].handler)]
          /\ writeQueue' = Append(writeQueue, [kind |-> "answer", of |-> k])
      BY <1>8, <2>1 DEF HandlerContinues
    <3>3. requests'[k].state = "answering"
      BY <1>1, <3>2 DEF TypeOK, RequestRecord
    <3> QED BY <1>6, <3>1, <3>2, <3>3 DEF Frames
  <2>2. CASE ~(Owed(k) /\ WriteRoom)
    BY <1>8, <2>2 DEF HandlerContinues
  <2> QED BY <2>1, <2>2
<1> QED BY <1>3, <1>4, <1>5, <1>7, <1>8, WireChanges

(* The parts of WireInv, of one frame and of two. *)
Apart(i, j) ==
  /\ writeQueue[i] = writeQueue[j] => i = j
  /\ /\ writeQueue[i].kind = "prompt" /\ writeQueue[j].kind = "close"
     /\ prompts[writeQueue[i].of].session = closes[writeQueue[j].of].session
     => i < j

LEMMA WireParts ==
  /\ WireInv <=> \A i \in Positions : FrameTrue(writeQueue[i]) /\ \A j \in Positions : Apart(i, j)
  /\ WireInv' <=> \A i \in Positions' : FrameTrue(writeQueue[i])' /\ \A j \in Positions' : Apart(i, j)'
<1>1. WireInv <=> \A i \in Positions : FrameTrue(writeQueue[i]) /\ \A j \in Positions : Apart(i, j)
  BY DEF WireInv, Apart
<1>2. WireInv' <=> \A i \in Positions' : FrameTrue(writeQueue[i])' /\ \A j \in Positions' : Apart(i, j)'
  BY DEF WireInv, Apart
<1> QED BY <1>1, <1>2

(* The frames that stay queued. *)
LEMMA QueuedStays ==
  ASSUME Inv, [Next]_vars, open, ~End, NEW i \in Positions, Flush => i # 1
  PROVE  \E f \in Frames : /\ f = writeQueue[i] /\ FrameTrue(f)'
                           /\ f.kind = "prompt" => prompts'[f.of].session = prompts[f.of].session
                           /\ f.kind = "close" => closes'[f.of].session = closes[f.of].session
<1>1. PICK f \in Frames : f = writeQueue[i]
  BY DEF Inv, TypeOK, Positions
<1>2. Flush => f # writeQueue[1]
  BY <1>1, FlushHead DEF Inv, WireInv
<1> QED BY <1>1, <1>2, FrameStays

LEMMA WireStep ==
  ASSUME Inv, [Next]_vars
  PROVE  WireInv'
<1>1. TypeOK /\ WireInv /\ ClosedInv' /\ writeQueue \in Seq(Frames) /\ Len(writeQueue) \in Nat
  BY ClosedStep, LenProperties DEF Inv, TypeOK
<1>2. CASE ~open'
  BY <1>1, <1>2, EmptySeq, WireParts DEF ClosedInv, Positions
<1>3. CASE open'
  <2>1. open /\ ~End
    BY <1>3, OpenBefore
  <2>2. CASE UNCHANGED writeQueue /\ ~Flush
    <3> SUFFICES ASSUME NEW i \in Positions, NEW j \in Positions
                 PROVE  FrameTrue(writeQueue[i])' /\ Apart(i, j)'
      BY <2>2, WireParts DEF Positions
    <3>1. PICK f \in Frames : /\ f = writeQueue[i] /\ FrameTrue(f)'
                              /\ f.kind = "prompt" => prompts'[f.of].session = prompts[f.of].session
      BY <2>1, <2>2, QueuedStays
    <3>2. PICK g \in Frames : /\ g = writeQueue[j]
                              /\ g.kind = "close" => closes'[g.of].session = closes[g.of].session
      BY <2>1, <2>2, QueuedStays
    <3>3. writeQueue'[i] = f /\ writeQueue'[j] = g
      BY <2>2, <3>1, <3>2
    <3>4. Apart(i, j)
      BY <1>1, WireParts
    <3>5. FrameTrue(writeQueue[i])'
      BY <3>1, <3>3
    <3> QED BY <3>1, <3>2, <3>3, <3>4, <3>5 DEF Apart
  <2>3. CASE Flush
    <3>1. /\ Len(writeQueue') = Len(writeQueue) - 1
          /\ \A i \in 1..Len(writeQueue') : writeQueue'[i] = writeQueue[i + 1] /\ i + 1 \in Positions
      BY <1>1, <2>3, FlushHead
    <3> SUFFICES ASSUME NEW i \in Positions', NEW j \in Positions'
                 PROVE  FrameTrue(writeQueue[i])' /\ Apart(i, j)'
      BY WireParts
    <3>2. /\ i \in Nat /\ j \in Nat /\ i + 1 \in Positions /\ j + 1 \in Positions /\ i + 1 # 1 /\ j + 1 # 1
          /\ writeQueue'[i] = writeQueue[i + 1] /\ writeQueue'[j] = writeQueue[j + 1]
      BY <1>1, <3>1 DEF Positions
    <3>3. PICK f \in Frames : /\ f = writeQueue[i + 1] /\ FrameTrue(f)'
                              /\ f.kind = "prompt" => prompts'[f.of].session = prompts[f.of].session
      BY <2>1, <3>2, QueuedStays
    <3>4. PICK g \in Frames : /\ g = writeQueue[j + 1]
                              /\ g.kind = "close" => closes'[g.of].session = closes[g.of].session
      BY <2>1, <3>2, QueuedStays
    <3>5. Apart(i + 1, j + 1)
      BY <1>1, <3>2, WireParts
    <3>6. (i + 1 = j + 1 => i = j) /\ (i + 1 < j + 1 => i < j)
      BY <3>2
    <3> QED BY <3>2, <3>3, <3>4, <3>5, <3>6 DEF Apart
  <2>4. ASSUME NEW s \in Sessions, NEW q \in Answerable(s), SettlePermissions(s, q), ~Flush
        PROVE  WireInv'
    <3>1. PICK fs \in Seq(Frames) : /\ fs = AnswerFrames(q) /\ Len(fs) = Len(q)
                                    /\ \A i \in 1..Len(q) : fs[i] = [kind |-> "answer", of |-> q[i]]
      BY <1>1, FramesOfAnswers
    <3>2. writeQueue' = writeQueue \o fs
      BY <2>4, <3>1 DEF SettlePermissions
    <3>3. PICK n, m \in Nat : n = Len(writeQueue) /\ m = Len(q)
      BY <1>1, AnswersFit
    <3>4. /\ Len(writeQueue') = n + m
          /\ \A i \in 1..n + m : writeQueue'[i] = IF i <= n THEN writeQueue[i] ELSE fs[i - n]
      <4>1. writeQueue \in Seq(Frames) /\ fs \in Seq(Frames) /\ Len(fs) = m
        BY <1>1, <3>1, <3>3
      <4>2. /\ Len(writeQueue \o fs) = Len(writeQueue) + Len(fs)
            /\ \A i \in 1..Len(writeQueue) + Len(fs) :
                 (writeQueue \o fs)[i] = IF i <= Len(writeQueue) THEN writeQueue[i] ELSE fs[i - Len(writeQueue)]
        BY <4>1, ConcatProperties, ZenonT(60)
      <4> QED BY <3>2, <3>3, <4>1, <4>2
    <3>5. \A i \in 1..m : /\ q[i] \in Mine(s) /\ q[i] \in Requests /\ requests[q[i]].state = "open"
                          /\ requests'[q[i]].state = "answering"
      <4>1. ASSUME NEW i \in 1..m
            PROVE  /\ q[i] \in Mine(s) /\ q[i] \in Requests /\ requests[q[i]].state = "open"
                   /\ requests'[q[i]].state = "answering"
        <5>1. q[i] \in Mine(s) /\ q[i] \in Range(q)
          BY <1>1, <3>3, AnswersFit
        <5>2. q[i] \in Requests /\ requests[q[i]].state = "open" /\ requests[q[i]] \in RequestRecord
          BY <1>1, <5>1 DEF Mine, TypeOK, Inv, RequestInv, RequestTrue
        <5>3. requests'[q[i]] = [requests[q[i]] EXCEPT !.state = "answering", !.answers = Append(@, "cancelled")]
          BY <2>4, <5>1, <5>2 DEF SettlePermissions
        <5> QED BY <5>1, <5>2, <5>3 DEF RequestRecord
      <4> QED BY <4>1
    <3>6. ASSUME NEW i \in 1..n + m
          PROVE  \/ i <= n /\ i \in Positions /\ writeQueue'[i] = writeQueue[i]
                 \/ /\ ~(i <= n) /\ i - n \in 1..m /\ writeQueue'[i] = [kind |-> "answer", of |-> q[i - n]]
      <4>1. CASE i <= n
        BY <3>3, <3>4, <4>1 DEF Positions
      <4>2. CASE ~(i <= n)
        <5>1. i - n \in 1..m
          BY <3>3, <4>2
        <5> QED BY <3>1, <3>3, <3>4, <4>2, <5>1
      <4> QED BY <4>1, <4>2
    <3> SUFFICES ASSUME NEW i \in 1..n + m, NEW j \in 1..n + m
                 PROVE  FrameTrue(writeQueue[i])' /\ Apart(i, j)'
      BY <3>4, WireParts DEF Positions
    <3>7. CASE i <= n /\ j <= n
      <4>1. i \in Positions /\ j \in Positions /\ writeQueue'[i] = writeQueue[i] /\ writeQueue'[j] = writeQueue[j]
        BY <3>6, <3>7
      <4>2. PICK f \in Frames : /\ f = writeQueue[i] /\ FrameTrue(f)'
                                /\ f.kind = "prompt" => prompts'[f.of].session = prompts[f.of].session
        BY <2>1, <2>4, <4>1, QueuedStays
      <4>3. PICK g \in Frames : /\ g = writeQueue[j]
                                /\ g.kind = "close" => closes'[g.of].session = closes[g.of].session
        BY <2>1, <2>4, <4>1, QueuedStays
      <4>4. Apart(i, j)
        BY <1>1, <4>1, WireParts
      <4> QED BY <4>1, <4>2, <4>3, <4>4 DEF Apart
    <3>8. CASE i <= n /\ ~(j <= n)
      <4>1. i \in Positions /\ writeQueue'[i] = writeQueue[i]
        BY <3>6, <3>8
      <4>2. PICK f \in Frames : f = writeQueue[i] /\ FrameTrue(f)'
        BY <2>1, <2>4, <4>1, QueuedStays
      <4>3. j - n \in 1..m /\ writeQueue'[j] = [kind |-> "answer", of |-> q[j - n]]
        BY <3>6, <3>8
      <4>4. FrameTrue(f)
        BY <1>1, <4>1, <4>2, WireParts
      <4>5. f # [kind |-> "answer", of |-> q[j - n]]
        BY <3>5, <4>3, <4>4 DEF FrameTrue
      <4> QED BY <4>1, <4>2, <4>3, <4>5 DEF Apart
    <3>9. CASE ~(i <= n)
      <4>1. i - n \in 1..m /\ writeQueue'[i] = [kind |-> "answer", of |-> q[i - n]]
        BY <3>6, <3>9
      <4>2. PICK f : f = [kind |-> "answer", of |-> q[i - n]]
        OBVIOUS
      <4>3. FrameTrue(f)'
        BY <3>5, <4>1, <4>2 DEF FrameTrue
      <4>4. ASSUME j <= n PROVE writeQueue'[j] # f
        <5>1. j \in Positions /\ writeQueue'[j] = writeQueue[j] /\ FrameTrue(writeQueue[j])
          BY <1>1, <3>6, <4>4, WireParts
        <5>2. requests[q[i - n]].state = "open"
          BY <3>5, <4>1
        <5> QED BY <4>2, <5>1, <5>2 DEF FrameTrue
      <4>5. ASSUME ~(j <= n), writeQueue'[j] = f PROVE i = j
        <5>1. j - n \in 1..m /\ q[j - n] = q[i - n]
          <6>1. j - n \in 1..m /\ writeQueue'[j] = [kind |-> "answer", of |-> q[j - n]]
            BY <3>6, <4>5
          <6> QED BY <4>2, <4>5, <6>1
        <5>2. i - n = j - n
          BY <1>1, <3>3, <4>1, <5>1, AnswersFit
        <5> QED BY <3>3, <5>2
      <4> QED BY <4>1, <4>2, <4>3, <4>4, <4>5 DEF Apart
    <3> QED BY <3>7, <3>8, <3>9
  <2>5. ASSUME NEW f \in Frames, writeQueue' = Append(writeQueue, f), Fresh(f), ~Flush
        PROVE  WireInv'
    <3>1. PICK n \in Nat : n = Len(writeQueue)
      BY <1>1
    <3>2. /\ Len(writeQueue') = n + 1 /\ writeQueue'[n + 1] = f
          /\ \A i \in 1..n : writeQueue'[i] = writeQueue[i]
      BY <1>1, <2>5, <3>1, AppendProperties
    <3>3. ASSUME NEW i \in 1..n
          PROVE  /\ i \in Positions
                 /\ \E g \in Frames : /\ g = writeQueue[i] /\ g = writeQueue'[i] /\ FrameTrue(g)' /\ g # f
                                      /\ g.kind = "prompt" => prompts'[g.of].session = prompts[g.of].session
                                      /\ g.kind = "close" => closes'[g.of].session = closes[g.of].session
      BY <3>1, <2>1, <2>5, <3>2, QueuedStays DEF Positions, Fresh
    <3> SUFFICES ASSUME NEW i \in 1..n + 1, NEW j \in 1..n + 1
                 PROVE  FrameTrue(writeQueue[i])' /\ Apart(i, j)'
      BY <3>1, <3>2, WireParts DEF Positions
    <3>4. CASE i \in 1..n /\ j \in 1..n
      <4>1. Apart(i, j)
        BY <1>1, <3>3, <3>4, WireParts
      <4> QED BY <3>3, <3>4, <4>1 DEF Apart
    <3>5. CASE i \in 1..n /\ j = n + 1
      BY <3>2, <3>5, <3>3 DEF Apart
    <3>6. CASE i = n + 1 /\ j \in 1..n
      BY <2>5, <3>2, <3>6, <1>1, <3>3, WireParts DEF Fresh, Frames, FrameTrue, Closing, Apart
    <3>7. CASE i = n + 1 /\ j = n + 1
      BY <2>5, <3>2, <3>7 DEF Fresh, Apart
    <3> QED BY <3>4, <3>5, <3>6, <3>7
  <2> QED BY <2>1, <2>2, <2>3, <2>4, <2>5, AppendsFresh
<1> QED BY <1>2, <1>3

-------------------------------------------------------------------------------
(* Turns and the Sessions they hold. *)
LEMMA FlushPrompt ==
  ASSUME TypeOK, WireInv, Flush
  PROVE  /\ UNCHANGED <<prompts, active>>
         /\ \/ UNCHANGED turn
            \/ \E p \in Prompts : /\ prompts[p].state = "requested" /\ active[prompts[p].session] = p
                                  /\ turn' = [turn EXCEPT ![p] = "running"]
<1>1. PICK f \in Frames : Head(writeQueue) = f /\ writeQueue[1] = f /\ 1 \in Positions
  BY FlushHead
<1>2. CASE f.kind = "prompt" /\ prompts[f.of].state = "requested"
  <2>1. f.of \in Prompts /\ active[prompts[f.of].session] = f.of
    BY <1>1, <1>2 DEF Frames, WireInv, FrameTrue
  <2>2. turn' = [turn EXCEPT ![f.of] = "running"]
    BY <1>1, <1>2 DEF Flush
  <2> QED BY <1>2, <2>1, <2>2 DEF Flush
<1>3. CASE ~(f.kind = "prompt" /\ prompts[f.of].state = "requested")
  BY <1>1, <1>3 DEF Flush, Frames, agentVars
<1> QED BY <1>2, <1>3

TurnTrue(p) ==
  /\ prompts[p].state = "idle" => turn[p] = "none"
  /\ prompts[p].state # "idle" => prompts[p].session \in Sessions
  /\ prompts[p].state \in {"responded", "checkpoint", "acknowledged"} => turn[p] = "ended"
  /\ open /\ turn[p] = "running" => /\ prompts[p].state \in {"requested", "detached"}
                                    /\ active[prompts[p].session] = p

LEMMA TurnParts ==
  /\ TurnInv <=> (\A p \in Prompts : TurnTrue(p)) /\ OneTurnPerSession
  /\ TurnInv' <=> (\A p \in Prompts : TurnTrue(p)') /\ OneTurnPerSession'
  BY DEF TurnInv, TurnTrue

(* Turns go on without a client, or as before. *)
LEMMA ClosedTurns ==
  ASSUME Inv, [Next]_vars, ~open'
  PROVE  UNCHANGED turn
<1>1. CASE ~open
  BY <1>1, ClosedSteps DEF agentVars
<1>2. CASE open
  <2>1. Fail \/ Close \/ DispatchFails \/ (\E k \in Requests : HandlerContinues(k))
    BY <1>2, ZenonT(60) DEF Next, vars, Initialize, InitializeSettles, Dispatch, DispatchNotification, DispatchAnswered,
       DispatchHandled, ReceiveNotification, ReceiveRequest, HandlerSettles, ClaimEvents, ConsumerNext, Prompt,
       PromptDetaches, CheckpointGivesUp, PromptContinues, PromptResolves, PromptAnswered, CancelSession,
       CancelNotifies, CloseSession, CloseRequests, CloseGivesUp, CloseAnswered, Flush
  <2> QED BY <2>1 DEF Fail, Close, DispatchFails, HandlerContinues, agentVars
<1> QED BY <1>1, <1>2

LEMMA TurnTrueStep ==
  ASSUME Inv, [Next]_vars, NEW j \in Prompts
  PROVE  TurnTrue(j)'
<1>1. /\ TypeOK /\ EventInv /\ WireInv /\ TurnTrue(j) /\ NoPrompt \notin Prompts
      /\ prompts \in [Prompts -> PromptRecord] /\ prompts[j] \in PromptRecord
      /\ active \in [Sessions -> Prompts \cup {NoPrompt}]
      /\ turn \in [Prompts -> {"none", "running", "closed", "ended"}]
  BY NullAssumption, TurnParts DEF Inv, NullAssumption, TypeOK
<1>2. open' => open /\ ~End
  BY OpenBefore
<1>3. CASE End
  BY <1>3, ClosedTurns, <1>1 DEF End, PromptRecord, Waiting, TurnTrue
<1>4. CASE UNCHANGED <<prompts, active, turn>>
  BY <1>1, <1>2, <1>4 DEF TurnTrue
<1>5. CASE Flush
  BY <1>1, <1>2, <1>5, FlushPrompt DEF TurnTrue
<1>6. CASE ConsumerNext
  BY <1>1, <1>6, <1>2 DEF ConsumerNext, PromptRecord, sessVars, agentVars, TurnTrue
<1>7. ASSUME NEW p \in Prompts, NEW s \in Sessions, Prompt(p, s)
      PROVE  TurnTrue(j)'
  BY <1>7, <1>1, <1>2 DEF Prompt, agentVars, PromptRecord, TurnTrue
<1>8. ASSUME NEW p \in Prompts, NEW new \in PromptRecord, Moves(p, new), PromptTurns(p, new)
      PROVE  TurnTrue(j)'
  BY <1>1, <1>8, <1>2 DEF Moves, TurnTrue, PromptTurns, Finish
<1>9. ASSUME NEW x \in Closes, NEW ok \in BOOLEAN, CloseAnswered(x, ok)
      PROVE  TurnTrue(j)'
  BY <1>9, <1>1, <1>2 DEF CloseAnswered, TurnTrue
<1> QED BY <1>1, <1>3, <1>4, <1>5, <1>6, <1>7, <1>8, <1>9, TurnMoves

LEMMA TurnStep ==
  ASSUME Inv, [Next]_vars
  PROVE  TurnInv'
<1>1. \A p \in Prompts : TurnTrue(p)'
  BY TurnTrueStep
<1>2. OneTurnPerSession'
  <2>1. CASE open'
    BY <1>1, <2>1 DEF OneTurnPerSession, TurnTrue
  <2>2. CASE ~open'
    <3>1. UNCHANGED turn
      BY <2>2, ClosedTurns
    <3>2. ASSUME NEW p \in Prompts, NEW s \in Sessions, Prompt(p, s) PROVE FALSE
      BY <2>2, <3>2 DEF Prompt, RequireReady
    <3>3. \A p \in Prompts : prompts'[p].session = prompts[p].session
      BY <3>2, PromptSession DEF Inv
    <3> QED BY <3>1, <3>3 DEF Inv, TurnInv, OneTurnPerSession
  <2> QED BY <2>1, <2>2
<1> QED BY <1>1, <1>2, TurnParts

LEMMA ActiveStep ==
  ASSUME Inv, [Next]_vars
  PROVE  ActiveInv'
<1>1. /\ TypeOK /\ EventInv /\ WireInv /\ TurnInv /\ ActiveInv /\ NoPrompt \notin Prompts
      /\ prompts \in [Prompts -> PromptRecord] /\ active \in [Sessions -> Prompts \cup {NoPrompt}]
  BY NullAssumption DEF Inv, NullAssumption, TypeOK
<1> SUFFICES ASSUME open', NEW s \in Sessions, active'[s] # NoPrompt
             PROVE  /\ prompts'[active'[s]].state \in Waiting \cup {"acknowledged", "detached"}
                    /\ prompts'[active'[s]].session = s
  BY DEF ActiveInv
<1>2. open /\ ~End
  BY OpenBefore
<1>3. /\ active[s] # NoPrompt => /\ prompts[active[s]].state \in Waiting \cup {"acknowledged", "detached"}
                                 /\ prompts[active[s]].session = s
      /\ active[s] \in Prompts \cup {NoPrompt}
  BY <1>1, <1>2 DEF ActiveInv
<1>4. CASE UNCHANGED <<prompts, active, turn>>
  BY <1>3, <1>4
<1>5. CASE Flush
  BY <1>1, <1>3, <1>5, FlushPrompt
<1>6. CASE ConsumerNext
  BY <1>3, <1>6, <1>1 DEF ConsumerNext, sessVars, PromptRecord
<1>7. ASSUME NEW p \in Prompts, NEW r \in Sessions, Prompt(p, r)
      PROVE  /\ prompts'[active'[s]].state \in Waiting \cup {"acknowledged", "detached"}
             /\ prompts'[active'[s]].session = s
  BY <1>7, <1>1, <1>3 DEF Prompt, PromptRecord, Waiting
<1>8. ASSUME NEW p \in Prompts, NEW new \in PromptRecord, Moves(p, new), PromptTurns(p, new)
      PROVE  /\ prompts'[active'[s]].state \in Waiting \cup {"acknowledged", "detached"}
             /\ prompts'[active'[s]].session = s
  BY <1>1, <1>3, <1>8 DEF PromptTurns, Finish, Moves, Waiting
<1>9. ASSUME NEW x \in Closes, NEW ok \in BOOLEAN, CloseAnswered(x, ok)
      PROVE  UNCHANGED prompts /\ active'[s] = active[s]
  BY <1>1, <1>9 DEF CloseAnswered
<1> QED BY <1>1, <1>2, <1>3, <1>4, <1>5, <1>6, <1>7, <1>8, <1>9, TurnMoves

-------------------------------------------------------------------------------
(* closeSession() and the close at the Agent. *)
LEMMA NewQueue ==
  ASSUME Inv, [Next]_vars, open, ~End, NEW i \in Positions'
  PROVE  \E f \in Frames :
           /\ f = writeQueue'[i]
           /\ \/ \E j \in Positions : f = writeQueue[j] /\ (Flush => j # 1)
              \/ f.kind = "answer"
              \/ Fresh(f)
<1>1. TypeOK /\ writeQueue \in Seq(Frames) /\ Len(writeQueue) \in Nat
  BY LenProperties DEF Inv, TypeOK
<1>2. CASE Flush
  BY <1>1, <1>2, FlushHead DEF Positions
<1>3. CASE UNCHANGED writeQueue /\ ~Flush
  BY <1>1, <1>3 DEF Positions
<1>4. ASSUME NEW s \in Sessions, NEW q \in Answerable(s), SettlePermissions(s, q), ~Flush
      PROVE  \E f \in Frames : /\ f = writeQueue'[i]
                               /\ f.kind = "answer" \/ \E j \in Positions : f = writeQueue[j]
  <2>1. PICK fs \in Seq(Frames) : /\ fs = AnswerFrames(q) /\ Len(fs) = Len(q) /\ Len(fs) \in Nat
                                  /\ \A j \in 1..Len(fs) : fs[j] = [kind |-> "answer", of |-> q[j]]
    BY <1>1, FramesOfAnswers, AnswersFit
  <2>2. writeQueue' = writeQueue \o fs
    BY <1>4, <2>1 DEF SettlePermissions
  <2>3. /\ Len(writeQueue \o fs) = Len(writeQueue) + Len(fs)
        /\ \A j \in 1..Len(writeQueue) + Len(fs) :
             (writeQueue \o fs)[j] = IF j <= Len(writeQueue) THEN writeQueue[j] ELSE fs[j - Len(writeQueue)]
    BY <1>1, <2>1, ConcatProperties, ZenonT(60)
  <2>4. i \in 1..Len(writeQueue) + Len(fs)
    BY <2>2, <2>3 DEF Positions
  <2>5. CASE i <= Len(writeQueue)
    BY <1>1, <2>1, <2>2, <2>3, <2>4, <2>5, SMTT(30) DEF Positions
  <2>6. CASE ~(i <= Len(writeQueue))
    <3>1. i - Len(writeQueue) \in 1..Len(fs)
      BY <1>1, <2>1, <2>4, <2>6
    <3>2. writeQueue'[i] = fs[i - Len(writeQueue)] /\ fs[i - Len(writeQueue)] \in Frames
      BY <2>1, <2>2, <2>3, <2>4, <2>6, <3>1
    <3> QED BY <2>1, <3>1, <3>2
  <2> QED BY <2>5, <2>6
<1>5. ASSUME NEW f \in Frames, writeQueue' = Append(writeQueue, f), Fresh(f), ~Flush
      PROVE  \E g \in Frames : g = writeQueue'[i] /\ (Fresh(g) \/ \E j \in Positions : g = writeQueue[j])
  BY <1>1, <1>5, AppendProperties DEF Positions
<1> QED BY <1>2, <1>3, <1>4, <1>5, AppendsFresh

(* The step of one closeSession(): its entry goes on, ends or begins. *)
CloseMove(x, new) ==
  /\ closes' = [closes EXCEPT ![x] = new]
  /\ \/ /\ Closing(x) /\ new.state \in {"settling", "requested", "detached"}
        /\ new.session = closes[x].session /\ closing' = closing
     \/ /\ Closing(x) /\ new.state \in {"resolved", "rejected"}
        /\ new.session = closes[x].session /\ closing' = closing \ {closes[x].session}
     \/ /\ ~Closing(x) /\ new.state = "settling" /\ open
        /\ new.session \in Sessions \ closing /\ closing' = closing \cup {new.session}
     \/ ~Closing(x) /\ new.state \notin {"settling", "requested", "detached"} /\ closing' = closing

LEMMA ClosesMove ==
  ASSUME TypeOK, [Next]_vars, ~End
  PROVE  UNCHANGED <<closes, closing>> \/ \E x \in Closes : \E new \in CloseRecord : CloseMove(x, new)
<1>1. closes \in [Closes -> CloseRecord]
  BY DEF TypeOK
<1>2. ASSUME NEW x \in Closes, NEW st \in {"requested", "rejected", "detached", "resolved"},
             closes' = [closes EXCEPT ![x].state = st]
      PROVE  \E new \in CloseRecord : /\ closes' = [closes EXCEPT ![x] = new]
                                      /\ new.state = st /\ new.session = closes[x].session
  <2>1. PICK new : new = [closes[x] EXCEPT !.state = st]
    OBVIOUS
  <2>2. new \in CloseRecord /\ new.state = st /\ new.session = closes[x].session
    BY <1>1, <2>1 DEF CloseRecord
  <2> QED BY <1>2, <2>1, <2>2
<1>3. ASSUME NEW x \in Closes, NEW s \in Sessions, NEW q \in Answerable(s), CloseSession(x, s, q)
      PROVE  \E new \in CloseRecord : CloseMove(x, new)
  <2>1. PICK new : new = [session |-> s, state |-> IF AllAnswered(s, q) THEN "settling" ELSE "rejected",
                          answers |-> Mine(s)]
    OBVIOUS
  <2>2. new \in CloseRecord /\ new.session = s /\ new.state = IF AllAnswered(s, q) THEN "settling" ELSE "rejected"
    BY <2>1 DEF CloseRecord, Mine, TypeOK
  <2>3. /\ closes' = [closes EXCEPT ![x] = new] /\ ~Closing(x) /\ s \notin closing /\ open
        /\ closing' = IF AllAnswered(s, q) THEN closing \cup {s} ELSE closing
    BY <1>3, <2>1 DEF CloseSession, Closing, RequireReady
  <2> QED BY <2>2, <2>3 DEF CloseMove
<1>4. ASSUME NEW x \in Closes, CloseRequests(x)
      PROVE  \E new \in CloseRecord : CloseMove(x, new)
  <2>1. Closing(x)
    BY <1>4 DEF CloseRequests, Closing
  <2>2. CASE closes' = [closes EXCEPT ![x].state = "requested"] /\ closing' = closing
    <3>1. PICK new \in CloseRecord : /\ closes' = [closes EXCEPT ![x] = new]
                                     /\ new.state = "requested" /\ new.session = closes[x].session
      BY <1>2, <2>2
    <3> QED BY <2>1, <2>2, <3>1 DEF CloseMove
  <2>3. CASE closes' = [closes EXCEPT ![x].state = "rejected"] /\ closing' = closing \ {closes[x].session}
    <3>1. PICK new \in CloseRecord : /\ closes' = [closes EXCEPT ![x] = new]
                                     /\ new.state = "rejected" /\ new.session = closes[x].session
      BY <1>2, <2>3
    <3> QED BY <2>1, <2>3, <3>1 DEF CloseMove
  <2> QED BY <1>4, <2>2, <2>3 DEF CloseRequests
<1>5. ASSUME NEW x \in Closes, CloseGivesUp(x)
      PROVE  \E new \in CloseRecord : CloseMove(x, new)
  <2>1. Closing(x) /\ closes' = [closes EXCEPT ![x].state = "detached"] /\ closing' = closing
    BY <1>5 DEF CloseGivesUp, Closing, sessVars
  <2>2. PICK new \in CloseRecord : /\ closes' = [closes EXCEPT ![x] = new]
                                   /\ new.state = "detached" /\ new.session = closes[x].session
    BY <1>2, <2>1
  <2> QED BY <2>1, <2>2 DEF CloseMove
<1>6. ASSUME NEW x \in Closes, NEW ok \in BOOLEAN, CloseAnswered(x, ok)
      PROVE  UNCHANGED <<closes, closing>> \/ \E new \in CloseRecord : CloseMove(x, new)
  <2>1. CASE closes[x].state = "requested"
    <3>1. \/ closes' = [closes EXCEPT ![x].state = "resolved"]
          \/ closes' = [closes EXCEPT ![x].state = "rejected"]
      BY <1>6, <2>1 DEF CloseAnswered
    <3>2. PICK new \in CloseRecord : /\ closes' = [closes EXCEPT ![x] = new]
                                     /\ new.state \in {"resolved", "rejected"} /\ new.session = closes[x].session
      BY <1>2, <3>1
    <3> QED BY <1>6, <2>1, <3>2 DEF CloseMove, CloseAnswered, Closing
  <2>2. CASE closes[x].state # "requested"
    BY <1>6, <2>2 DEF CloseAnswered
  <2> QED BY <2>1, <2>2
<1> QED BY <1>3, <1>4, <1>5, <1>6, CloseChanges DEF Flush

LEMMA CloseStep ==
  ASSUME Inv, [Next]_vars
  PROVE  CloseInv'
<1>1. TypeOK /\ CloseInv /\ WireInv /\ closes \in [Closes -> CloseRecord]
  BY DEF Inv, TypeOK
<1>2. ASSUME End
      PROVE  \A x \in Closes : Closing(x)' => Closing(x) /\ closes'[x].session = closes[x].session
  BY <1>1, <1>2 DEF End, Closing, CloseRecord
<1>3. ASSUME NEW x \in Closes, NEW new \in CloseRecord, CloseMove(x, new)
      PROVE  \A y \in Closes : closes'[y] = IF y = x THEN new ELSE closes[y]
  BY <1>1, <1>3 DEF CloseMove
<1>4. (\A x \in Closes : Closing(x)' => closes'[x].session \in Sessions)
      /\ \A x, y \in Closes : Closing(x)' /\ Closing(y)' /\ closes'[x].session = closes'[y].session => x = y
  BY <1>1, <1>2, <1>3, ClosesMove DEF CloseInv, Closing, CloseMove
<1>5. ASSUME open', NEW s \in Sessions
      PROVE  s \in closing' <=> \E x \in Closes : closes'[x].session = s /\ Closing(x)'
  BY <1>1, <1>5, OpenBefore, <1>3, ClosesMove DEF CloseInv, Closing, CloseMove
<1>6. ASSUME open', NEW x \in atAgent'
      PROVE  AtAgent(x)'
  <2>1. open /\ ~End /\ atAgent \subseteq Closes
    BY <1>1, <1>6, OpenBefore DEF TypeOK
  <2>2. CASE x \in atAgent
    <3>1. x \in Closes /\ AtAgent(x)
      BY <1>1, <2>1, <2>2 DEF CloseInv
    <3>2. ~\E ok \in BOOLEAN : CloseAnswered(x, ok)
      BY <1>6 DEF CloseAnswered
    <3>3. closes'[x].session = closes[x].session /\ closes'[x].state \in {"requested", "detached"}
      BY <2>1, <3>1, <3>2, CloseFrameStays DEF AtAgent
    <3> SUFFICES ASSUME NEW i \in Positions'
                 PROVE  /\ writeQueue'[i].kind = "prompt" => prompts'[writeQueue'[i].of].session # closes'[x].session
                        /\ writeQueue'[i].kind = "close" => writeQueue'[i].of # x
      BY <3>3 DEF AtAgent
    <3>4. PICK f \in Frames : /\ f = writeQueue'[i]
                              /\ \/ \E j \in Positions : f = writeQueue[j] /\ (Flush => j # 1)
                                 \/ f.kind = "answer"
                                 \/ Fresh(f)
      BY <2>1, NewQueue
    <3>5. ASSUME NEW j \in Positions, f = writeQueue[j], Flush => j # 1
          PROVE  /\ f.kind = "prompt" => prompts'[f.of].session # closes'[x].session
                 /\ f.kind = "close" => f.of # x
      BY <2>1, <3>5, QueuedStays, <3>1, <3>3 DEF AtAgent
    <3>6. CASE Fresh(f)
      BY <3>1, <3>6, <3>4 DEF AtAgent, Closing, Fresh
    <3> QED BY <3>4, <3>5, <3>6
  <2>3. CASE x \notin atAgent
    <3>1. Flush
      BY <1>6, <2>1, <2>3, CloseChanges DEF CloseSession, CloseRequests, CloseGivesUp, CloseAnswered, agentVars
    <3>2. PICK h \in Frames : Head(writeQueue) = h /\ writeQueue[1] = h /\ 1 \in Positions
      BY <1>1, <3>1, FlushHead
    <3>3. h = [kind |-> "close", of |-> x] /\ closes[x].state = "requested" /\ x \in Closes
      BY <1>6, <2>3, <3>1, <3>2 DEF Flush, Frames, agentVars
    <3>4. UNCHANGED <<closes, prompts>>
      BY <3>1 DEF Flush
    <3> SUFFICES ASSUME NEW i \in Positions'
                 PROVE  /\ writeQueue'[i].kind = "prompt" => prompts[writeQueue'[i].of].session # closes[x].session
                        /\ writeQueue'[i].kind = "close" => writeQueue'[i].of # x
      BY <3>3, <3>4 DEF AtAgent
    <3>5. writeQueue'[i] = writeQueue[i + 1] /\ i + 1 \in Positions /\ i \in Nat /\ i # 0
      BY <1>1, <3>1, FlushHead, LenProperties DEF TypeOK, Positions
    <3>6. i + 1 # 1 /\ ~(i + 1 < 1)
      BY <3>5
    <3>7. writeQueue[i + 1] \in Frames
      BY <1>1, <3>5 DEF TypeOK, Positions
    <3>8. writeQueue[i + 1].kind = "prompt" => prompts[writeQueue[i + 1].of].session # closes[x].session
      BY <3>2, <3>3, <1>1, <3>5, <3>6 DEF WireInv
    <3>9. writeQueue[i + 1].kind = "close" => writeQueue[i + 1].of # x
      BY <1>1, <3>2, <3>5, <3>6, <3>3, <3>7 DEF WireInv, Frames
    <3> QED BY <3>5, <3>8, <3>9
  <2> QED BY <2>2, <2>3
<1> QED BY <1>4, <1>5, <1>6 DEF CloseInv

-------------------------------------------------------------------------------
(* The invariant. *)
LEMMA InitInv == Init => Inv
<1> SUFFICES ASSUME Init PROVE Inv
  OBVIOUS
<1>1. /\ open /\ writeQueue = <<>> /\ Len(writeQueue) = 0 /\ inbound = <<>> /\ Len(inbound) = 0
      /\ values = <<>> /\ Len(values) = 0 /\ Positions = {} /\ atAgent = {} /\ pendingPermissions = {}
      /\ sequence = 0 /\ received = 0 /\ acknowledged = 0 /\ held = 0 /\ consumer = "unclaimed"
  BY DEF Init, Positions
<1>2. TypeOK
  <2>1. SessTyped /\ AgentTyped /\ EventTyped /\ InTyped /\ QueueTyped
    BY <1>1, LimitsAssumption DEF Init, LimitsAssumption, SessTyped, AgentTyped, EventTyped, InTyped, QueueTyped
  <2>2. CallTyped
    BY LimitsAssumption DEF Init, LimitsAssumption, CallTyped, PromptRecord, CancelRecord, CloseRecord, Waiting
  <2>3. PermTyped
    BY DEF Init, PermTyped, RequestRecord
  <2> QED BY <2>1, <2>2, <2>3, TypeParts
<1>3. RequestInv
  BY <1>1 DEF Init, RequestInv, RequestTrue
<1>4. InboundInv /\ WireInv
  BY <1>1 DEF InboundInv, WireInv
<1>5. TurnInv /\ ActiveInv
  BY DEF Init, TurnInv, ActiveInv, OneTurnPerSession
<1>6. CloseInv /\ CancelInv
  BY <1>1 DEF Init, CloseInv, Closing, CancelInv, Cancelling
<1>7. CountInv
  BY FS_EmptySet DEF Init, Ops, CountInv
<1>8. EventInv /\ DueInv /\ ClosedInv
  BY <1>1 DEF Init, EventInv, DueInv, DueTrue, ClosedInv
<1> QED BY <1>2, <1>3, <1>4, <1>5, <1>6, <1>7, <1>8 DEF Inv

LEMMA InvIsKept == Inv /\ [Next]_vars => Inv'
  BY TypeIsKept, RequestStep, InboundStep, WireStep, TurnStep, ActiveStep, CloseStep, CancelStep, CountStep,
     EventStep, DueStep, ClosedStep DEF Inv

LEMMA InvAlways == Spec => []Inv
  BY InitInv, InvIsKept, PTL DEF Spec

LEMMA InvIsSound == Inv => TurnsSound
<1> SUFFICES ASSUME Inv PROVE TurnsSound
  OBVIOUS
<1>1. TypeOK /\ OneTurnPerSession
  BY DEF Inv, TurnInv
<1>2. AnsweredOnce
  BY DEF Inv, RequestInv, RequestTrue, AnsweredOnce
<1>3. BlockedForAReason
  BY DEF Inv, BlockedForAReason, ActiveInv, CountInv, CloseInv, Closing, Ops
<1> QED BY <1>1, <1>2, <1>3 DEF TurnsSound

(* For any Sessions, calls, requests and limits: the tables of AcpClient agree with its calls, the  *)
(* Agent never runs two turns of a Session for one client, and no request is answered twice.        *)
(* transport-acp/src/client.ts.                                                                     *)
THEOREM TurnsAreSound == Spec => []TurnsSound
  BY InvAlways, InvIsSound, PTL

-------------------------------------------------------------------------------
(* What a step may do. *)
CancelHit ==
  \A c \in Cancels : Notified(c) =>
    \A p \in Prompts : turn[p] = "running" /\ prompts[p].session = cancels[c].session => p \in cancels[c].begun

CancelledFirst ==
  \A c \in Cancels : Notified(c) =>
    \A k \in cancels[c].answers : requests[k].state = "answered" /\ requests[k].answers = <<"cancelled">>

AfterItsEvents ==
  \A p \in Prompts :
    prompts[p].state # "resolved" /\ prompts'[p].state = "resolved" /\ consumer # "unclaimed"
    => prompts[p].due <= acknowledged

LEMMA CancelOrder == Inv => CancelHit /\ CancelledFirst
  BY DEF Inv, CancelInv, Cancelling, CancelTrue, Notified, CancelHit, CancelledFirst

LEMMA EventOrder ==
  ASSUME Inv, [Next]_vars
  PROVE  AfterItsEvents
<1>1. TypeOK /\ DueInv /\ prompts \in [Prompts -> PromptRecord] /\ sequence \in Nat /\ acknowledged \in Nat
  BY DEF Inv, TypeOK
<1> SUFFICES ASSUME NEW p \in Prompts, prompts[p].state # "resolved", prompts'[p].state = "resolved",
                    consumer # "unclaimed"
             PROVE  prompts[p].due <= acknowledged
  BY DEF AfterItsEvents
<1>2. prompts[p] \in PromptRecord /\ prompts[p].due \in Nat
  BY <1>1 DEF PromptRecord
<1>3. CASE UNCHANGED prompts
  BY <1>3
<1>4. CASE Drops
  BY <1>1, <1>4 DEF Drops, End, PromptRecord
<1>5. CASE ConsumerNext
  BY <1>1, <1>5 DEF ConsumerNext, PromptRecord
<1>6. ASSUME NEW j \in Prompts, NEW s \in Sessions, Prompt(j, s)
      PROVE  FALSE
  BY <1>1, <1>6 DEF Prompt, PromptRecord
<1>7. ASSUME NEW j \in Prompts, PromptDetaches(j) \/ CheckpointGivesUp(j)
      PROVE  FALSE
  BY <1>1, <1>7 DEF PromptDetaches, CheckpointGivesUp, PromptRecord
<1>8. ASSUME NEW j \in Prompts, NEW ok \in BOOLEAN, PromptAnswered(j, ok)
      PROVE  FALSE
  BY <1>1, <1>8 DEF PromptAnswered, PromptRecord
<1>9. ASSUME NEW j \in Prompts, PromptContinues(j)
       PROVE  prompts[p].due <= acknowledged
  BY <1>1, <1>9, ReleasedIsDue, <1>2 DEF PromptContinues, PromptRecord
<1>10. ASSUME NEW j \in Prompts, PromptResolves(j)
       PROVE  prompts[p].due <= acknowledged
  BY <1>1, <1>10 DEF PromptResolves, DueInv, DueTrue
<1> QED BY <1>3, <1>4, <1>5, <1>6, <1>7, <1>8, <1>9, <1>10, PromptChanges

(* For any constants: session/cancel reaches no turn begun after cancelSession(), and goes out after *)
(* the cancelled answers; a prompt resolves after the events the Agent sent before its answer, if    *)
(* somebody takes them. transport-acp/src/client.ts.                                                 *)
THEOREM StepsAreInOrder == Spec => StepsInOrder
<1>1. Inv /\ [Next]_vars => [CancelHit /\ CancelledFirst /\ AfterItsEvents]_vars
  BY CancelOrder, EventOrder
<1>2. Spec => [][CancelHit /\ CancelledFirst /\ AfterItsEvents]_vars
  BY <1>1, InvAlways, PTL DEF Spec
<1>3. StepsInOrder <=> [][CancelHit]_vars /\ [][CancelledFirst]_vars /\ [][AfterItsEvents]_vars
  BY DEF StepsInOrder, CancelHitsItsTurn, PermissionsCancelledFirst, PromptAfterItsEvents, CancelHit,
         CancelledFirst, AfterItsEvents
<1> QED BY <1>2, <1>3, PTL

================================================================================
