------------------------------- MODULE AcpClient -------------------------------
(* The class AcpClient of transport-acp: sessions, prompts, cancellation, permissions and events    *)
(* of the Agent Client Protocol over a JsonRpcStdioTransport. The transport is here what the client *)
(* can tell of it: a bounded FIFO of outbound frames, a FIFO of inbound messages, and the barrier    *)
(* of requestAfterInbound, which JsonRpcTransport models in detail. Validation of a message appears  *)
(* as its outcome. Requests without any effect on the client's tables (session/new, load, resume,   *)
(* list, delete and extensions) appear only in Fail, which an invalid answer to them leads to.      *)
EXTENDS Naturals, Sequences, FiniteSets, Functions

CONSTANTS
  Sessions, NoSession,  \* NoSession: what an extension request is about
  Prompts, NoPrompt,    \* calls of prompt()
  Cancels,              \* calls of cancelSession()
  Closes,               \* calls of closeSession()
  Requests, NoRequest,  \* requests of the Agent
  MaxPendingWrites, MaxBufferedEvents,
  MaxInbound            \* bound: messages the Agent sends

ASSUME LimitsAssumption ==
  MaxPendingWrites \in Nat \ {0} /\ MaxBufferedEvents \in Nat \ {0} /\ MaxInbound \in Nat
ASSUME NullAssumption ==
  NoSession \notin Sessions /\ NoPrompt \notin Prompts /\ NoRequest \notin Requests

VARIABLES
  open, initialized,
  active,               \* activePromptSessions: the prompt whose token it holds
  cancelling,           \* cancellingSessions
  cancelOps,            \* cancellationOperations
  closing,              \* closingSessions
  prompts, cancels, closes,  \* the calls and their promises
  requests,             \* what became of each request of the Agent
  pendingPermissions,
  writeQueue,           \* outbound frames not flushed
  inbound, received,    \* inbound messages not dispatched; how many there were
  values, sequence, acknowledged, held, consumer,  \* EventQueue and the iterator of events()
  turn, atAgent         \* the Agent: its turns, and the session/close requests it has not answered

sessVars  == <<active, cancelling, cancelOps, closing>>
callVars  == <<prompts, cancels, closes>>
permVars  == <<requests, pendingPermissions>>
inVars    == <<inbound, received>>
eventVars == <<values, sequence, acknowledged, held, consumer>>
agentVars == <<turn, atAgent>>
vars == <<open, initialized, sessVars, callVars, permVars, writeQueue, inVars, eventVars, agentVars>>

Waiting == {"requested", "responded", "checkpoint"}
Outcomes == {"cancelled", "decision", "error"}
Frames == [kind : {"prompt"}, of : Prompts] \cup [kind : {"answer"}, of : Requests]
          \cup [kind : {"cancel"}, of : Cancels] \cup [kind : {"close"}, of : Closes]

PromptRecord ==
  [session : Sessions \cup {NoSession}, ok : BOOLEAN, target : 0..MaxInbound, due : 0..MaxInbound,
   state : Waiting \cup {"idle", "acknowledged", "resolved", "rejected", "detached"}]
CancelRecord ==
  [session : Sessions \cup {NoSession}, answers : SUBSET Requests, begun : SUBSET Prompts,
   state : {"idle", "settling", "notifying", "resolved", "rejected"}]
CloseRecord ==
  [session : Sessions \cup {NoSession}, answers : SUBSET Requests,
   state : {"idle", "settling", "requested", "resolved", "rejected", "detached"}]
RequestRecord ==
  [session : Sessions \cup {NoSession}, handler : {"none", "running", "decision", "error", "done"},
   state : {"none", "received", "open", "answering", "answered", "refused", "released"},
   answers : Seq(Outcomes)]

TypeOK ==
  /\ open \in BOOLEAN /\ initialized \in {"no", "attempted", "ready"}
  /\ active \in [Sessions -> Prompts \cup {NoPrompt}] /\ cancelOps \in [Sessions -> Nat]
  /\ cancelling \subseteq Sessions /\ closing \subseteq Sessions
  /\ prompts \in [Prompts -> PromptRecord] /\ cancels \in [Cancels -> CancelRecord]
  /\ closes \in [Closes -> CloseRecord]
  /\ requests \in [Requests -> RequestRecord] /\ pendingPermissions \subseteq Requests
  /\ writeQueue \in Seq(Frames) /\ Len(writeQueue) <= MaxPendingWrites
  /\ inbound \in Seq([event : BOOLEAN, request : Requests \cup {NoRequest}])
  /\ received \in 0..MaxInbound /\ Len(inbound) <= received
  /\ values \in Seq(1..MaxInbound) /\ Len(values) <= MaxBufferedEvents
  /\ {sequence, acknowledged, held} \subseteq 0..MaxInbound
  /\ consumer \in {"unclaimed", "idle", "waiting", "yielded", "ended"}
  /\ turn \in [Prompts -> {"none", "running", "closed", "ended"}]
  /\ atAgent \subseteq Closes

Init ==
  /\ open = TRUE /\ initialized = "no"
  /\ active = [s \in Sessions |-> NoPrompt] /\ cancelOps = [s \in Sessions |-> 0]
  /\ cancelling = {} /\ closing = {}
  /\ prompts = [p \in Prompts |->
       [session |-> NoSession, state |-> "idle", ok |-> FALSE, target |-> 0, due |-> 0]]
  /\ cancels = [c \in Cancels |->
       [session |-> NoSession, state |-> "idle", answers |-> {}, begun |-> {}]]
  /\ closes = [x \in Closes |-> [session |-> NoSession, state |-> "idle", answers |-> {}]]
  /\ requests = [k \in Requests |->
       [session |-> NoSession, state |-> "none", handler |-> "none", answers |-> <<>>]]
  /\ pendingPermissions = {} /\ writeQueue = <<>> /\ inbound = <<>> /\ received = 0
  /\ values = <<>> /\ sequence = 0 /\ acknowledged = 0 /\ held = 0 /\ consumer = "unclaimed"
  /\ turn = [p \in Prompts |-> "none"] /\ atAgent = {}

-------------------------------------------------------------------------------
(* What runs when. Promise continuations run before the next callback of the event loop, in the     *)
(* order they were scheduled: the one of a prompt whose barrier is released comes before the next   *)
(* message is dispatched, and timers and write callbacks come after both.                           *)
Dispatched == received - Len(inbound)

(* Mutant: the prompt is an ordinary request, whose response settles it at once. *)
Unordered == {p \in Prompts : prompts[p].state = "responded"}

Released == {p \in Prompts : prompts[p].state = "responded" /\ prompts[p].target <= Dispatched}
Quiet == inbound = <<>> /\ Released = {}

(* requireReadyCapabilities() of a client that may be used. *)
RequireReady == open /\ initialized = "ready"

(* Mutant: the limit is off by one. *)
OneTooMany == Len(writeQueue) <= MaxPendingWrites

WriteRoom == Len(writeQueue) < MaxPendingWrites
EventRoom == consumer = "waiting" \/ Len(values) < MaxBufferedEvents

(* The end of the connection, for the client and its transport: every call is rejected, permissions *)
(* are released, both queues are emptied.                                                           *)
End ==
  /\ open' = FALSE
  /\ prompts' = [p \in Prompts |-> IF prompts[p].state \in Waiting
                                   THEN [prompts[p] EXCEPT !.state = "rejected"] ELSE prompts[p]]
  /\ cancels' = [c \in Cancels |-> IF cancels[c].state \in {"settling", "notifying"}
                                   THEN [cancels[c] EXCEPT !.state = "rejected"] ELSE cancels[c]]
  /\ closes' = [x \in Closes |-> IF closes[x].state \in {"settling", "requested"}
                                 THEN [closes[x] EXCEPT !.state = "rejected"] ELSE closes[x]]
  /\ requests' = [k \in Requests |-> IF requests[k].state \in {"received", "open", "answering"}
                                     THEN [requests[k] EXCEPT !.state = "released"] ELSE requests[k]]
  /\ pendingPermissions' = {} /\ writeQueue' = <<>> /\ inbound' = <<>> /\ values' = <<>>
  /\ consumer' = IF consumer = "waiting" THEN "ended" ELSE consumer

(* fail(), for a transport that ended, an invalid message or result, a failed handler task. The     *)
(* tables stay as they are: nothing reads them any more.                                            *)
Fail ==
  /\ open
  /\ End
  /\ UNCHANGED <<initialized, sessVars, received, sequence, acknowledged, held, agentVars>>

(* close(), by the host or by return() and throw() of the iterator. *)
Close ==
  /\ open
  /\ End
  /\ active' = [s \in Sessions |-> NoPrompt] /\ cancelOps' = [s \in Sessions |-> 0]
  /\ cancelling' = {} /\ closing' = {}
  /\ UNCHANGED <<initialized, received, sequence, acknowledged, held, agentVars>>

Initialize ==
  /\ open /\ initialized = "no"
  /\ initialized' = "attempted"
  /\ UNCHANGED <<open, sessVars, callVars, permVars, writeQueue, inVars, eventVars, agentVars>>

(* A rejected attempt stays the only one. *)
InitializeSettles ==
  /\ open /\ initialized = "attempted"
  /\ initialized' = "ready"
  /\ UNCHANGED <<open, sessVars, callVars, permVars, writeQueue, inVars, eventVars, agentVars>>

-------------------------------------------------------------------------------
(* Permissions and cancellation. *)

(* Mutant: a prompt that ends clears the mark although a cancellation is in progress. *)
ClearWithPrompt(s, act, ops) ==
  cancelling' = IF act[s] = NoPrompt THEN cancelling \ {s} ELSE cancelling

(* maybeClearCancellation, after a step that leaves act and ops. *)
MaybeClearCancellation(s, act, ops) ==
  cancelling' = IF act[s] = NoPrompt /\ ops[s] = 0 THEN cancelling \ {s} ELSE cancelling

(* Mutant: only the prompt clears the mark. *)
EndSilently(s) ==
  /\ cancelOps' = [cancelOps EXCEPT ![s] = @ - 1]
  /\ UNCHANGED cancelling

(* endCancellationOperation *)
EndCancellation(s) ==
  /\ cancelOps' = [cancelOps EXCEPT ![s] = @ - 1]
  /\ MaybeClearCancellation(s, active, [cancelOps EXCEPT ![s] = @ - 1])

Mine(s) == {k \in pendingPermissions : requests[k].session = s}

(* settleSessionPermissions: every pending permission of s is released, and answered as cancelled   *)
(* as far as the transport takes the frames. The order of the Map is left open: q is any choice of  *)
(* the answers that are taken.                                                                      *)
Room == MaxPendingWrites - Len(writeQueue)
Answerable(s) == {q \in UNION {Injection(1..n, Mine(s)) : n \in 0..Room} :
                    Len(q) = Room \/ Range(q) = Mine(s)}
AnswerFrames(q) == [i \in 1..Len(q) |-> [kind |-> "answer", of |-> q[i]]]

(* Mutant: the permissions are answered, and stay pending. *)
SettleKeeping(s, q) ==
  /\ UNCHANGED pendingPermissions
  /\ requests' = [k \in Requests |->
       IF k \in Range(q)
       THEN [requests[k] EXCEPT !.state = "answering", !.answers = Append(@, "cancelled")] ELSE requests[k]]
  /\ writeQueue' = writeQueue \o AnswerFrames(q)

SettlePermissions(s, q) ==
  /\ pendingPermissions' = pendingPermissions \ Mine(s)
  /\ requests' = [k \in Requests |->
       IF k \in Mine(s)
       THEN [requests[k] EXCEPT !.state = IF k \in Range(q) THEN "answering" ELSE "refused",
                                !.answers = Append(@, "cancelled")]
       ELSE requests[k]]
  /\ writeQueue' = writeQueue \o AnswerFrames(q)

AllAnswered(s, q) == Range(q) = Mine(s)

(* q: the permissions that are answered. *)
CancelSession(c, s, q) ==
  /\ cancels[c].state = "idle" /\ RequireReady
  /\ SettlePermissions(s, q)
  /\ cancels' = [cancels EXCEPT ![c] =
       [session |-> s, state |-> IF AllAnswered(s, q) THEN "settling" ELSE "rejected",
        answers |-> Mine(s), begun |-> {p \in Prompts : prompts[p].session = s}]]
  /\ IF AllAnswered(s, q)
     THEN /\ cancelling' = cancelling \cup {s}
          /\ cancelOps' = [cancelOps EXCEPT ![s] = @ + 1]
     ELSE /\ cancelling' = IF active[s] = NoPrompt /\ cancelOps[s] = 0
                           THEN cancelling \ {s} ELSE cancelling \cup {s}
          /\ UNCHANGED cancelOps
  /\ UNCHANGED <<open, initialized, active, closing, prompts, closes, inVars, eventVars, agentVars>>

(* The answers a cancelSession() or closeSession() awaits have been flushed. *)
Flushed(answers) == \A k \in answers : requests[k].state # "answering"

CancelNotifies(c) ==
  /\ cancels[c].state = "settling" /\ Flushed(cancels[c].answers)
  /\ IF WriteRoom
     THEN /\ cancels' = [cancels EXCEPT ![c].state = "notifying"]
          /\ writeQueue' = Append(writeQueue, [kind |-> "cancel", of |-> c])
          /\ UNCHANGED <<cancelOps, cancelling>>
     ELSE /\ cancels' = [cancels EXCEPT ![c].state = "rejected"]
          /\ EndCancellation(cancels[c].session)
          /\ UNCHANGED writeQueue
  /\ UNCHANGED <<open, initialized, active, closing, prompts, closes, permVars, inVars, eventVars, agentVars>>

CloseSession(x, s, q) ==
  /\ closes[x].state = "idle" /\ RequireReady /\ s \notin closing
  /\ SettlePermissions(s, q)
  /\ closes' = [closes EXCEPT ![x] =
       [session |-> s, state |-> IF AllAnswered(s, q) THEN "settling" ELSE "rejected",
        answers |-> Mine(s)]]
  /\ closing' = IF AllAnswered(s, q) THEN closing \cup {s} ELSE closing
  /\ UNCHANGED <<open, initialized, active, cancelling, cancelOps, prompts, cancels, inVars,
                 eventVars, agentVars>>

CloseRequests(x) ==
  /\ closes[x].state = "settling" /\ Flushed(closes[x].answers)
  /\ IF WriteRoom
     THEN /\ closes' = [closes EXCEPT ![x].state = "requested"]
          /\ writeQueue' = Append(writeQueue, [kind |-> "close", of |-> x])
          /\ UNCHANGED closing
     ELSE /\ closes' = [closes EXCEPT ![x].state = "rejected"]
          /\ closing' = closing \ {closes[x].session}
          /\ UNCHANGED writeQueue
  /\ UNCHANGED <<open, initialized, active, cancelling, cancelOps, prompts, cancels, permVars,
                 inVars, eventVars, agentVars>>

(* The timer or the signal ends the local wait: the session stays closing. *)
CloseGivesUp(x) ==
  /\ Quiet /\ closes[x].state = "requested"
  /\ closes' = [closes EXCEPT ![x].state = "detached"]
  /\ UNCHANGED <<open, initialized, sessVars, prompts, cancels, permVars, writeQueue, inVars,
                 eventVars, agentVars>>

(* The Agent answers session/close; when it agrees, it has ended the turns of the session. The      *)
(* answer to a detached wait is unmatched.                                                          *)
CloseAnswered(x, ok) ==
  LET s == closes[x].session IN
  /\ open /\ x \in atAgent
  /\ atAgent' = atAgent \ {x}
  /\ turn' = [p \in Prompts |-> IF ok /\ prompts[p].session = s /\ turn[p] = "running"
                                THEN "closed" ELSE turn[p]]
  /\ IF closes[x].state = "requested"
     THEN /\ closes' = [closes EXCEPT ![x].state = IF ok THEN "resolved" ELSE "rejected"]
          /\ closing' = closing \ {s}
          /\ active' = IF ok THEN [active EXCEPT ![s] = NoPrompt] ELSE active
          /\ IF ok THEN MaybeClearCancellation(s, [active EXCEPT ![s] = NoPrompt], cancelOps)
             ELSE UNCHANGED cancelling
     ELSE UNCHANGED <<closes, closing, active, cancelling>>
  /\ UNCHANGED <<open, initialized, cancelOps, prompts, cancels, permVars, writeQueue, inVars, eventVars>>

-------------------------------------------------------------------------------
(* prompt(). A call that is refused (a session that is taken, invalid input, a full transport) leaves *)
(* the tables as they were.                                                                         *)
Prompt(p, s) ==
  /\ prompts[p].state = "idle" /\ RequireReady
  /\ active[s] = NoPrompt /\ s \notin cancelling /\ s \notin closing
  /\ WriteRoom
  /\ active' = [active EXCEPT ![s] = p]
  /\ prompts' = [prompts EXCEPT ![p].state = "requested", ![p].session = s]
  /\ writeQueue' = Append(writeQueue, [kind |-> "prompt", of |-> p])
  /\ UNCHANGED <<open, initialized, cancelling, cancelOps, closing, cancels, closes, permVars, inVars,
                 eventVars, agentVars>>

(* Mutant: the entry is deleted whichever prompt holds it. *)
FinishAny(p) ==
  LET s    == prompts[p].session
      left == [active EXCEPT ![s] = NoPrompt]
  IN active' = left /\ MaybeClearCancellation(s, left, cancelOps)

(* The finally block of a prompt that did not detach. *)
Finish(p) ==
  LET s    == prompts[p].session
      left == IF active[s] = p THEN [active EXCEPT ![s] = NoPrompt] ELSE active
  IN active' = left /\ MaybeClearCancellation(s, left, cancelOps)

(* The timer or the signal, before the response: the remote turn may go on, the session stays. *)
PromptDetaches(p) ==
  /\ Quiet /\ prompts[p].state = "requested"
  /\ prompts' = [prompts EXCEPT ![p].state = "detached"]
  /\ UNCHANGED <<open, initialized, sessVars, cancels, closes, permVars, writeQueue, inVars,
                 eventVars, agentVars>>

(* Mutant: the deadline ends with the response. *)
TimerCleared(p) ==
  /\ Quiet /\ prompts[p].state = "checkpoint"
  /\ UNCHANGED vars

(* The same after the response, while events are not acknowledged. *)
CheckpointGivesUp(p) ==
  /\ Quiet /\ prompts[p].state = "checkpoint"
  /\ prompts' = [prompts EXCEPT ![p].state = "rejected"]
  /\ Finish(p)
  /\ UNCHANGED <<open, initialized, cancelOps, closing, cancels, closes, permVars, writeQueue, inVars,
                 eventVars, agentVars>>

(* The response of the Agent. The barrier holds it until what came before is dispatched. *)
EventsReceived == sequence + Cardinality({i \in DOMAIN inbound : inbound[i].event})

PromptAnswered(p, ok) ==
  /\ open /\ turn[p] \in {"running", "closed"}
  /\ turn' = [turn EXCEPT ![p] = "ended"]
  /\ prompts' = IF prompts[p].state # "requested" THEN prompts
                ELSE [prompts EXCEPT ![p].state = "responded", ![p].ok = ok,
                                     ![p].target = received, ![p].due = EventsReceived]
  /\ UNCHANGED <<open, initialized, sessVars, cancels, closes, permVars, writeQueue, inVars,
                 eventVars, atAgent>>

AtCheckpoint == Cardinality({p \in Prompts : prompts[p].state = "checkpoint"})

(* The continuation of the response: it waits for the events up to the checkpoint, if they have a   *)
(* consumer, the deadline has not passed and the signal is not aborted.                             *)
PromptContinues(p) ==
  /\ p \in Released
  /\ \/ /\ prompts[p].ok /\ (consumer = "unclaimed" \/ sequence <= acknowledged)
        /\ prompts' = [prompts EXCEPT ![p].state = "resolved"]
        /\ Finish(p)
     \/ /\ prompts[p].ok /\ consumer # "unclaimed" /\ sequence > acknowledged
        /\ AtCheckpoint < MaxBufferedEvents
        /\ prompts' = [prompts EXCEPT ![p].state = "checkpoint", ![p].target = sequence]
        /\ UNCHANGED <<active, cancelling>>
     \/ /\ ~prompts[p].ok \/ consumer # "unclaimed"
        /\ prompts' = [prompts EXCEPT ![p].state = "rejected"]
        /\ Finish(p)
  /\ UNCHANGED <<open, initialized, cancelOps, closing, cancels, closes, permVars, writeQueue, inVars,
                 eventVars, agentVars>>

PromptResolves(p) ==
  /\ prompts[p].state = "acknowledged"
  /\ prompts' = [prompts EXCEPT ![p].state = "resolved"]
  /\ Finish(p)
  /\ UNCHANGED <<open, initialized, cancelOps, closing, cancels, closes, permVars, writeQueue, inVars,
                 eventVars, agentVars>>

-------------------------------------------------------------------------------
(* Outbound frames. *)

(* The stream has taken the frame at the head. A request that was given up is skipped. *)
Flush ==
  LET f == Head(writeQueue) IN
  /\ Quiet /\ writeQueue # <<>>
  /\ writeQueue' = Tail(writeQueue)
  /\ CASE f.kind = "prompt" ->
            /\ turn' = IF prompts[f.of].state = "requested"
                       THEN [turn EXCEPT ![f.of] = "running"] ELSE turn
            /\ UNCHANGED <<requests, cancels, atAgent, cancelOps, cancelling>>
       [] f.kind = "close" ->
            /\ atAgent' = IF closes[f.of].state = "requested" THEN atAgent \cup {f.of} ELSE atAgent
            /\ UNCHANGED <<requests, cancels, turn, cancelOps, cancelling>>
       [] f.kind = "answer" ->
            /\ requests' = [requests EXCEPT ![f.of].state = "answered"]
            /\ UNCHANGED <<cancels, agentVars, cancelOps, cancelling>>
       [] f.kind = "cancel" ->
            /\ cancels' = [cancels EXCEPT ![f.of].state = "resolved"]
            /\ EndCancellation(cancels[f.of].session)
            /\ UNCHANGED <<requests, agentVars>>
  /\ UNCHANGED <<open, initialized, active, closing, prompts, closes, pendingPermissions, inVars, eventVars>>

-------------------------------------------------------------------------------
(* Inbound messages. *)

CanReceive == open /\ received < MaxInbound

(* session/update, or a notification the client does not know. *)
ReceiveNotification ==
  /\ CanReceive
  /\ received' = received + 1
  /\ inbound' = Append(inbound, [event |-> TRUE, request |-> NoRequest])
  /\ UNCHANGED <<open, initialized, sessVars, callVars, permVars, writeQueue, eventVars, agentVars>>

(* session/request_permission for s, an extension request, or a request the client does not know,   *)
(* which is observed.                                                                               *)
ReceiveRequest(k, s, unknown) ==
  /\ CanReceive /\ requests[k].state = "none"
  /\ unknown => s = NoSession
  /\ received' = received + 1
  /\ inbound' = Append(inbound, [event |-> unknown, request |-> k])
  /\ requests' = [requests EXCEPT ![k].state = "received", ![k].session = s]
  /\ UNCHANGED <<open, initialized, sessVars, callVars, pendingPermissions, writeQueue, eventVars, agentVars>>

(* EventQueue.push *)
Push ==
  /\ sequence' = sequence + 1
  /\ IF consumer = "waiting"
     THEN consumer' = "yielded" /\ held' = sequence + 1 /\ UNCHANGED values
     ELSE values' = Append(values, sequence + 1) /\ UNCHANGED <<consumer, held>>
  /\ UNCHANGED acknowledged

(* respond() or respondError() of k. *)
Answer(k, outcome) ==
  /\ requests' = [requests EXCEPT ![k].state = "answering", ![k].answers = Append(@, outcome)]
  /\ writeQueue' = Append(writeQueue, [kind |-> "answer", of |-> k])

(* dispatch() takes the next message. What cannot be stored or answered fails the connection. *)
MayDispatch == inbound # <<>> /\ Released = {}

DispatchFails ==
  /\ MayDispatch
  /\ \/ Head(inbound).event /\ ~EventRoom /\ sequence' = sequence + 1
     \/ Head(inbound).request # NoRequest /\ ~WriteRoom /\ UNCHANGED sequence
  /\ End
  /\ UNCHANGED <<initialized, sessVars, received, acknowledged, held, agentVars>>

DispatchNotification ==
  /\ MayDispatch /\ Head(inbound).request = NoRequest /\ EventRoom
  /\ Push
  /\ inbound' = Tail(inbound)
  /\ UNCHANGED <<open, initialized, sessVars, callVars, permVars, writeQueue, received, agentVars>>

(* A request that is answered at once: unknown, with invalid parameters, without a handler, or of a *)
(* session that is being cancelled or closed.                                                       *)
AnsweredAtOnce(s) == s \in cancelling \cup closing

DispatchAnswered(outcome) ==
  LET m == Head(inbound) IN
  /\ MayDispatch /\ m.request # NoRequest /\ WriteRoom
  /\ outcome = "cancelled" => AnsweredAtOnce(requests[m.request].session)
  /\ Answer(m.request, outcome)
  /\ IF m.event THEN EventRoom /\ Push ELSE UNCHANGED eventVars
  /\ inbound' = Tail(inbound)
  /\ UNCHANGED <<open, initialized, sessVars, callVars, pendingPermissions, received, agentVars>>

(* A request whose handler is called; permissions are registered. *)
DispatchHandled ==
  LET k == Head(inbound).request
      s == requests[k].session
  IN
  /\ MayDispatch /\ k # NoRequest /\ ~Head(inbound).event /\ ~AnsweredAtOnce(s)
  /\ requests' = [requests EXCEPT ![k].state = "open", ![k].handler = "running"]
  /\ pendingPermissions' = IF s \in Sessions THEN pendingPermissions \cup {k} ELSE pendingPermissions
  /\ inbound' = Tail(inbound)
  /\ UNCHANGED <<open, initialized, sessVars, callVars, writeQueue, received, eventVars, agentVars>>

HandlerSettles(k, result) ==
  /\ requests[k].handler = "running"
  /\ requests' = [requests EXCEPT ![k].handler = result]
  /\ UNCHANGED <<open, initialized, sessVars, callVars, pendingPermissions, writeQueue, inVars,
                 eventVars, agentVars>>

(* Mutant: a permission is answered without asking whether it still is pending. *)
StillOwed(k) == requests[k].state # "released"

(* releasePendingPermission; an extension request is nobody else's to answer. *)
Owed(k) == k \in pendingPermissions \/ (requests[k].session = NoSession /\ open)

(* After the race: the first of handler and settlement has won. *)
HandlerContinues(k) ==
  /\ requests[k].handler \in {"decision", "error"}
  /\ \/ /\ Owed(k) /\ WriteRoom
        /\ requests' = [requests EXCEPT ![k].handler = "done", ![k].state = "answering",
                                        ![k].answers = Append(@, requests[k].handler)]
        /\ writeQueue' = Append(writeQueue, [kind |-> "answer", of |-> k])
        /\ pendingPermissions' = pendingPermissions \ {k}
        /\ UNCHANGED <<open, callVars, inbound, values, consumer>>
     \/ /\ Owed(k) /\ ~WriteRoom
        /\ End
     \/ /\ ~Owed(k)
        /\ requests' = [requests EXCEPT ![k].handler = "done"]
        /\ UNCHANGED <<open, callVars, pendingPermissions, writeQueue, inbound, values, consumer>>
  /\ UNCHANGED <<initialized, sessVars, received, sequence, acknowledged, held, agentVars>>

-------------------------------------------------------------------------------
(* The iterator of events(). *)

ClaimEvents ==
  /\ consumer = "unclaimed" /\ consumer' = "idle"
  /\ UNCHANGED <<open, initialized, sessVars, callVars, permVars, writeQueue, inVars, values, sequence,
                 acknowledged, held, agentVars>>

(* next(): it acknowledges what the consumer held, which releases the prompts that wait for it. *)
ConsumerNext ==
  LET upTo == IF consumer = "yielded" THEN held ELSE acknowledged IN
  /\ consumer \in {"idle", "yielded"}
  /\ acknowledged' = upTo
  /\ prompts' = [p \in Prompts |-> IF prompts[p].state = "checkpoint" /\ prompts[p].target <= upTo
                                   THEN [prompts[p] EXCEPT !.state = "acknowledged"] ELSE prompts[p]]
  /\ IF values # <<>>
     THEN consumer' = "yielded" /\ held' = Head(values) /\ values' = Tail(values)
     ELSE consumer' = (IF open THEN "waiting" ELSE "ended") /\ UNCHANGED <<held, values>>
  /\ UNCHANGED <<open, initialized, sessVars, cancels, closes, permVars, writeQueue, inVars, sequence, agentVars>>

-------------------------------------------------------------------------------
Dispatch == DispatchFails \/ DispatchNotification \/ DispatchHandled
            \/ \E outcome \in {"cancelled", "error"} : DispatchAnswered(outcome)

Next ==
  \/ Initialize \/ InitializeSettles \/ Fail \/ Close
  \/ Dispatch \/ Flush \/ ReceiveNotification \/ ClaimEvents \/ ConsumerNext
  \/ \E p \in Prompts :
       \/ \E s \in Sessions : Prompt(p, s)
       \/ PromptDetaches(p) \/ CheckpointGivesUp(p)
       \/ PromptContinues(p) \/ PromptResolves(p)
       \/ \E ok \in BOOLEAN : PromptAnswered(p, ok)
  \/ \E c \in Cancels :
       \/ \E s \in Sessions : \E q \in Answerable(s) : CancelSession(c, s, q)
       \/ CancelNotifies(c)
  \/ \E x \in Closes :
       \/ \E s \in Sessions : \E q \in Answerable(s) : CloseSession(x, s, q)
       \/ CloseRequests(x) \/ CloseGivesUp(x)
       \/ \E ok \in BOOLEAN : CloseAnswered(x, ok)
  \/ \E k \in Requests :
       \/ \E s \in Sessions \cup {NoSession}, unknown \in BOOLEAN : ReceiveRequest(k, s, unknown)
       \/ \E result \in {"decision", "error"} : HandlerSettles(k, result)
       \/ HandlerContinues(k)

Spec == Init /\ [][Next]_vars

(* Continuations run, timers fire and the stream takes every frame. Nothing is assumed of the       *)
(* Agent, the handlers or the consumer of events.                                                   *)
Fairness ==
  /\ WF_vars(Dispatch) /\ WF_vars(Flush)
  /\ \A p \in Prompts : /\ WF_vars(PromptContinues(p)) /\ WF_vars(PromptResolves(p))
                        /\ WF_vars(PromptDetaches(p)) /\ WF_vars(CheckpointGivesUp(p))
  /\ \A c \in Cancels : WF_vars(CancelNotifies(c))
  /\ \A x \in Closes : WF_vars(CloseRequests(x)) /\ WF_vars(CloseGivesUp(x))
  /\ \A k \in Requests : WF_vars(HandlerContinues(k))

FairSpec == Spec /\ Fairness

-------------------------------------------------------------------------------
(* "Only one prompt may be active for a Session through one client" (README.md:169): the Agent never *)
(* runs two turns of one session, whatever waits were given up, closed or overtaken by late answers. *)
OneTurnPerSession ==
  \A p, q \in Prompts :
    turn[p] = "running" /\ turn[q] = "running" /\ prompts[p].session = prompts[q].session => p = q

(* "An old cancellation cannot target a newly started prompt" (README.md:185): when session/cancel  *)
(* reaches the Agent, the turn that runs there was begun before cancelSession() was called.         *)
Notified(c) == cancels[c].state = "notifying" /\ cancels'[c].state = "resolved"

CancelHitsItsTurn ==
  [][\A c \in Cancels : Notified(c) =>
       \A p \in Prompts : turn[p] = "running" /\ prompts[p].session = cancels[c].session
                          => p \in cancels[c].begun]_vars

(* cancelSession() has the permissions that were pending answered as cancelled before session/cancel *)
(* is sent; the handler that decides meanwhile is too late.                                          *)
PermissionsCancelledFirst ==
  [][\A c \in Cancels : Notified(c) =>
       \A k \in cancels[c].answers : requests[k].state = "answered" /\ requests[k].answers = <<"cancelled">>]_vars

(* A request of the Agent is given one answer. A second one is refused by the transport, and ends    *)
(* the connection.                                                                                   *)
AnsweredOnce == \A k \in Requests : Len(requests[k].answers) <= 1

(* "Prompt settlement also waits until that consumer finishes every ACP event received before the   *)
(* prompt response" (README.md:174).                                                                *)
PromptAfterItsEvents ==
  [][\A p \in Prompts :
       prompts[p].state # "resolved" /\ prompts'[p].state = "resolved" /\ consumer # "unclaimed"
       => prompts[p].due <= acknowledged]_vars

(* A session refuses prompts only for a reason: a prompt that waits or whose turn may go on, a       *)
(* cancellation in progress or of such a prompt, a close in progress or of unknown result.           *)
BlockedForAReason ==
  open => \A s \in Sessions :
    /\ active[s] # NoPrompt => /\ prompts[active[s]].state \in Waiting \cup {"acknowledged", "detached"}
                               /\ prompts[active[s]].session = s
    /\ s \in cancelling => active[s] # NoPrompt \/ cancelOps[s] > 0
    /\ cancelOps[s] = Cardinality({c \in Cancels : cancels[c].session = s
                                                   /\ cancels[c].state \in {"settling", "notifying"}})
    /\ s \in closing <=> \E x \in Closes : /\ closes[x].session = s
                                           /\ closes[x].state \in {"settling", "requested", "detached"}

(* The tables of the client agree with its calls, and every request of the Agent is answered once.  *)
(* transport-acp/src/client.ts.                                                                     *)
TurnsSound == TypeOK /\ OneTurnPerSession /\ BlockedForAReason /\ AnsweredOnce

(* A cancellation reaches the turn it was for, after the permissions it cancels; a prompt settles    *)
(* after the events before its answer. transport-acp/src/client.ts.                                 *)
StepsInOrder == CancelHitsItsTurn /\ PermissionsCancelledFirst /\ PromptAfterItsEvents

(* Every call settles: the requests by their timers, the rest with the writes it waits for. A call   *)
(* begins once, so that none is left pending if time and again none is.                             *)
CallsSettle ==
  []<>(/\ \A p \in Prompts : prompts[p].state \notin Waiting \cup {"acknowledged"}
       /\ \A c \in Cancels : cancels[c].state \notin {"settling", "notifying"}
       /\ \A x \in Closes : closes[x].state \notin {"settling", "requested"})

(* Violated. "Before doing so, it answers every pending permission request for that Session with    *)
(* the required cancelled outcome" (README.md:182): once cancelSession() has sent session/cancel, *)
(* no permission the client took in before the call is left without an answer.                       *)
CancelLeavesNothingOpen ==
  [][\A c \in Cancels : Notified(c) =>
       \A k \in Requests : requests[k].session = cancels[c].session => requests[k].state # "refused"]_vars
================================================================================
