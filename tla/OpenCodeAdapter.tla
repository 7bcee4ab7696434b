---------------------------- MODULE OpenCodeAdapter ----------------------------
(* providers/opencode: the Client over HTTP and Server-Sent Events, its Sessions, forks, Runs and   *)
(* permissions. A Run is one POST whose answer is its result, and one event stream for what happens *)
(* meanwhile. The Provider goes on with a prompt whose answer the Client stopped waiting for.       *)
(*                                                                                                  *)
(* Abstracted: contents; the event queue, which has room or not, as the host reads it or not; and   *)
(* the two delays that bound a wait for an event, which may always elapse first.                    *)
EXTENDS Naturals, Sequences, FiniteSets

CONSTANTS
  Sessions,               \* Sessions the Provider may have
  Handles,                \* HarnessSession objects
  Runs,                   \* startRun calls
  Permissions,            \* permission identifiers of the Provider
  MaxInteractions,        \* bound: interactionSerial
  NoRun, NoSession, NoHandle

ASSUME NullAssumption == NoRun \notin Runs /\ NoSession \notin Sessions /\ NoHandle \notin Handles
ASSUME BoundAssumption == MaxInteractions \in Nat

VARIABLES
  client,                 \* connect(): "none", "probing", "failed"; the Client: "open", "closed"
  transport,              \* "none", "open", "closed"
  handles,                \* per handle: the call that makes it, its Session, markUnsafe()
  closedHandles,          \* handles close() was called on
  activeBySession, knownSessions, quarantinedSessions,
  forks,                  \* per Session: the request its forkSession waits for (forkingSessions)
  runs,                   \* per startRun call: the call, then its OpenCodeRun
  interactions,           \* local id -> Run and permission, and whether the Run was over by then
  pendingByLocalId,       \* local ids
  pendingByProviderId,    \* Session and permission -> local id or 0
  claimed                 \* local ids whose respond() waits for its POST

(* Of the Provider. *)
VARIABLES
  created,                \* its Sessions
  remote,                 \* per Run: its prompt
  remoteForks             \* Sessions it is forking

tables == <<activeBySession, knownSessions, quarantinedSessions>>
inter == <<interactions, pendingByLocalId, pendingByProviderId, claimed>>
provider == <<created, remote, remoteForks>>
vars == <<client, transport, handles, closedHandles, tables, forks, runs, inter, provider>>

Terminals == {"completed", "cancelled", "failed", "connection_aborted"}
CancelWaits == {"starting", "posting", "posted", "acknowledged"}

TypeOK ==
  /\ client \in {"none", "probing", "failed", "open", "closed"}
  /\ transport \in {"none", "open", "closed"}
  /\ handles \in [Handles -> [call: {"free", "create", "status", "get", "made", "refused"},
                              session: Sessions \cup {NoSession}, unsafe: BOOLEAN]]
  /\ closedHandles \subseteq Handles
  /\ activeBySession \in [Sessions -> Runs \cup {NoRun}]
  /\ knownSessions \subseteq created /\ quarantinedSessions \subseteq Sessions
  /\ forks \in [Sessions -> {"none", "status", "get", "post"}]
  /\ runs \in [Runs ->
       [open: {"idle", "opening", "opened", "refused"}, owner: Handles \cup {NoHandle},
        pump: BOOLEAN, result: Terminals \cup {"none"}, prompt: {"none", "waiting", "over"} \cup Terminals,
        cancel: CancelWaits \cup {"none", "native", "connection_aborted", "already_terminal", "error"},
        timedOut: BOOLEAN, resolved: SUBSET (1..MaxInteractions)]]
  /\ interactions \in Seq([run: Runs, permission: Permissions, late: BOOLEAN])
  /\ pendingByLocalId \subseteq 1..Len(interactions) /\ claimed \subseteq 1..Len(interactions)
  /\ pendingByProviderId \in [Sessions \X Permissions -> 0..Len(interactions)]
  /\ created \subseteq Sessions /\ remoteForks \subseteq Sessions
  /\ remote \in [Runs -> {"none", "running", "aborting", "done"}]

Init ==
  /\ client = "none" /\ transport = "none"
  /\ handles = [h \in Handles |-> [call |-> "free", session |-> NoSession, unsafe |-> FALSE]]
  /\ closedHandles = {}
  /\ activeBySession = [s \in Sessions |-> NoRun]
  /\ knownSessions = {} /\ quarantinedSessions = {} /\ forks = [s \in Sessions |-> "none"]
  /\ runs = [r \in Runs |-> [open |-> "idle", owner |-> NoHandle, pump |-> FALSE, result |-> "none",
                             prompt |-> "none", cancel |-> "none", timedOut |-> FALSE, resolved |-> {}]]
  /\ interactions = <<>> /\ pendingByLocalId = {} /\ claimed = {}
  /\ pendingByProviderId = [key \in Sessions \X Permissions |-> 0]
  /\ created = {} /\ remote = [r \in Runs |-> "none"] /\ remoteForks = {}

-------------------------------------------------------------------------------
(* Requests. *)

(* What requestProviderJson makes of one: an answer, a status that says the request itself was      *)
(* wrong (400, 401, 403, 404), another status, an answer out of the protocol or over its limit, or   *)
(* none: the timer, the network, no slot for it, or the end of the transport.                       *)
Answers == {"ok", "rejected", "refused", "incompatible"}
Unanswered == {"timeout", "network"}
Outcomes == IF transport = "open" THEN Answers \cup Unanswered \cup {"capacity"} ELSE {"closed"}

(* Mutant: a timeout is a failure like any other. *)
UncertainButTimeout(outcome) == outcome \in Unanswered \ {"timeout"}

(* uncertainRequestFailure, of an outcome that is no connection_aborted. *)
Uncertain(outcome) == outcome \in Unanswered

SessionOf(r) == handles[runs[r].owner].session
Terminal(r) == runs[r].result # "none"
Usable(h) == handles[h].call = "made" /\ h \notin closedHandles /\ ~handles[h].unsafe
Reusable(s) == forks[s] = "none" /\ s \notin quarantinedSessions
AssertOpen == client = "open" /\ transport = "open"
Busy(s) == \E r \in Runs : runs[r].owner # NoHandle /\ SessionOf(r) = s /\ remote[r] \in {"running", "aborting"}

(* EventQueue: push() has a place, or the host reads too slowly. Terminal events always have one.    *)
Room == BOOLEAN

-------------------------------------------------------------------------------
(* The end of a Run. *)

(* Mutant: a settlement leaves the permissions of its Run. *)
PendingKept(rs) == {i \in pendingByLocalId : interactions[i].run \notin Runs}

PendingOf(rs) == {i \in pendingByLocalId : interactions[i].run \in rs}

Forget(S) ==
  /\ pendingByLocalId' = pendingByLocalId \ S
  /\ pendingByProviderId' = [key \in DOMAIN pendingByProviderId |->
                               IF pendingByProviderId[key] \in S THEN 0 ELSE pendingByProviderId[key]]

(* Mutant: an acknowledged abort counts as a cancelled Run. *)
CancelAcknowledged(cancel, result) ==
  CASE cancel = "starting" -> "already_terminal"
    [] cancel = "acknowledged" -> "native"
    [] OTHER -> cancel

(* What a cancel() gets that waits for the settlement, or for the Provider to start. *)
CancelAfter(cancel, result) ==
  CASE cancel = "starting" -> "already_terminal"
    [] cancel = "acknowledged" /\ result = "cancelled" -> "native"
    [] cancel = "acknowledged" /\ result = "connection_aborted" -> "connection_aborted"
    [] cancel = "acknowledged" /\ result \in {"completed", "failed"} -> "already_terminal"
    [] OTHER -> cancel

(* finish(), which aborts the stream and the prompt, after the interactions are resolved. *)
Finished(run, result, pending) ==
  [run EXCEPT !.result = result, !.prompt = IF @ = "none" THEN @ ELSE "over",
              !.cancel = CancelAfter(@, result), !.resolved = @ \cup pending]

SettledVars == <<activeBySession, quarantinedSessions, handles, pendingByLocalId, pendingByProviderId>>

(* finish of the Runs rs, from the state `now` of them: onRunSettling resolves what of `pending` is  *)
(* theirs; unsafe Sessions are quarantined.                                                         *)
SettleAll(rs, now, pending, result, unsafe) ==
  /\ runs' = [r \in Runs |->
       IF r \in rs THEN Finished(now[r], result, PendingOf({r}) \cap pending) ELSE now[r]]
  /\ activeBySession' = [s \in Sessions |-> IF activeBySession[s] \in rs THEN NoRun ELSE activeBySession[s]]
  /\ quarantinedSessions' = quarantinedSessions \cup (IF unsafe THEN {SessionOf(r) : r \in rs} ELSE {})
  /\ handles' = [h \in Handles |->
       [handles[h] EXCEPT !.unsafe = @ \/ (unsafe /\ \E r \in rs : runs[r].owner = h)]]

(* Mutant: finish() does not ask whether the Run is over. *)
SettleAgain(r, now, result, unsafe) ==
  SettleAll({r}, now, pendingByLocalId, result, unsafe) /\ Forget(PendingOf({r}))

Settle(r, now, result, unsafe) ==
  IF Terminal(r) THEN runs' = now /\ UNCHANGED SettledVars
  ELSE SettleAll({r}, now, pendingByLocalId, result, unsafe) /\ Forget(PendingOf({r}))

(* Mutant: the Session of an aborted Run stays in use. *)
AbortWithoutQuarantine(r, now) == Settle(r, now, "connection_aborted", FALSE)

(* OpenCodeRun.abortConnection, from the state of its Run a step has reached. *)
AbortRun(r, now) == Settle(r, now, "connection_aborted", TRUE)

-------------------------------------------------------------------------------
(* connect() and close(). *)

(* Of connectionOptions and validateProfile, and of resolveHeaders, which asks the host. *)
ProfileOutcomes == {"ok", "profile_invalid", "authentication_failed"}

Connect(profile) ==
  /\ client = "none" /\ profile \in ProfileOutcomes
  /\ IF profile = "ok" THEN client' = "probing" /\ transport' = "open"
     ELSE client' = "failed" /\ UNCHANGED transport
  /\ UNCHANGED <<closedHandles, handles, tables, forks, runs, inter, provider>>

Probed(outcome) ==
  /\ client = "probing" /\ outcome \in Outcomes
  /\ IF outcome = "ok" THEN client' = "open" /\ UNCHANGED transport
     ELSE client' = "failed" /\ transport' = "closed"
  /\ UNCHANGED <<closedHandles, handles, tables, forks, runs, inter, provider>>

ActiveRuns == {r \in Runs : \E s \in Sessions : activeBySession[s] = r}

Close ==
  /\ client = "open"
  /\ client' = "closed" /\ transport' = "closed"
  /\ SettleAll(ActiveRuns, runs, pendingByLocalId, "connection_aborted", TRUE)
  /\ Forget(pendingByLocalId)
  /\ UNCHANGED <<closedHandles, knownSessions, forks, interactions, claimed, provider>>

-------------------------------------------------------------------------------
(* Sessions: create, resume, fork, close. *)

SetCall(h, call, s) == handles' = [handles EXCEPT ![h].call = call, ![h].session = s]

Create(h) ==
  /\ handles[h].call = "free" /\ AssertOpen
  /\ SetCall(h, "create", NoSession)
  /\ UNCHANGED <<client, transport, closedHandles, tables, forks, runs, inter, provider>>

(* The Provider may have made a Session whose id the Client never learns. *)
Created(h, s, outcome) ==
  /\ handles[h].call = "create" /\ outcome \in Outcomes /\ s \notin created
  /\ created' \in {created, created \cup {s}}
  /\ IF outcome = "ok" /\ Reusable(s)
     THEN s \in created' /\ SetCall(h, "made", s) /\ knownSessions' = knownSessions \cup {s}
     ELSE SetCall(h, "refused", NoSession) /\ UNCHANGED knownSessions
  /\ UNCHANGED <<client, transport, closedHandles, activeBySession, quarantinedSessions, forks, runs, inter, remote, remoteForks>>

Resume(h, s) ==
  /\ handles[h].call = "free" /\ s \in created /\ AssertOpen /\ Reusable(s)
  /\ SetCall(h, "status", s)
  /\ UNCHANGED <<client, transport, closedHandles, tables, forks, runs, inter, provider>>

(* Two requests: the status has to be idle, then the Session has to be the same. *)
Resumed(h, outcome, same) ==
  /\ handles[h].call \in {"status", "get"} /\ outcome \in Outcomes
  /\ LET s == handles[h].session IN
     /\ (handles[h].call = "status" /\ Busy(s)) => ~same
     /\ IF outcome # "ok" \/ ~same
        THEN SetCall(h, "refused", s) /\ UNCHANGED knownSessions
        ELSE IF handles[h].call = "status"
             THEN SetCall(h, "get", s) /\ UNCHANGED knownSessions
             ELSE SetCall(h, "made", s) /\ knownSessions' = knownSessions \cup {s}
  /\ UNCHANGED <<client, transport, closedHandles, activeBySession, quarantinedSessions, forks, runs, inter, provider>>

Fork(s) ==
  /\ s \in created /\ AssertOpen /\ Reusable(s) /\ activeBySession[s] = NoRun
  /\ forks' = [forks EXCEPT ![s] = "status"]
  /\ UNCHANGED <<client, transport, closedHandles, handles, tables, runs, inter, provider>>

(* The source is idle and what it was; a source with permissions or a revert is refused (same).      *)
ForkChecked(s, outcome, same) ==
  /\ forks[s] \in {"status", "get"} /\ outcome \in Outcomes
  /\ (forks[s] = "status" /\ Busy(s)) => ~same
  /\ forks' = [forks EXCEPT ![s] =
       IF outcome # "ok" \/ ~same THEN "none" ELSE IF @ = "status" THEN "get"
       ELSE IF AssertOpen THEN "post" ELSE "none"]
  /\ remoteForks' = IF forks'[s] = "post" THEN remoteForks \cup {s} ELSE remoteForks
  /\ UNCHANGED <<client, transport, closedHandles, handles, tables, runs, inter, created, remote>>

(* Mutant: the Session stays reserved when its fork fails. *)
ForkStaysReserved(s, h, child, outcome) ==
  /\ forks[s] = "post" /\ outcome \in Outcomes
  /\ outcome = "ok" => handles[h].call = "free" /\ child \notin created
  /\ IF outcome = "ok" /\ AssertOpen
     THEN /\ created' = created \cup {child} /\ knownSessions' = knownSessions \cup {child}
          /\ SetCall(h, "made", child) /\ forks' = [forks EXCEPT ![s] = "none"]
          /\ remoteForks' = remoteForks \ {s}
     ELSE UNCHANGED <<created, knownSessions, handles, forks, remoteForks>>
  /\ UNCHANGED <<client, transport, closedHandles, activeBySession, quarantinedSessions, runs, inter, remote>>

(* The fork was made and its Session is new, or its outcome is uncertain unless it was rejected.    *)
Forked(s, h, child, outcome) ==
  /\ forks[s] = "post" /\ outcome \in Outcomes
  /\ outcome = "ok" => handles[h].call = "free" /\ child \notin created
  /\ forks' = [forks EXCEPT ![s] = "none"]
  /\ remoteForks' = IF outcome \in Answers \cup {"capacity"} THEN remoteForks \ {s} ELSE remoteForks
  /\ IF outcome = "ok" /\ AssertOpen
     THEN /\ created' = created \cup {child} /\ knownSessions' = knownSessions \cup {child}
          /\ SetCall(h, "made", child) /\ UNCHANGED quarantinedSessions
     ELSE /\ quarantinedSessions' =
               IF outcome = "rejected" THEN quarantinedSessions ELSE quarantinedSessions \cup {s}
          /\ UNCHANGED <<created, knownSessions, handles>>
  /\ UNCHANGED <<client, transport, closedHandles, activeBySession, runs, inter, remote>>

CloseSession(h) ==
  /\ handles[h].call = "made" /\ h \notin closedHandles
  /\ closedHandles' = closedHandles \cup {h}
  /\ LET r == activeBySession[handles[h].session] IN
     IF r # NoRun /\ runs[r].owner = h THEN AbortRun(r, runs) ELSE UNCHANGED <<runs, SettledVars>>
  /\ UNCHANGED <<client, transport, knownSessions, forks, interactions, claimed, provider>>

-------------------------------------------------------------------------------
(* Runs. *)

(* Mutant: only this handle's Runs count. *)
StartUnlessOwnRun(r, h) ==
  /\ runs[r].open = "idle" /\ Usable(h) /\ AssertOpen
  /\ LET s == handles[h].session IN
     /\ Reusable(s) /\ (activeBySession[s] # NoRun => runs[activeBySession[s]].owner # h)
     /\ runs' = [runs EXCEPT ![r].open = "opening", ![r].owner = h]
     /\ activeBySession' = [activeBySession EXCEPT ![s] = r]
  /\ UNCHANGED <<client, transport, closedHandles, handles, knownSessions, quarantinedSessions, forks, inter, provider>>

(* startRun: the Session is taken before its stream is requested. *)
StartRun(r, h) ==
  /\ runs[r].open = "idle" /\ Usable(h) /\ AssertOpen
  /\ LET s == handles[h].session IN
     /\ Reusable(s) /\ activeBySession[s] = NoRun
     /\ runs' = [runs EXCEPT ![r].open = "opening", ![r].owner = h]
     /\ activeBySession' = [activeBySession EXCEPT ![s] = r]
  /\ UNCHANGED <<client, transport, closedHandles, handles, knownSessions, quarantinedSessions, forks, inter, provider>>

(* The first event is server.connected: run.started, the pump, and the prompt. *)
Opened(r) ==
  /\ runs[r].open = "opening" /\ ~Terminal(r) /\ transport = "open"
  /\ runs' = [runs EXCEPT ![r].open = "opened", ![r].pump = TRUE, ![r].prompt = "waiting"]
  /\ remote' = [remote EXCEPT ![r] = "running"]
  /\ UNCHANGED <<client, transport, closedHandles, handles, tables, forks, inter, created, remoteForks>>

(* The stream ends or fails first, begins with another event, or the Run was aborted meanwhile.      *)
OpenFails(r) ==
  /\ runs[r].open = "opening"
  /\ runs' = [runs EXCEPT ![r].open = "refused"]
  /\ activeBySession' = [s \in Sessions |-> IF activeBySession[s] = r THEN NoRun ELSE activeBySession[s]]
  /\ UNCHANGED <<client, transport, closedHandles, handles, knownSessions, quarantinedSessions, forks, inter, provider>>

PromptAnswers == {"MessageAbortedError", "error", "finish error", "finished", "tools settled"}

(* parseOpenCodePromptResponse: an answer out of the protocol, such as one with unsettled tools, is  *)
(* the outcome "incompatible" instead.                                                              *)
StatusOf(answer) ==
  CASE answer = "MessageAbortedError" -> "cancelled"
    [] answer \in {"error", "finish error"} -> "failed"
    [] OTHER -> "completed"

(* executePrompt: a response waits for the events before it; an uncertain failure quarantines.       *)
PromptSettles(r, outcome, answer) ==
  /\ runs[r].prompt = "waiting" /\ outcome \in Outcomes /\ answer \in PromptAnswers
  /\ StatusOf(answer) = "cancelled" => outcome = "ok"
  /\ remote' = IF outcome \in Answers \cup {"capacity"} THEN [remote EXCEPT ![r] = "done"] ELSE remote
  /\ CASE outcome = "ok" ->
            /\ runs' = [runs EXCEPT ![r].prompt = StatusOf(answer)]
            /\ UNCHANGED SettledVars
       [] outcome = "closed" -> AbortRun(r, runs)
       [] OTHER -> Settle(r, runs, "failed", Uncertain(outcome))
  /\ UNCHANGED <<client, transport, closedHandles, knownSessions, forks, interactions, claimed, created, remoteForks>>

(* The Session is idle, or the delay has elapsed. A completed Run first reports its message and     *)
(* usage, for which there may be no room.                                                           *)
RunEnds(r, room) ==
  /\ runs[r].prompt \in Terminals /\ (~room => runs[r].prompt = "completed")
  /\ IF room THEN Settle(r, runs, runs[r].prompt, FALSE) ELSE AbortRun(r, runs)
  /\ UNCHANGED <<client, transport, closedHandles, knownSessions, forks, interactions, claimed, provider>>

(* pump, while its Run is not over. A Run that the pump ends gets no more of the stream.              *)
Streaming(r) == runs[r].open = "opened" /\ ~Terminal(r)
PumpOver(r) == [runs EXCEPT ![r].pump = FALSE]

(* The events that make a difference: of this Session (mine) or of another one in its directory,     *)
(* with the fields of their type or without (valid).                                                *)
Events == [type: {"server.connected", "message", "permission.asked", "permission.replied", "session", "other"},
           mine: BOOLEAN, valid: BOOLEAN]

(* mapOpenCodeEvent: what an event is to the Run. *)
Mapping(e) ==
  IF ~e.mine \/ e.type = "server.connected" THEN "not routed"
  ELSE CASE e.type = "session"                       -> "silent"
         [] e.type = "permission.asked" /\ e.valid   -> "permission"
         [] e.type = "permission.replied" /\ e.valid -> "resolved"
         [] OTHER                                    -> "event"

(* pump: a portable or Provider event, for which the queue may have no room. Others change nothing.  *)
EventArrives(r, e) ==
  /\ Streaming(r) /\ Mapping(e) = "event"
  /\ AbortRun(r, PumpOver(r))
  /\ UNCHANGED <<client, transport, closedHandles, knownSessions, forks, interactions, claimed, provider>>

(* An event out of the protocol (invalid), or the end of the stream. *)
StreamEnds(r, invalid) ==
  /\ Streaming(r)
  /\ IF invalid THEN Settle(r, PumpOver(r), "failed", TRUE) ELSE AbortRun(r, PumpOver(r))
  /\ UNCHANGED <<client, transport, closedHandles, knownSessions, forks, interactions, claimed, provider>>

(* permission.asked and permission.updated: registerPermission, once while it is pending. *)
PermissionAsked(r, e, p, room) ==
  /\ Streaming(r) /\ Mapping(e) = "permission" /\ Len(interactions) < MaxInteractions
  /\ LET key == <<SessionOf(r), p>>
         i   == Len(interactions) + 1
     IN /\ pendingByProviderId[key] = 0
        /\ interactions' = Append(interactions, [run |-> r, permission |-> p, late |-> FALSE])
        /\ IF room
           THEN /\ pendingByLocalId' = pendingByLocalId \cup {i}
                /\ pendingByProviderId' = [pendingByProviderId EXCEPT ![key] = i]
                /\ UNCHANGED <<runs, activeBySession, quarantinedSessions, handles>>
           ELSE AbortRun(r, [runs EXCEPT ![r].pump = FALSE, ![r].resolved = @ \cup {i}])
  /\ UNCHANGED <<client, transport, closedHandles, knownSessions, forks, claimed, provider>>

(* The transport had yielded an event when the Run ended (it asks only before), such as the next of  *)
(* the chunk whose session.idle let executePrompt end it, or after which the host closed the Client: *)
(* the pump takes it, and registers a permission that cannot be answered. It goes with the Client, or *)
(* with a late answer to an earlier registration of it. The event comes before anything else does    *)
(* from the network.                                                                                *)
PermissionAskedLate(r, p) ==
  /\ runs[r].open = "opened" /\ runs[r].pump /\ Terminal(r) /\ Len(interactions) < MaxInteractions
  /\ \A q \in Runs : runs[q].owner # NoHandle /\ SessionOf(q) = SessionOf(r) /\ ~Terminal(q) =>
       runs[q].open \in {"opening", "refused"}
  /\ LET key == <<SessionOf(r), p>>
         i   == Len(interactions) + 1
     IN /\ pendingByProviderId[key] = 0
        /\ interactions' = Append(interactions, [run |-> r, permission |-> p, late |-> TRUE])
        /\ pendingByLocalId' = pendingByLocalId \cup {i}
        /\ pendingByProviderId' = [pendingByProviderId EXCEPT ![key] = i]
        /\ runs' = PumpOver(r)
  /\ UNCHANGED <<client, transport, closedHandles, handles, tables, forks, claimed, provider>>

(* resolvePermission, by the pump or by respond(). *)
Resolve(r, p, room, byPump) ==
  LET i == pendingByProviderId[<<SessionOf(r), p>>] IN
  IF i = 0 \/ (i # 0 /\ interactions[i].run # r)
  THEN UNCHANGED <<runs, SettledVars>>
  ELSE IF Terminal(r)
  THEN Forget({i}) /\ UNCHANGED <<runs, activeBySession, quarantinedSessions, handles>>
  ELSE IF room
  THEN /\ Forget({i}) /\ runs' = [runs EXCEPT ![r].resolved = @ \cup {i}]
       /\ UNCHANGED <<activeBySession, quarantinedSessions, handles>>
  ELSE /\ SettleAll({r}, IF byPump THEN PumpOver(r) ELSE runs, pendingByLocalId \ {i}, "connection_aborted", TRUE)
       /\ Forget(PendingOf({r}))

PermissionReplied(r, e, p, room) ==
  /\ Streaming(r) /\ Mapping(e) = "resolved" /\ pendingByProviderId[<<SessionOf(r), p>>] # 0
  /\ Resolve(r, p, room, TRUE)
  /\ UNCHANGED <<client, transport, closedHandles, knownSessions, forks, interactions, claimed, provider>>

(* respond(): claimed until its POST settles. *)
Respond(h, i) ==
  /\ Usable(h) /\ AssertOpen /\ i \in pendingByLocalId \ claimed
  /\ runs[interactions[i].run].owner = h /\ ~Terminal(interactions[i].run)
  /\ claimed' = claimed \cup {i}
  /\ UNCHANGED <<client, transport, closedHandles, handles, tables, forks, runs, interactions, pendingByLocalId,
                 pendingByProviderId, provider>>

Responded(i, outcome, room) ==
  /\ i \in claimed /\ outcome \in Outcomes
  /\ LET r == interactions[i].run IN
     /\ claimed' = claimed \ {i}
     /\ IF outcome = "ok" THEN Resolve(r, interactions[i].permission, room, FALSE)
        ELSE UNCHANGED <<runs, SettledVars>>
  /\ UNCHANGED <<client, transport, closedHandles, knownSessions, forks, interactions, provider>>

-------------------------------------------------------------------------------
(* cancel(), called by the host or by the timer of the Run. *)

(* The timer finds a cancel() that was rejected: its promise is kept. *)
Cancel(r, timer) ==
  /\ Streaming(r) /\ IF timer THEN ~runs[r].timedOut ELSE runs[r].cancel = "none"
  /\ LET now == [runs EXCEPT ![r].timedOut = @ \/ timer, ![r].cancel = IF @ = "none" THEN "starting" ELSE @]
     IN IF now[r].cancel = "error" THEN AbortRun(r, now)
        ELSE runs' = now /\ UNCHANGED SettledVars
  /\ UNCHANGED <<client, transport, closedHandles, knownSessions, forks, interactions, claimed, provider>>

(* The Provider has started the Run, or the delay has elapsed. *)
CancelPosts(r) ==
  /\ runs[r].cancel = "starting"
  /\ runs' = [runs EXCEPT ![r].cancel = "posting"]
  /\ UNCHANGED <<client, transport, closedHandles, handles, tables, forks, inter, provider>>

(* The route aborts whatever the Session is doing. *)
ProviderAborts(r) ==
  /\ runs[r].cancel = "posting"
  /\ runs' = [runs EXCEPT ![r].cancel = "posted"]
  /\ remote' = [q \in Runs |-> IF runs[q].owner # NoHandle /\ SessionOf(q) = SessionOf(r) /\ remote[q] = "running"
                               THEN "aborting" ELSE remote[q]]
  /\ UNCHANGED <<client, transport, closedHandles, handles, tables, forks, inter, created, remoteForks>>

(* nativeAbort settles, with TRUE or not. *)
CancelAnswered(r, outcome, acknowledged) ==
  /\ runs[r].cancel \in {"posting", "posted"} /\ outcome \in Outcomes
  /\ outcome \in Answers => runs[r].cancel = "posted"
  /\ LET mode == IF outcome = "ok" /\ acknowledged
                 THEN IF Terminal(r) THEN CancelAfter("acknowledged", runs[r].result) ELSE "acknowledged"
                 ELSE IF outcome = "ok" /\ Terminal(r) THEN "already_terminal" ELSE "error"
         now  == [runs EXCEPT ![r].cancel = mode]
     IN IF mode = "error" /\ runs[r].timedOut THEN Settle(r, now, "connection_aborted", TRUE)
        ELSE runs' = now /\ UNCHANGED SettledVars
  /\ UNCHANGED <<client, transport, closedHandles, knownSessions, forks, interactions, claimed, provider>>

(* Settlement takes longer than cancelSettlementTimeoutMs. *)
CancelGivesUp(r) ==
  /\ runs[r].cancel = "acknowledged"
  /\ AbortRun(r, runs)
  /\ UNCHANGED <<client, transport, closedHandles, knownSessions, forks, interactions, claimed, provider>>

(* The Provider ends what nobody waits for any more. *)
RemoteEnds ==
  /\ \/ \E r \in Runs : /\ remote[r] \in {"running", "aborting"} /\ runs[r].prompt = "over"
                        /\ remote' = [remote EXCEPT ![r] = "done"] /\ UNCHANGED remoteForks
     \/ \E s \in remoteForks : forks[s] # "post" /\ remoteForks' = remoteForks \ {s} /\ UNCHANGED remote
  /\ UNCHANGED <<client, transport, closedHandles, handles, tables, forks, runs, inter, created>>

-------------------------------------------------------------------------------
Statuses == Terminals \ {"connection_aborted"}

Request ==
  \/ \E outcome \in Outcomes :
       \/ Probed(outcome)
       \/ \E h \in Handles : \/ \E s \in Sessions : Created(h, s, outcome)
                            \/ \E same \in BOOLEAN : Resumed(h, outcome, same)
       \/ \E i \in claimed, room \in Room : Responded(i, outcome, room)

ForkRequest(s) ==
  \E outcome \in Outcomes :
    \/ \E same \in BOOLEAN : ForkChecked(s, outcome, same)
    \/ \E h \in Handles, child \in Sessions : Forked(s, h, child, outcome)

RunRequest(r) ==
  \E outcome \in Outcomes :
    \/ \E answer \in PromptAnswers : PromptSettles(r, outcome, answer)
    \/ \E acknowledged \in BOOLEAN : CancelAnswered(r, outcome, acknowledged)

RunTimers(r) == CancelPosts(r) \/ CancelGivesUp(r) \/ \E room \in Room : RunEnds(r, room)

PromptSettled(r) == runs[r].prompt = "waiting" /\ RunRequest(r) /\ runs'[r].prompt # "waiting"

CancelSettled(r) == RunRequest(r) /\ runs'[r].cancel # runs[r].cancel

Next ==
  \/ Request \/ Close \/ RemoteEnds \/ \E profile \in ProfileOutcomes : Connect(profile)
  \/ \E h \in Handles : Create(h) \/ CloseSession(h) \/ \E s \in Sessions : Resume(h, s)
  \/ \E s \in Sessions : Fork(s) \/ ForkRequest(s)
  \/ \E r \in Runs :
       \/ \E h \in Handles : StartRun(r, h)
       \/ Opened(r) \/ OpenFails(r) \/ \E invalid \in BOOLEAN : StreamEnds(r, invalid)
       \/ \E e \in Events :
            \/ EventArrives(r, e)
            \/ \E p \in Permissions, room \in Room :
                 PermissionAsked(r, e, p, room) \/ PermissionReplied(r, e, p, room)
       \/ \E p \in Permissions : PermissionAskedLate(r, p)
       \/ \E timer \in BOOLEAN : Cancel(r, timer)
       \/ RunRequest(r) \/ RunTimers(r) \/ ProviderAborts(r)
  \/ \E h \in Handles, i \in pendingByLocalId : Respond(h, i)

Spec == Init /\ [][Next]_vars

(* Requests have a timer in the transport, and the delays elapse. The Provider and the host need do  *)
(* nothing.                                                                                         *)
Fairness ==
  /\ WF_vars(\E outcome \in Outcomes : Probed(outcome))
  /\ \A s \in Sessions : WF_vars(ForkRequest(s))
  /\ \A r \in Runs : WF_vars(PromptSettled(r)) /\ WF_vars(CancelSettled(r)) /\ WF_vars(RunTimers(r))

FairSpec == Spec /\ Fairness

-------------------------------------------------------------------------------
(* "The OpenCode Session cannot be reused after uncertain remote settlement" (sessionUnsafe): the    *)
(* Provider never works on two things of this Client in one Session, a prompt and a prompt or a     *)
(* fork, also when the Client has stopped waiting for the first; and a Client that failed to connect *)
(* or was closed keeps no transport.                                                                *)
SessionsExclusive ==
  /\ TypeOK
  /\ \A s \in Sessions :
       LET working == {r \in Runs : runs[r].owner # NoHandle /\ SessionOf(r) = s
                                     /\ remote[r] \in {"running", "aborting"}}
       IN /\ Cardinality(working) <= (IF s \in remoteForks THEN 0 ELSE 1)
          /\ \A r \in working : Terminal(r) => s \in quarantinedSessions
          /\ s \in remoteForks => forks[s] = "post" \/ s \in quarantinedSessions
  /\ client \in {"failed", "closed"} => transport # "open"

(* A permission is found by its local id exactly when it is found by the Provider's, belongs to a   *)
(* Run that is not over in a Client that is open, and is resolved in the Run's events when the Run   *)
(* is over, unless their queue was full. A late one is found like the others and never reported.     *)
PermissionsSettled ==
  /\ \A i \in pendingByLocalId :
       LET r == interactions[i].run IN
       /\ pendingByProviderId[<<SessionOf(r), interactions[i].permission>>] = i
       /\ i \notin runs[r].resolved
       /\ interactions[i].late \/ (~Terminal(r) /\ activeBySession[SessionOf(r)] = r /\ client = "open")
  /\ \A key \in Sessions \X Permissions :
       pendingByProviderId[key] # 0 => pendingByProviderId[key] \in pendingByLocalId
  /\ \A i \in 1..Len(interactions) :
       runs[interactions[i].run].result \in Statuses /\ ~interactions[i].late =>
         i \in runs[interactions[i].run].resolved

(* cancel() says what became of the Run: cancelled natively, its connection aborted, or over by     *)
(* itself; a Run whose timer found the abort refused does not go on.                                *)
CancelTruthful ==
  \A r \in Runs :
    /\ runs[r].cancel = "native" => runs[r].result = "cancelled"
    /\ runs[r].cancel = "connection_aborted" => runs[r].result = "connection_aborted"
    /\ runs[r].cancel = "already_terminal" => Terminal(r)
    /\ runs[r].cancel = "error" /\ runs[r].timedOut => Terminal(r)

(* A Run that was started ends, a cancel() and a fork settle, whatever the Provider answers.        *)
OperationsSettle ==
  /\ \A r \in Runs : /\ runs[r].open = "opened" ~> Terminal(r)
                     /\ runs[r].cancel \in CancelWaits ~> runs[r].cancel \notin CancelWaits
  /\ \A s \in Sessions : forks[s] # "none" ~> forks[s] = "none"

Contract == INSTANCE RunContract WITH
  Interactions <- 1..MaxInteractions,
  status <- [r \in Runs |-> IF runs[r].open # "opened" THEN "none"
                             ELSE IF Terminal(r) THEN runs[r].result ELSE "active"],
  requested <- [r \in Runs |-> {i \in 1..Len(interactions) : interactions[i].run = r /\ ~interactions[i].late}],
  resolved <- [r \in Runs |-> runs[r].resolved]

(* The Runs a Client hands out behave as the contract of a Run says; a permission counts as         *)
(* requested when it is registered, also when its event finds the queue full and ends the Run, but   *)
(* not when the Run is over, as there is no event then.                                             *)
ImplementsRunContract == Contract!Spec
===============================================================================
