----------------------------- MODULE HermesAdapter -----------------------------
(* providers/hermes: the Client over HTTP and Server-Sent Events, its Sessions, branches, Runs and  *)
(* approvals. The end of a Run's stream and its terminal event are evidence only: what the Run came *)
(* to is what the Provider answers when it is asked (reconcileTerminal). An approval is answered by *)
(* a POST, and reported by an event, in either order.                                               *)
(*                                                                                                  *)
(* Abstracted: contents; the event queue, which has room or not; the elapsing of delays; subagents.  *)
EXTENDS Naturals, Sequences, FiniteSets

CONSTANTS
  Sessions,               \* Sessions the Provider may have
  Handles,                \* HarnessSession objects
  Runs,                   \* startRun calls
  MaxApprovals,           \* bound: approvals the Provider asks for
  SupportsCancel, SupportsApproval,   \* features of the capability document
  NoRun, NoSession, NoHandle

ASSUME NullAssumption == NoRun \notin Runs /\ NoSession \notin Sessions /\ NoHandle \notin Handles
ASSUME BoundAssumption == MaxApprovals \in Nat
ASSUME CapabilityAssumption == SupportsCancel \in BOOLEAN /\ SupportsApproval \in BOOLEAN

VARIABLES
  client,                 \* connect(): "none", "probing", "failed"; the Client: "open", "closed"
  transport,              \* "none", "open", "closed"
  handles,                \* per handle: the call that makes it, its Session and flags
  startingBySession, activeBySession,
  knownSessions, retiredSessions, quarantinedSessions,
  branches,               \* per Session: the request its branchSession waits for (branchingSessions)
  runs,                   \* per startRun call: the call, then its HermesRun
  pendingApprovals,       \* approvals asked of the host
  responses               \* per approval: its respond()

(* Of the Provider. *)
VARIABLES
  created, branched,      \* its Sessions
  remote,                 \* per Run: its status
  stream,                 \* per Run: its events that have not arrived
  approvals               \* per approval: its Run and decision

tables == <<startingBySession, activeBySession, knownSessions, retiredSessions, quarantinedSessions>>
provider == <<created, branched, remote, stream, approvals>>
vars == <<client, transport, handles, tables, branches, runs, pendingApprovals, responses, provider>>

Statuses == {"completed", "cancelled", "failed"}
Terminals == Statuses \cup {"connection_aborted"}
Choices == {"once", "deny"}
Event == [type: {"request", "responded", "terminal"}, approval: 0..MaxApprovals,
          choice: Choices \cup {"none"}, status: Statuses \cup {"none"}]
Waiting == {"posting", "acknowledged"}

TypeOK ==
  /\ client \in {"none", "probing", "failed", "open", "closed"} /\ transport \in {"none", "open", "closed"}
  /\ handles \in [Handles -> [call: {"free", "create", "resume", "made", "refused"},
                              session: Sessions \cup {NoSession}, closed: BOOLEAN, unsafe: BOOLEAN]]
  /\ startingBySession \in [Sessions -> Runs \cup {NoRun}]
  /\ activeBySession \in [Sessions -> Runs \cup {NoRun}]
  /\ knownSessions \subseteq created /\ retiredSessions \subseteq created /\ quarantinedSessions \subseteq Sessions
  /\ branches \in [Sessions -> {"none", "get", "post"}]
  /\ runs \in [Runs ->
       [start: {"idle", "post", "validate", "started", "refused"}, closed: BOOLEAN,
        owner: Handles \cup {NoHandle}, result: Terminals \cup {"none"}, incompatible: BOOLEAN,
        signal: Statuses \cup {"none"}, pump: {"none", "reading", "stopped"},
        reconcile: {"none", "poll", "settle", "drain"}, answer: Statuses \cup {"none"},
        confirmed: Choices \cup {"none"}, timedOut: BOOLEAN,
        cancel: Waiting \cup {"none", "native", "connection_aborted", "already_terminal", "error"},
        requested: SUBSET (1..MaxApprovals), resolved: SUBSET (1..MaxApprovals)]]
  /\ pendingApprovals \subseteq 1..Len(approvals)
  /\ responses \in [1..MaxApprovals ->
       [at: {"none", "sent", "taken", "gone", "ok", "error"}, choice: Choices \cup {"none"},
        provider: Choices \cup {"none"}]]
  /\ created \subseteq Sessions /\ branched \subseteq created
  /\ remote \in [Runs -> Statuses \cup {"none", "running", "waiting"}]
  /\ stream \in [Runs -> Seq(Event)]
  /\ approvals \in Seq([run: Runs, decision: Choices \cup {"none"}, by: {"none", "host", "other"}])

Init ==
  /\ client = "none" /\ transport = "none"
  /\ handles = [h \in Handles |->
                  [call |-> "free", session |-> NoSession, closed |-> FALSE, unsafe |-> FALSE]]
  /\ startingBySession = [s \in Sessions |-> NoRun] /\ activeBySession = [s \in Sessions |-> NoRun]
  /\ knownSessions = {} /\ retiredSessions = {} /\ quarantinedSessions = {}
  /\ branches = [s \in Sessions |-> "none"]
  /\ runs = [r \in Runs |->
       [start |-> "idle", closed |-> FALSE, owner |-> NoHandle, result |-> "none", incompatible |-> FALSE,
        signal |-> "none", pump |-> "none", reconcile |-> "none", answer |-> "none", confirmed |-> "none",
        timedOut |-> FALSE, cancel |-> "none", requested |-> {}, resolved |-> {}]]
  /\ pendingApprovals = {}
  /\ responses = [n \in 1..MaxApprovals |-> [at |-> "none", choice |-> "none", provider |-> "none"]]
  /\ created = {} /\ branched = {} /\ remote = [r \in Runs |-> "none"]
  /\ stream = [r \in Runs |-> <<>>] /\ approvals = <<>>

-------------------------------------------------------------------------------
(* Requests. *)

(* What requestProviderJson makes of one: an answer, a 4xx status, a 5xx status, an answer out of   *)
(* the protocol, one over its limit, or none.                                                       *)
Answers == {"ok", "refused", "server error", "incompatible", "limit"}
Unanswered == {"timeout", "network", "capacity"}
Outcomes == IF transport = "open" THEN Answers \cup Unanswered ELSE {"closed"}

(* Mutant: an answer that says nothing certain counts as a refusal. *)
UncertainOnlyUnanswered(outcome) == outcome \in Unanswered

(* uncertainMutationFailure; a limit leaves a provider_error that is no status. *)
Uncertain(outcome) == outcome \notin {"ok", "refused"}

SessionOf(r) == handles[runs[r].owner].session
Terminal(r) == runs[r].result # "none"
Usable(h) == handles[h].call = "made" /\ ~handles[h].closed /\ ~handles[h].unsafe
Reusable(s) == branches[s] = "none" /\ s \notin retiredSessions \cup quarantinedSessions
AssertOpen == client = "open" /\ transport = "open"
HasWork(s) == activeBySession[s] # NoRun \/ startingBySession[s] # NoRun

(* EventQueue: push() has a place, or the host reads too slowly. Terminal events always have one.    *)
Room == BOOLEAN

-------------------------------------------------------------------------------
(* The end of a Run. *)

PendingOf(rs) == {n \in pendingApprovals : approvals[n].run \in rs}

(* Mutant: an acknowledged stop counts as a cancelled Run. *)
CancelAcknowledged(cancel, result) == IF cancel = "acknowledged" THEN "native" ELSE cancel

(* What a cancel() gets that waits for the settlement. *)
CancelAfter(cancel, result) ==
  CASE cancel = "acknowledged" /\ result = "cancelled"          -> "native"
    [] cancel = "acknowledged" /\ result = "connection_aborted" -> "connection_aborted"
    [] cancel = "acknowledged" /\ result \in {"completed", "failed"} -> "already_terminal"
    [] OTHER -> cancel

(* Mutant: the approvals of the Run are not looked for. *)
FinishedUnresolved(run, result, pending) ==
  [run EXCEPT !.result = result, !.cancel = CancelAfter(@, result), !.reconcile = "none", !.pump = "stopped"]

(* finish(): the approvals are resolved first. The stream is aborted with it, or right after it.     *)
Finished(run, result, pending) ==
  [run EXCEPT !.result = result, !.cancel = CancelAfter(@, result), !.resolved = @ \cup pending,
              !.reconcile = "none", !.pump = "stopped"]

SettledVars == <<activeBySession, quarantinedSessions, handles, pendingApprovals>>

(* finish of the Runs rs, from the state `now` of them, with onRunSettling; and markSessionUnsafe.    *)
SettleAll(rs, now, result, unsafe) ==
  /\ runs' = [r \in Runs |-> IF r \in rs THEN Finished(now[r], result, PendingOf({r})) ELSE now[r]]
  /\ activeBySession' = [s \in Sessions |-> IF activeBySession[s] \in rs THEN NoRun ELSE activeBySession[s]]
  /\ pendingApprovals' = pendingApprovals \ PendingOf(rs)
  /\ quarantinedSessions' = quarantinedSessions \cup (IF unsafe THEN {SessionOf(r) : r \in rs} ELSE {})
  /\ handles' = [h \in Handles |->
       [handles[h] EXCEPT !.unsafe = @ \/ (unsafe /\ \E r \in rs : runs[r].owner = h)]]

(* Mutant: finish() does not ask whether the Run is over. *)
SettleAgain(r, now, result, unsafe) == SettleAll({r}, now, result, unsafe)

Settle(r, now, result, unsafe) ==
  IF Terminal(r) THEN runs' = now /\ UNCHANGED SettledVars ELSE SettleAll({r}, now, result, unsafe)

(* Mutant: the Session of an aborted Run stays in use. *)
AbortWithoutQuarantine(r, now) == Settle(r, now, "connection_aborted", FALSE)

AbortRun(r, now) == Settle(r, now, "connection_aborted", TRUE)

(* failIncompatible, and a failure of the pump or of the reconciliation of the same kind. *)
FailIncompatible(r, now) ==
  Settle(r, IF Terminal(r) THEN now ELSE [now EXCEPT ![r].incompatible = TRUE], "failed", TRUE)

Keep(now) == runs' = now /\ UNCHANGED SettledVars

-------------------------------------------------------------------------------
(* connect() and close(). *)

(* Of connectionOptions and validateProfile, and of resolveHeaders, which asks the host. *)
ProfileOutcomes == {"ok", "profile_invalid", "authentication_failed"}

Connect(profile) ==
  /\ client = "none" /\ profile \in ProfileOutcomes
  /\ IF profile = "ok" THEN client' = "probing" /\ transport' = "open"
     ELSE client' = "failed" /\ UNCHANGED transport
  /\ UNCHANGED <<handles, tables, branches, runs, pendingApprovals, responses, provider>>

(* The capability document has to offer the endpoints a Run needs. *)
Probed(outcome) ==
  /\ client = "probing" /\ outcome \in Outcomes
  /\ IF outcome = "ok" THEN client' = "open" /\ UNCHANGED transport
     ELSE client' = "failed" /\ transport' = "closed"
  /\ UNCHANGED <<handles, tables, branches, runs, pendingApprovals, responses, provider>>

ActiveRuns == {r \in Runs : \E s \in Sessions : activeBySession[s] = r}
StartingRuns == {r \in Runs : \E s \in Sessions : startingBySession[s] = r}

Close ==
  /\ client = "open"
  /\ client' = "closed" /\ transport' = "closed"
  /\ SettleAll(ActiveRuns, [r \in Runs |-> [runs[r] EXCEPT !.closed = @ \/ r \in StartingRuns]],
               "connection_aborted", TRUE)
  /\ UNCHANGED <<startingBySession, knownSessions, retiredSessions, branches, responses, provider>>

-------------------------------------------------------------------------------
(* Sessions: create, resume, branch, close. *)

SetCall(h, call, s) == handles' = [handles EXCEPT ![h].call = call, ![h].session = s]

Create(h) ==
  /\ handles[h].call = "free" /\ AssertOpen
  /\ SetCall(h, "create", NoSession)
  /\ UNCHANGED <<client, transport, tables, branches, runs, pendingApprovals, responses, provider>>

(* The Provider may have made a Session whose id the Client never learns, or of another model.       *)
Created(h, s, outcome) ==
  /\ handles[h].call = "create" /\ outcome \in Outcomes /\ s \notin created
  /\ created' \in {created, created \cup {s}}
  /\ IF outcome = "ok" /\ Reusable(s)
     THEN s \in created' /\ SetCall(h, "made", s) /\ knownSessions' = knownSessions \cup {s}
     ELSE SetCall(h, "refused", NoSession) /\ UNCHANGED knownSessions
  /\ UNCHANGED <<client, transport, startingBySession, activeBySession, retiredSessions, quarantinedSessions,
                 branches, runs, pendingApprovals, responses, branched, remote, stream, approvals>>

Resume(h, s) ==
  /\ handles[h].call = "free" /\ s \in created /\ AssertOpen /\ Reusable(s)
  /\ SetCall(h, "resume", s)
  /\ UNCHANGED <<client, transport, tables, branches, runs, pendingApprovals, responses, provider>>

(* A Session that was branched is retired. The answer may be older than a branch.                   *)
Resumed(h, outcome, isBranched) ==
  /\ handles[h].call = "resume" /\ outcome \in Outcomes
  /\ LET s == handles[h].session IN
     /\ isBranched => outcome = "ok" /\ s \in branched
     /\ retiredSessions' = IF isBranched THEN retiredSessions \cup {s} ELSE retiredSessions
     /\ IF outcome = "ok" /\ ~isBranched
        THEN SetCall(h, "made", s) /\ knownSessions' = knownSessions \cup {s}
        ELSE SetCall(h, "refused", s) /\ UNCHANGED knownSessions
  /\ UNCHANGED <<client, transport, startingBySession, activeBySession, quarantinedSessions, branches, runs,
                 pendingApprovals, responses, provider>>

Branch(s) ==
  /\ s \in created /\ AssertOpen /\ Reusable(s) /\ ~HasWork(s)
  /\ branches' = [branches EXCEPT ![s] = "get"]
  /\ UNCHANGED <<client, transport, handles, tables, runs, pendingApprovals, responses, provider>>

(* The source has to be what it was (same), without a model configuration. *)
BranchChecked(s, outcome, same) ==
  /\ branches[s] = "get" /\ outcome \in Outcomes /\ (s \in branched => ~same)
  /\ branches' = [branches EXCEPT ![s] = IF outcome = "ok" /\ same /\ AssertOpen THEN "post" ELSE "none"]
  /\ UNCHANGED <<client, transport, handles, tables, runs, pendingApprovals, responses, provider>>

(* Mutant: a branch whose child is not known retires its parent only. *)
BranchedForgiving(s, h, child, outcome) ==
  /\ branches[s] = "post" /\ outcome \in Outcomes
  /\ outcome = "ok" => handles[h].call = "free" /\ child \notin created
  /\ branches' = [branches EXCEPT ![s] = "none"]
  /\ IF outcome = "ok"
     THEN /\ branched' = branched \cup {s} /\ created' = created \cup {child}
          /\ retiredSessions' = retiredSessions \cup {s} /\ knownSessions' = knownSessions \cup {child}
          /\ SetCall(h, "made", child)
     ELSE /\ branched' \in {branched, branched \cup (IF outcome = "refused" THEN {} ELSE {s})}
          /\ UNCHANGED <<created, knownSessions, retiredSessions, handles>>
  /\ UNCHANGED <<client, transport, startingBySession, activeBySession, quarantinedSessions, runs,
                 pendingApprovals, responses, remote, stream, approvals>>

(* The parent is retired for its child, or nobody knows what became of it. *)
Branched(s, h, child, outcome) ==
  /\ branches[s] = "post" /\ outcome \in Outcomes
  /\ outcome = "ok" => handles[h].call = "free" /\ child \notin created
  /\ branches' = [branches EXCEPT ![s] = "none"]
  /\ IF outcome = "ok"
     THEN /\ branched' = branched \cup {s} /\ created' = created \cup {child}
          /\ retiredSessions' = retiredSessions \cup {s} /\ knownSessions' = knownSessions \cup {child}
          /\ SetCall(h, "made", child) /\ UNCHANGED quarantinedSessions
     ELSE /\ branched' \in {branched, branched \cup (IF outcome = "refused" THEN {} ELSE {s})}
          /\ quarantinedSessions' = quarantinedSessions \cup {s}
          /\ UNCHANGED <<created, knownSessions, retiredSessions, handles>>
  /\ UNCHANGED <<client, transport, startingBySession, activeBySession, runs, pendingApprovals, responses,
                 remote, stream, approvals>>

(* closeSession: a starting Run is told, an active one aborted. *)
CloseSession(h) ==
  /\ handles[h].call = "made" /\ ~handles[h].closed
  /\ LET s     == handles[h].session
         told  == {r \in {startingBySession[s]} \cap Runs : runs[r].owner = h}
         ended == {r \in {activeBySession[s]} \cap Runs : runs[r].owner = h}
         now   == [r \in Runs |-> [runs[r] EXCEPT !.closed = @ \/ r \in told]]
     IN /\ runs' = [r \in Runs |->
             IF r \in ended THEN Finished(now[r], "connection_aborted", PendingOf({r})) ELSE now[r]]
        /\ activeBySession' = IF ended = {} THEN activeBySession ELSE [activeBySession EXCEPT ![s] = NoRun]
        /\ pendingApprovals' = pendingApprovals \ PendingOf(ended)
        /\ quarantinedSessions' = IF ended = {} THEN quarantinedSessions ELSE quarantinedSessions \cup {s}
        /\ handles' = [handles EXCEPT ![h].closed = TRUE, ![h].unsafe = @ \/ ended # {}]
  /\ UNCHANGED <<client, transport, startingBySession, knownSessions, retiredSessions, branches, responses, provider>>

-------------------------------------------------------------------------------
(* startRun: a POST, and a GET that shows whose Run it made. *)

(* Mutant: only a Run that is active keeps the Session. *)
StartBesideStarting(r, h) ==
  /\ runs[r].start = "idle" /\ Usable(h) /\ AssertOpen
  /\ LET s == handles[h].session IN
     /\ Reusable(s) /\ activeBySession[s] = NoRun
     /\ runs' = [runs EXCEPT ![r].start = "post", ![r].owner = h]
     /\ startingBySession' = [startingBySession EXCEPT ![s] = r]
  /\ UNCHANGED <<client, transport, handles, activeBySession, knownSessions, retiredSessions, quarantinedSessions,
                 branches, pendingApprovals, responses, provider>>

StartRun(r, h) ==
  /\ runs[r].start = "idle" /\ Usable(h) /\ AssertOpen
  /\ LET s == handles[h].session IN
     /\ Reusable(s) /\ ~HasWork(s)
     /\ runs' = [runs EXCEPT ![r].start = "post", ![r].owner = h]
     /\ startingBySession' = [startingBySession EXCEPT ![s] = r]
  /\ UNCHANGED <<client, transport, handles, activeBySession, knownSessions, retiredSessions, quarantinedSessions,
                 branches, pendingApprovals, responses, provider>>

(* startRun rejects; the Session is unsafe when the Provider may have the Run. *)
Refuse(r, unsafe) ==
  LET s == SessionOf(r) IN
  /\ runs' = [runs EXCEPT ![r].start = "refused"]
  /\ startingBySession' = [startingBySession EXCEPT ![s] = NoRun]
  /\ quarantinedSessions' = IF unsafe THEN quarantinedSessions \cup {s} ELSE quarantinedSessions
  /\ handles' = [handles EXCEPT ![runs[r].owner].unsafe = @ \/ unsafe]

Submitted(r, outcome) ==
  /\ runs[r].start = "post" /\ outcome \in Outcomes
  /\ \E arrived \in BOOLEAN :
       /\ (outcome = "ok" => arrived) /\ (outcome = "refused" => ~arrived)
       /\ remote' = [remote EXCEPT ![r] = IF arrived THEN "running" ELSE @]
  /\ IF outcome = "ok"
     THEN /\ runs' = [runs EXCEPT ![r].start = "validate"]
          /\ UNCHANGED <<startingBySession, quarantinedSessions, handles>>
     ELSE Refuse(r, runs[r].closed \/ Uncertain(outcome))
  /\ UNCHANGED <<client, transport, activeBySession, knownSessions, retiredSessions, branches, pendingApprovals,
                 responses, created, branched, stream, approvals>>

Validated(r, outcome) ==
  /\ runs[r].start = "validate" /\ outcome \in Outcomes
  /\ IF outcome = "ok" /\ ~runs[r].closed
     THEN /\ runs' = [runs EXCEPT ![r].start = "started", ![r].pump = "reading"]
          /\ startingBySession' = [startingBySession EXCEPT ![SessionOf(r)] = NoRun]
          /\ activeBySession' = [activeBySession EXCEPT ![SessionOf(r)] = r]
          /\ UNCHANGED <<quarantinedSessions, handles>>
     ELSE Refuse(r, TRUE) /\ UNCHANGED activeBySession
  /\ UNCHANGED <<client, transport, knownSessions, retiredSessions, branches, pendingApprovals, responses, provider>>

-------------------------------------------------------------------------------
(* The stream of a Run: pump. *)

InFlight(n) == responses[n].at \in {"sent", "taken", "gone"}

(* An approval request: one at a time. *)
ApprovalRequested(r, n, room) ==
  LET now == [runs EXCEPT ![r].requested = @ \cup {n}] IN
  /\ UNCHANGED responses
  /\ IF ~SupportsApproval \/ PendingOf({r}) # {} THEN FailIncompatible(r, runs)
     ELSE IF ~room THEN AbortRun(r, [now EXCEPT ![r].resolved = @ \cup {n}])
     ELSE /\ runs' = now /\ pendingApprovals' = pendingApprovals \cup {n}
          /\ UNCHANGED <<activeBySession, quarantinedSessions, handles>>

(* resolveApproval, of what is pending for the Run, from a state `now`. *)
Resolve(r, now) ==
  /\ runs' = [now EXCEPT ![r].resolved = IF Terminal(r) THEN @ ELSE @ \cup PendingOf({r})]
  /\ pendingApprovals' = pendingApprovals \ PendingOf({r})
  /\ UNCHANGED <<activeBySession, quarantinedSessions, handles>>

(* Mutant: a decision that was made while the host's answer is on its way is not kept. *)
ApprovalRespondedForgotten(r, choice) ==
  /\ UNCHANGED responses
  /\ IF PendingOf({r}) # {} THEN Resolve(r, runs)
     ELSE IF runs[r].confirmed = choice THEN Keep([runs EXCEPT ![r].confirmed = "none"])
     ELSE FailIncompatible(r, runs)

(* A decision: of what is pending, kept for the respond() that is in flight, or the one confirmed.   *)
ApprovalResponded(r, choice) ==
  IF PendingOf({r}) # {}
  THEN /\ responses' = [n \in DOMAIN responses |->
            IF n \in PendingOf({r}) /\ InFlight(n) THEN [responses[n] EXCEPT !.provider = choice] ELSE responses[n]]
       /\ Resolve(r, runs)
  ELSE /\ UNCHANGED responses
       /\ IF runs[r].confirmed = choice THEN Keep([runs EXCEPT ![r].confirmed = "none"])
          ELSE FailIncompatible(r, runs)

(* handleTerminalSignal: the Provider is asked. *)
TerminalSignal(r, status) ==
  /\ UNCHANGED responses
  /\ IF runs[r].signal # "none" THEN FailIncompatible(r, runs)
     ELSE Keep([runs EXCEPT ![r].signal = status, ![r].reconcile = IF @ = "none" THEN "poll" ELSE @])

EventArrives(r, room) ==
  /\ runs[r].pump = "reading" /\ stream[r] # <<>>
  /\ stream' = [stream EXCEPT ![r] = Tail(@)]
  /\ LET e == Head(stream[r]) IN
     CASE e.type = "terminal"       -> TerminalSignal(r, e.status)
       [] e.type # "terminal" /\ runs[r].signal # "none" -> FailIncompatible(r, runs) /\ UNCHANGED responses
       [] e.type = "request" /\ runs[r].signal = "none"   -> ApprovalRequested(r, e.approval, room)
       [] e.type = "responded" /\ runs[r].signal = "none" -> ApprovalResponded(r, e.choice)
  /\ UNCHANGED <<client, transport, startingBySession, knownSessions, retiredSessions, branches,
                 created, branched, remote, approvals>>

(* A portable event, that comes after the terminal one or finds no room. Any other changes nothing.  *)
ProgressArrives(r) ==
  /\ runs[r].pump = "reading"
  /\ IF runs[r].signal # "none" THEN FailIncompatible(r, runs) ELSE AbortRun(r, runs)
  /\ UNCHANGED <<client, transport, startingBySession, knownSessions, retiredSessions, branches, responses, provider>>

(* The stream ends or is lost, has an event out of the protocol, or is refused. *)
StreamEnds(r, how) ==
  /\ runs[r].pump = "reading" /\ how \in {"lost", "invalid", "refused"}
  /\ LET now == [runs EXCEPT ![r].pump = "stopped"] IN
     CASE runs[r].signal # "none"                    -> Keep(now)
       [] runs[r].signal = "none" /\ how = "lost"    -> Keep([now EXCEPT ![r].reconcile = IF @ = "none" THEN "poll" ELSE @])
       [] runs[r].signal = "none" /\ how = "invalid" -> FailIncompatible(r, now)
       [] runs[r].signal = "none" /\ how = "refused" -> AbortRun(r, now)
  /\ UNCHANGED <<client, transport, startingBySession, knownSessions, retiredSessions, branches, responses, provider>>

-------------------------------------------------------------------------------
(* reconcileTerminal. *)

(* Mutant: what the event said is not compared with the answer. *)
PollTrustsAnswer(r, outcome, late) ==
  /\ runs[r].reconcile = "poll" /\ outcome \in Outcomes
  /\ CASE outcome = "ok" /\ remote[r] \in Statuses ->
            Keep([runs EXCEPT ![r].reconcile = "settle", ![r].answer = remote[r]])
       [] outcome = "ok" /\ remote[r] \notin Statuses -> IF late THEN AbortRun(r, runs) ELSE Keep(runs)
       [] outcome = "incompatible" -> FailIncompatible(r, runs)
       [] OTHER -> AbortRun(r, runs)
  /\ UNCHANGED <<client, transport, startingBySession, knownSessions, retiredSessions, branches, responses, provider>>

(* Mutant: there is no deadline. *)
PollForever(r, outcome, late) ==
  /\ runs[r].reconcile = "poll" /\ outcome \in Outcomes
  /\ CASE outcome = "ok" /\ remote[r] \in Statuses ->
            IF runs[r].signal \notin {"none", remote[r]} THEN FailIncompatible(r, runs)
            ELSE Keep([runs EXCEPT ![r].reconcile = "settle", ![r].answer = remote[r]])
       [] outcome = "incompatible" -> FailIncompatible(r, runs)
       [] OTHER -> Keep(runs)
  /\ UNCHANGED <<client, transport, startingBySession, knownSessions, retiredSessions, branches, responses, provider>>

(* The status of the Run is asked for until it is terminal, or it is too late. *)
Poll(r, outcome, late) ==
  /\ runs[r].reconcile = "poll" /\ outcome \in Outcomes
  /\ CASE outcome = "ok" /\ remote[r] \in Statuses ->
            IF runs[r].signal \notin {"none", remote[r]} THEN FailIncompatible(r, runs)
            ELSE Keep([runs EXCEPT ![r].reconcile = "settle", ![r].answer = remote[r]])
       [] outcome = "ok" /\ remote[r] \notin Statuses -> IF late THEN AbortRun(r, runs) ELSE Keep(runs)
       [] outcome = "incompatible" -> FailIncompatible(r, runs)
       [] OTHER -> AbortRun(r, runs)
  /\ UNCHANGED <<client, transport, startingBySession, knownSessions, retiredSessions, branches, responses, provider>>

(* approvalResponseGates *)
GatesOpen(r) == \A n \in 1..Len(approvals) : approvals[n].run = r => ~InFlight(n)

(* A completed Run first reports its message and usage, for which there may be no room. With a       *)
(* terminal event, what follows it on the stream is waited for.                                     *)
Settling(r, room) ==
  /\ runs[r].reconcile = "settle" /\ GatesOpen(r) /\ (~room => runs[r].answer = "completed")
  /\ CASE ~room -> AbortRun(r, runs)
       [] room /\ runs[r].signal # "none" -> Keep([runs EXCEPT ![r].reconcile = "drain"])
       [] room /\ runs[r].signal = "none" -> Settle(r, runs, runs[r].answer, FALSE)
  /\ UNCHANGED <<client, transport, startingBySession, knownSessions, retiredSessions, branches, responses, provider>>

(* The stream is over, or the delay. *)
Drained(r) ==
  /\ runs[r].reconcile = "drain" /\ GatesOpen(r)
  /\ Settle(r, runs, runs[r].answer, FALSE)
  /\ UNCHANGED <<client, transport, startingBySession, knownSessions, retiredSessions, branches, responses, provider>>

-------------------------------------------------------------------------------
(* respond() *)

Respond(h, n, choice) ==
  /\ Usable(h) /\ AssertOpen /\ n \in pendingApprovals /\ ~InFlight(n)
  /\ runs[approvals[n].run].owner = h /\ ~Terminal(approvals[n].run)
  /\ responses' = [responses EXCEPT ![n] = [at |-> "sent", choice |-> choice, provider |-> "none"]]
  /\ UNCHANGED <<client, transport, handles, tables, branches, runs, pendingApprovals, provider>>

(* The events of a Run nobody listens to are not kept. *)
Unheard(r) == runs[r].pump = "stopped" \/ runs[r].start = "refused"
Said(r, e) == stream' = IF Unheard(r) THEN stream ELSE [stream EXCEPT ![r] = Append(@, e)]

Undecided(r) == {n \in 1..Len(approvals) : approvals[n].run = r /\ approvals[n].decision = "none"}

Decide(n, choice, by) ==
  LET r == approvals[n].run IN
  /\ approvals' = [approvals EXCEPT ![n].decision = choice, ![n].by = by]
  /\ remote' = [remote EXCEPT ![r] = "running"]
  /\ Said(r, [type |-> "responded", approval |-> n, choice |-> choice, status |-> "none"])

(* The route names the Run only: it decides what the Run waits for, if it waits. *)
ProviderTakes(n) ==
  /\ responses[n].at = "sent"
  /\ LET r == approvals[n].run IN
     IF remote[r] = "waiting"
     THEN /\ responses' = [responses EXCEPT ![n].at = "taken"]
          /\ \E m \in Undecided(r) : Decide(m, responses[n].choice, "host")
     ELSE responses' = [responses EXCEPT ![n].at = "gone"] /\ UNCHANGED <<remote, stream, approvals>>
  /\ UNCHANGED <<client, transport, handles, tables, branches, runs, pendingApprovals, created, branched>>

(* Mutant: the decision that was reported is not compared with the one that was answered. *)
RespondedUnchecked(n, outcome) ==
  /\ InFlight(n) /\ outcome \in Outcomes
  /\ (outcome = "ok" => responses[n].at = "taken") /\ (outcome = "refused" => responses[n].at # "taken")
  /\ LET r == approvals[n].run IN
     /\ responses' = [responses EXCEPT ![n].at = IF outcome = "ok" THEN "ok" ELSE "error"]
     /\ CASE outcome = "ok" -> IF responses[n].provider # "none" THEN Keep(runs)
                               ELSE Resolve(r, [runs EXCEPT ![r].confirmed = responses[n].choice])
          [] Uncertain(outcome) -> AbortRun(r, runs)
          [] OTHER -> Keep(runs)
  /\ UNCHANGED <<client, transport, startingBySession, knownSessions, retiredSessions, branches, provider>>

(* An acknowledged answer is the one the Provider reported, or is confirmed until it reports it. An  *)
(* uncertain one makes the Session unsafe, also when the Run is over.                               *)
Responded(n, outcome) ==
  /\ InFlight(n) /\ outcome \in Outcomes
  /\ (outcome = "ok" => responses[n].at = "taken") /\ (outcome = "refused" => responses[n].at # "taken")
  /\ LET r      == approvals[n].run
         agrees == IF responses[n].provider # "none" THEN responses[n].provider = responses[n].choice
                   ELSE runs[r].confirmed = "none"
     IN
     /\ responses' = [responses EXCEPT ![n].at = IF outcome = "ok" /\ agrees THEN "ok" ELSE "error"]
     /\ CASE outcome = "ok" /\ ~agrees -> FailIncompatible(r, runs)
          [] outcome = "ok" /\ agrees /\ responses[n].provider # "none" -> Keep(runs)
          [] outcome = "ok" /\ agrees /\ responses[n].provider = "none" ->
               Resolve(r, [runs EXCEPT ![r].confirmed = responses[n].choice])
          [] Uncertain(outcome) /\ Terminal(r) ->
               /\ quarantinedSessions' = quarantinedSessions \cup {SessionOf(r)}
               /\ handles' = [handles EXCEPT ![runs[r].owner].unsafe = TRUE]
               /\ UNCHANGED <<runs, activeBySession, pendingApprovals>>
          [] Uncertain(outcome) /\ ~Terminal(r) -> AbortRun(r, runs)
          [] outcome = "refused" -> Keep(runs)
  /\ UNCHANGED <<client, transport, startingBySession, knownSessions, retiredSessions, branches, provider>>

-------------------------------------------------------------------------------
(* cancel(), called by the host or by the timer of the Run. *)

(* The timer finds a cancel() that was rejected: its promise is kept. *)
Cancel(r, timer) ==
  /\ runs[r].start = "started" /\ ~Terminal(r)
  /\ IF timer THEN ~runs[r].timedOut ELSE SupportsCancel /\ runs[r].cancel = "none"
  /\ LET now == [runs EXCEPT ![r].timedOut = @ \/ timer,
                             ![r].cancel = IF @ = "none" /\ SupportsCancel THEN "posting" ELSE @]
     IN IF ~SupportsCancel \/ now[r].cancel = "error" THEN AbortRun(r, now) ELSE Keep(now)
  /\ UNCHANGED <<client, transport, startingBySession, knownSessions, retiredSessions, branches, responses, provider>>

(* The stop is acknowledged, which is no settlement, or not. *)
CancelAnswered(r, outcome) ==
  /\ runs[r].cancel = "posting" /\ outcome \in Outcomes
  /\ LET mode == IF outcome # "ok" THEN "error"
                 ELSE IF Terminal(r) THEN CancelAfter("acknowledged", runs[r].result) ELSE "acknowledged"
         now  == [runs EXCEPT ![r].cancel = mode]
     IN IF mode = "error" /\ (Uncertain(outcome) \/ runs[r].timedOut) THEN AbortRun(r, now) ELSE Keep(now)
  /\ UNCHANGED <<client, transport, startingBySession, knownSessions, retiredSessions, branches, responses, provider>>

(* Settlement takes longer than cancelSettlementTimeoutMs. *)
CancelGivesUp(r) ==
  /\ runs[r].cancel = "acknowledged"
  /\ AbortRun(r, runs)
  /\ UNCHANGED <<client, transport, startingBySession, knownSessions, retiredSessions, branches, responses, provider>>

-------------------------------------------------------------------------------
(* The Provider. What it asks and how it ends when nobody listens is left out. *)

ProviderAsks(r) ==
  /\ remote[r] = "running" /\ ~Unheard(r) /\ Len(approvals) < MaxApprovals
  /\ approvals' = Append(approvals, [run |-> r, decision |-> "none", by |-> "none"])
  /\ remote' = [remote EXCEPT ![r] = "waiting"]
  /\ Said(r, [type |-> "request", approval |-> Len(approvals'), choice |-> "none", status |-> "none"])
  /\ UNCHANGED <<client, transport, handles, tables, branches, runs, pendingApprovals, responses, created, branched>>

(* Somebody else answers, at the Provider. *)
ProviderDecides(r, choice) ==
  /\ remote[r] = "waiting" /\ ~Unheard(r)
  /\ \E n \in Undecided(r) : Decide(n, choice, "other")
  /\ UNCHANGED <<client, transport, handles, tables, branches, runs, pendingApprovals, responses, created, branched>>

(* What its event says may not be what it answers later (not honest). *)
ProviderFinishes(r, status, honest) ==
  /\ remote[r] \in {"running", "waiting"} /\ (Unheard(r) /\ runs[r].reconcile = "none" => status = "failed" /\ honest)
  /\ remote' = [remote EXCEPT ![r] = status]
  /\ Said(r, [type |-> "terminal", approval |-> 0, choice |-> "none", 
                   status |-> CASE honest -> status [] status = "completed" -> "failed" [] OTHER -> "completed"])
  /\ UNCHANGED <<client, transport, handles, tables, branches, runs, pendingApprovals, responses, created, branched,
                 approvals>>

-------------------------------------------------------------------------------
SessionRequest ==
  \E outcome \in Outcomes :
    \/ Probed(outcome)
    \/ \E h \in Handles : \/ \E s \in Sessions : Created(h, s, outcome)
                         \/ \E isBranched \in BOOLEAN : Resumed(h, outcome, isBranched)

BranchRequest(s) ==
  \E outcome \in Outcomes :
    \/ \E same \in BOOLEAN : BranchChecked(s, outcome, same)
    \/ \E h \in Handles, child \in Sessions : Branched(s, h, child, outcome)

StartRequest(r) == \E outcome \in Outcomes : Submitted(r, outcome) \/ Validated(r, outcome)
CancelRequest(r) == \E outcome \in Outcomes : CancelAnswered(r, outcome)
PollRequest(r) == \E outcome \in Outcomes, late \in BOOLEAN : Poll(r, outcome, late)
LatePoll(r) == Poll(r, "ok", TRUE)
Settlement(r) == Drained(r) \/ \E room \in Room : Settling(r, room)
AnswerRequest(n) == \E outcome \in Outcomes : Responded(n, outcome)

Provider(r) ==
  \/ ProviderAsks(r) \/ \E choice \in Choices : ProviderDecides(r, choice)
  \/ \E status \in Statuses, honest \in BOOLEAN : ProviderFinishes(r, status, honest)

Next ==
  \/ SessionRequest \/ Close \/ \E profile \in ProfileOutcomes : Connect(profile)
  \/ \E h \in Handles : Create(h) \/ CloseSession(h) \/ \E s \in Sessions : Resume(h, s)
  \/ \E s \in Sessions : Branch(s) \/ BranchRequest(s)
  \/ \E r \in Runs :
       \/ \E h \in Handles : StartRun(r, h)
       \/ StartRequest(r) \/ CancelRequest(r) \/ PollRequest(r) \/ Settlement(r) \/ CancelGivesUp(r)
       \/ ProgressArrives(r) \/ \E room \in Room : EventArrives(r, room)
       \/ \E how \in {"lost", "invalid", "refused"} : StreamEnds(r, how)
       \/ \E timer \in BOOLEAN : Cancel(r, timer)
       \/ Provider(r)
  \/ \E n \in 1..Len(approvals) :
       \/ AnswerRequest(n) \/ ProviderTakes(n)
       \/ \E h \in Handles, choice \in Choices : Respond(h, n, choice)

Spec == Init /\ [][Next]_vars

(* Requests have a timer in the transport, delays and deadlines elapse: a poll after the deadline is *)
(* answered, if it does not fail. Neither the Provider nor the host has to do anything; but a host   *)
(* does not answer an approval again for ever, which would keep the gates shut.                     *)
Fairness ==
  /\ \A s \in Sessions : WF_vars(BranchRequest(s))
  /\ \A r \in Runs : /\ WF_vars(StartRequest(r)) /\ WF_vars(CancelRequest(r)) /\ WF_vars(CancelGivesUp(r))
                     /\ WF_vars(LatePoll(r)) /\ SF_vars(Settlement(r))
  /\ \A n \in 1..MaxApprovals : WF_vars(n \in 1..Len(approvals) /\ AnswerRequest(n))

FairSpec == Spec /\ Fairness

-------------------------------------------------------------------------------
Working(s) == {r \in Runs : runs[r].owner # NoHandle /\ SessionOf(r) = s /\ remote[r] \in {"running", "waiting"}}

(* "The Hermes Session cannot be reused after uncertain remote settlement" (sessionUnsafe), and a    *)
(* parent that was branched is never used again: the Provider never works on two Runs of this Client *)
(* in one Session, or on a Run of a parent, also when an answer was lost; and a Client that failed   *)
(* to connect or was closed keeps no transport.                                                     *)
SessionsExclusive ==
  /\ TypeOK
  /\ \A s \in Sessions :
       /\ Cardinality(Working(s)) <= 1
       /\ \A r \in Working(s) : (Terminal(r) \/ runs[r].start = "refused") => s \in quarantinedSessions
       /\ (s \in branched /\ branches[s] # "post") =>
            (Working(s) = {} /\ ((\E t \in created \ {s} : t \in knownSessions) => s \in retiredSessions \cup quarantinedSessions))
  /\ client \in {"failed", "closed"} => transport # "open"

(* An answer the host was told was taken is what the Provider decided, once its decision has been    *)
(* read, unless the Run was failed for the contradiction or lost; the route of an answer names the   *)
(* Run and not the approval. No approval outlives its Run unresolved.                               *)
ApprovalsTruthful ==
  /\ \A r \in Runs : Terminal(r) => runs[r].resolved = runs[r].requested
  /\ \A n \in pendingApprovals : ~Terminal(approvals[n].run) /\ client = "open"
  /\ \A n \in 1..Len(approvals) :
       LET r == approvals[n].run
           unread == \E i \in DOMAIN stream[r] : stream[r][i].type = "responded" /\ stream[r][i].approval = n
       IN (responses[n].at = "ok" /\ runs[r].pump = "reading" /\ ~unread) =>
            approvals[n].decision = responses[n].choice

(* A Run ends as the Provider answers that it ended, whatever its event says, and cancel() says what *)
(* became of it; a Run whose timer found the stop refused does not go on.                           *)
EndsTruthful ==
  \A r \in Runs :
    /\ (runs[r].result \in Statuses /\ ~runs[r].incompatible) =>
         (remote[r] = runs[r].result /\ runs[r].signal \in {"none", remote[r]})
    /\ runs[r].cancel = "native" => runs[r].result = "cancelled"
    /\ runs[r].cancel = "connection_aborted" => runs[r].result = "connection_aborted"
    /\ runs[r].cancel = "already_terminal" => Terminal(r)
    /\ (runs[r].cancel = "error" /\ runs[r].timedOut) => Terminal(r)

(* Sessions have one Run and nothing uncertain is built on, approvals and the ends of Runs are what  *)
(* the evidence says. providers/hermes/src/adapter.ts.                                              *)
HermesSound == SessionsExclusive /\ ApprovalsTruthful /\ EndsTruthful

(* Evidence of its end settles a Run, startRun and cancel() settle, and a branch frees its parent.   *)
EvidenceSettles ==
  /\ \A r \in Runs : /\ runs[r].reconcile # "none" ~> Terminal(r)
                     /\ runs[r].start \in {"post", "validate"} ~> runs[r].start \in {"started", "refused"}
                     /\ runs[r].cancel \in Waiting ~> runs[r].cancel \notin Waiting
  /\ \A s \in Sessions : branches[s] # "none" ~> branches[s] = "none"

Contract == INSTANCE RunContract WITH
  Interactions <- 1..MaxApprovals,
  status <- [r \in Runs |-> CASE runs[r].start # "started" -> "none"
                             [] runs[r].start = "started" /\ Terminal(r) -> runs[r].result
                             [] runs[r].start = "started" /\ ~Terminal(r) -> "active"],
  requested <- [r \in Runs |-> runs[r].requested],
  resolved <- [r \in Runs |-> runs[r].resolved]

(* The Runs a Client hands out behave as the contract of a Run says. *)
ImplementsRunContract == Contract!Spec
===============================================================================
