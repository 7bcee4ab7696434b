---------------------------- MODULE OpenClawAdapter ----------------------------
(* OpenClawClient of providers/openclaw with its Sessions, Runs, approvals and Gateway forks. Below *)
(* it is one AcpClient, which appears as far as the adapter can tell: requests that settle, events   *)
(* in order, permissions it waits to answer, its end. AcpClient models it in detail; from there come *)
(* that a prompt settles after the events before its response, that a session being cancelled       *)
(* refuses prompts and that cancelSession() answers the permissions of its session first.           *)
(* The continuation of a settled request is part of the step that settles it: host code that runs   *)
(* between the two finds what it would have found before the response. A lost connection is the     *)
(* exception, as its continuations (of prompts, operations and the pump) come in any order.         *)
EXTENDS Naturals, Sequences, FiniteSets, FiniteSetsExt

CONSTANTS
  Ids, NoId,            \* native Session identifiers
  Calls,                \* calls of createSession(), resumeSession() and fork()
  Runs, NoRun,          \* calls of start()
  Approvals,            \* permission requests of the Agent
  MaxRunEvents,         \* capacity of the EventQueue of a Run
  MaxEvents             \* bound: events the Agent sends

ASSUME CapacityAssumption == MaxRunEvents \in Nat /\ MaxRunEvents >= 2
ASSUME BoundAssumption == MaxEvents \in Nat
ASSUME NullAssumption == NoId \notin Ids /\ NoRun \notin Runs

VARIABLES
  closed, sessions, reservations, forking, activeRun,  \* OpenClawClient
  calls,                \* where each call is, with its identifier (of a fork: the source, then the child)
  handles,              \* lifecycleState of the OpenClawSession a call returned
  runs,                 \* per start(): its OpenClawRun, the prompt and the cancellation
  approvals,            \* pendingApprovals, and what the Agent has been told
  pump,                 \* for await (... of acp.events())
  acp, events, sent     \* the AcpClient: open or how it ended; events not handled; how many there were

sessionVars == <<sessions, reservations, forking, calls, handles>>
acpVars     == <<acp, events, sent>>
vars == <<closed, sessionVars, activeRun, runs, approvals, pump, acpVars>>

Terminals == {"completed", "cancelled", "failed", "connection_aborted"}
CancelModes == {"native", "connection_aborted", "already_terminal"}
Parts == {"message", "reasoning"}
Forking == {"listing", "creating", "attaching"}

TypeOK ==
  /\ closed \in BOOLEAN /\ forking \in BOOLEAN
  /\ sessions \subseteq Ids /\ reservations \subseteq Ids
  /\ activeRun \in Runs \cup {NoRun}
  /\ calls \in [Calls -> [id : Ids \cup {NoId}, at : Forking \cup
                  {"idle", "creating session", "resuming", "done", "failed", "uncertain"}]]
  /\ handles \in [Calls -> {"none", "open", "closing", "unsafe", "closed"}]
  /\ \A r \in Runs : runs[r] \in
       [phase : {"none", "active"} \cup Terminals, session : Ids \cup {NoId},
        prompt : {"none", "waiting", "refused", "lost", "uncertain", "settled"},
        cancel : {"none", "sending", "settling"} \cup CancelModes,
        queued : 0..MaxRunEvents, waiting : BOOLEAN, tail : SUBSET Parts, overflow : BOOLEAN,
        requested : SUBSET Approvals, resolved : SUBSET Approvals]
  /\ \A a \in Approvals : approvals[a] \in
       [run : Runs \cup {NoRun}, state : {"none", "pending", "selected", "cancelled"},
        told : {"none", "asked", "selected", "cancelled", "released"}]
  /\ pump \in {"running", "ended"} /\ acp \in {"open", "failed", "incompatible", "closed"}
  /\ events \in Seq([session : Ids \cup {NoId}, part : Parts \cup {"other"}])
  /\ sent \in 0..MaxEvents /\ Len(events) <= sent

Init ==
  /\ closed = FALSE /\ sessions = {} /\ reservations = {} /\ forking = FALSE /\ activeRun = NoRun
  /\ calls = [c \in Calls |-> [id |-> NoId, at |-> "idle"]]
  /\ handles = [c \in Calls |-> "none"]
  /\ runs = [r \in Runs |->
       [phase |-> "none", session |-> NoId, prompt |-> "none", cancel |-> "none", queued |-> 0,
        waiting |-> FALSE, tail |-> {}, overflow |-> FALSE, requested |-> {}, resolved |-> {}]]
  /\ approvals = [a \in Approvals |-> [run |-> NoRun, state |-> "none", told |-> "none"]]
  /\ pump = "running" /\ acp = "open" /\ events = <<>> /\ sent = 0

IsOpen == ~closed /\ acp = "open"
Terminal(r) == runs[r].phase \in Terminals

-------------------------------------------------------------------------------
(* What a call does to an OpenClawRun, on its record. *)

(* Mutant: no place is kept for the terminal event. *)
SpaceUnreserved(run) == MaxRunEvents - run.queued + (IF run.waiting THEN 1 ELSE 0)

(* EventQueue.push: one place is kept for the terminal event, and a pending read takes one more. *)
Space(run) == MaxRunEvents - 1 - run.queued + (IF run.waiting THEN 1 ELSE 0)

Enqueue(run, n) ==
  [run EXCEPT !.queued = @ + n - (IF run.waiting /\ n > 0 THEN 1 ELSE 0), !.waiting = @ /\ n = 0]

(* emit: what does not fit aborts the connection, in AbortIfFull. *)
Emit(run) ==
  IF run.phase # "active" THEN run
  ELSE IF Space(run) > 0 THEN Enqueue(run, 1) ELSE [run EXCEPT !.overflow = TRUE]

(* receive: the collected message or reasoning grows (receiveUnknown collects nothing). *)
Receive(run, part) == Emit([run EXCEPT !.tail = @ \cup ({part} \cap Parts)])

Request(run, a) ==
  IF Emit(run).overflow THEN Emit(run) ELSE [Emit(run) EXCEPT !.requested = @ \cup {a}]

(* resolveInteraction of all of A, as far as they fit. *)
Resolves(run, A) ==
  {B \in SUBSET A : Cardinality(B) = Min({Space(run), Cardinality(A)})}

Resolve(run, A) ==
  IF run.phase # "active" THEN run
  ELSE LET fit == CHOOSE B \in Resolves(run, A) : TRUE IN
       [Enqueue(run, Cardinality(fit)) EXCEPT !.resolved = @ \cup fit, !.overflow = @ \/ fit # A]

(* Mutant: a Run that was settled takes another result. *)
FinishAgain(run, status) == [run EXCEPT !.phase = status]

(* finish: the collected message and reasoning, then the terminal event, for which there is room.   *)
(* If the former do not fit, the Run is aborted instead.                                            *)
Finish(run, status) ==
  LET n    == Cardinality(run.tail)
      fits == n <= Space(run)
      last == Enqueue(run, IF fits THEN n ELSE Space(run))
  IN IF run.phase # "active" THEN run
     ELSE [last EXCEPT !.phase = IF fits THEN status ELSE "connection_aborted",
                       !.overflow = @ \/ ~fits,
                       !.queued = @ + (IF last.waiting THEN 0 ELSE 1), !.waiting = FALSE]

-------------------------------------------------------------------------------
(* The end of Runs and of the connection. *)

PendingOf(r, apps) == {a \in Approvals : apps[a].state = "pending" /\ apps[a].run = r}

(* Mutant: the approvals of an ended Run stay. *)
ForgetApprovals(r, apps) == apps

(* settleApprovals, as far as pendingApprovals goes. *)
SettleApprovals(r, apps) ==
  [a \in Approvals |-> IF a \in PendingOf(r, apps) THEN [apps[a] EXCEPT !.state = "cancelled"] ELSE apps[a]]

(* The AcpClient ends: it rejects what waits, and releases its permissions. *)
Released(apps) ==
  [a \in Approvals |-> IF apps[a].told = "asked" THEN [apps[a] EXCEPT !.told = "released"] ELSE apps[a]]

Lost(now) ==
  [r \in Runs |-> IF now[r].prompt = "waiting" THEN [now[r] EXCEPT !.prompt = "lost"] ELSE now[r]]

EndAcp(how) == acp' = (IF acp = "open" THEN how ELSE acp) /\ events' = <<>> /\ UNCHANGED sent

AbortRun(now, apps) ==
  [r \in Runs |-> IF r = activeRun
                  THEN Finish(Resolve(now[r], PendingOf(r, apps)), "connection_aborted") ELSE now[r]]

(* abortConnection, from the Runs and approvals a step has reached. *)
Abort(now, apps) ==
  IF closed
  THEN runs' = now /\ approvals' = apps /\ UNCHANGED <<closed, activeRun, acpVars>>
  ELSE /\ closed' = TRUE /\ activeRun' = NoRun
       /\ runs' = Lost(AbortRun(now, apps))
       /\ approvals' = Released(SettleApprovals(activeRun, apps))
       /\ EndAcp("closed")

(* A step that emits into Run r. *)
AbortIfFull(now, apps, r) ==
  IF now[r].overflow /\ ~runs[r].overflow
  THEN Abort(now, apps)
  ELSE runs' = now /\ approvals' = apps /\ UNCHANGED <<closed, activeRun, acpVars>>

(* finish and its onTerminal, for a prompt that is settled. *)
FinishRun(r, status) ==
  LET now  == [runs EXCEPT ![r] = Finish([@ EXCEPT !.prompt = "settled"], status)]
      apps == SettleApprovals(r, approvals)
      full == now[r].overflow /\ ~runs[r].overflow /\ ~closed
  IN /\ activeRun' = IF activeRun = r THEN NoRun ELSE activeRun
     /\ closed' = (closed \/ full)
     /\ runs' = IF full THEN Lost(now) ELSE now
     /\ approvals' = IF full THEN Released(apps) ELSE apps
     /\ IF full THEN EndAcp("closed") ELSE UNCHANGED acpVars

(* close() of the Client, the first time. *)
Close ==
  /\ ~closed
  /\ Abort(runs, approvals)
  /\ UNCHANGED <<sessionVars, pump>>

AcpFails(how) ==
  /\ acp = "open"
  /\ EndAcp(how)
  /\ runs' = Lost(runs) /\ approvals' = Released(approvals)
  /\ UNCHANGED <<closed, sessionVars, activeRun, pump>>

(* failProtocol and abortConnection after an invalid message, abortConnection alone otherwise. *)
AfterLoss(now) ==
  IF acp = "incompatible" /\ activeRun # NoRun
  THEN Abort([now EXCEPT ![activeRun] = Finish(@, "failed")], SettleApprovals(activeRun, approvals))
  ELSE Abort(now, approvals)

(* The loop of pump() ends with the events. *)
PumpEnds ==
  /\ pump = "running" /\ acp # "open"
  /\ pump' = "ended"
  /\ AfterLoss(runs)
  /\ UNCHANGED sessionVars

-------------------------------------------------------------------------------
(* Sessions. *)

Reusable(id) == id \notin sessions \cup reservations

Return(c, id) ==
  /\ calls' = [calls EXCEPT ![c] = [id |-> id, at |-> "done"]]
  /\ handles' = [handles EXCEPT ![c] = "open"]
  /\ sessions' = sessions \cup {id}

CreateSession(c) ==
  /\ calls[c].at = "idle" /\ IsOpen /\ ~forking
  /\ calls' = [calls EXCEPT ![c].at = "creating session"]
  /\ UNCHANGED <<closed, sessions, reservations, forking, handles, activeRun, runs, approvals, pump, acpVars>>

(* session/new names an identifier. One that is taken fails the call. *)
SessionCreated(c, id) ==
  /\ calls[c].at = "creating session" /\ acp = "open"
  /\ IF Reusable(id)
     THEN Return(c, id)
     ELSE calls' = [calls EXCEPT ![c].at = "failed"] /\ UNCHANGED <<handles, sessions>>
  /\ UNCHANGED <<closed, reservations, forking, activeRun, runs, approvals, pump, acpVars>>

(* Mutant: a Session that is being resumed is not reserved. *)
ResumeUnreserved(c, id) ==
  /\ calls[c].at = "idle" /\ IsOpen /\ ~forking /\ Reusable(id)
  /\ calls' = [calls EXCEPT ![c] = [id |-> id, at |-> "resuming"]]
  /\ UNCHANGED <<closed, sessions, reservations, forking, handles, activeRun, runs, approvals, pump, acpVars>>

ResumeSession(c, id) ==
  /\ calls[c].at = "idle" /\ IsOpen /\ ~forking /\ Reusable(id)
  /\ calls' = [calls EXCEPT ![c] = [id |-> id, at |-> "resuming"]]
  /\ reservations' = reservations \cup {id}
  /\ UNCHANGED <<closed, sessions, forking, handles, activeRun, runs, approvals, pump, acpVars>>

SessionResumed(c) ==
  /\ calls[c].at = "resuming" /\ acp = "open"
  /\ Return(c, calls[c].id)
  /\ reservations' = reservations \ {calls[c].id}
  /\ UNCHANGED <<closed, forking, activeRun, runs, approvals, pump, acpVars>>

(* The Agent refuses to create or to resume. *)
SessionRefused(c) ==
  /\ calls[c].at \in {"creating session", "resuming"} /\ acp = "open"
  /\ calls' = [calls EXCEPT ![c].at = "failed"]
  /\ reservations' = reservations \ {calls[c].id}
  /\ UNCHANGED <<closed, sessions, forking, handles, activeRun, runs, approvals, pump, acpVars>>

(* Mutant: operationError passes the error on. *)
UncertainPassed(c) ==
  /\ calls[c].at \in {"creating session", "resuming"}
  /\ calls' = [calls EXCEPT ![c].at = "uncertain"]
  /\ reservations' = reservations \ {calls[c].id}
  /\ UNCHANGED <<closed, sessions, forking, handles, activeRun, runs, approvals, pump, acpVars>>

(* Its timer, a refused write or the end of the connection: whether the Agent did it is unknown. *)
SessionUncertain(c) ==
  /\ calls[c].at \in {"creating session", "resuming"}
  /\ calls' = [calls EXCEPT ![c].at = "uncertain"]
  /\ reservations' = reservations \ {calls[c].id}
  /\ Abort(runs, approvals)
  /\ UNCHANGED <<sessions, forking, handles, pump>>

HasActiveRun(id) == activeRun # NoRun /\ runs[activeRun].session = id

(* close() of a Session. What is refused (a fork, an active Run) leaves it open. *)
CloseSession(c) ==
  LET id == calls[c].id IN
  /\ handles[c] = "open" /\ ~forking
  /\ \/ /\ id \notin sessions
        /\ handles' = [handles EXCEPT ![c] = "closed"] /\ UNCHANGED reservations
     \/ /\ id \in sessions /\ ~HasActiveRun(id) /\ IsOpen
        /\ handles' = [handles EXCEPT ![c] = "closing"]
        /\ reservations' = reservations \cup {id}
     \/ /\ id \in sessions /\ ~HasActiveRun(id) /\ ~IsOpen
        /\ handles' = [handles EXCEPT ![c] = "unsafe"] /\ UNCHANGED reservations
  /\ UNCHANGED <<closed, sessions, forking, calls, activeRun, runs, approvals, pump, acpVars>>

SessionClosed(c, ok) ==
  LET id == calls[c].id IN
  /\ handles[c] = "closing" /\ acp = "open"
  /\ handles' = [handles EXCEPT ![c] = IF ok THEN "closed" ELSE "open"]
  /\ sessions' = IF ok THEN sessions \ {id} ELSE sessions
  /\ reservations' = reservations \ {id}
  /\ UNCHANGED <<closed, forking, calls, activeRun, runs, approvals, pump, acpVars>>

CloseUncertain(c) ==
  /\ handles[c] = "closing"
  /\ handles' = [handles EXCEPT ![c] = "unsafe"]
  /\ reservations' = reservations \ {calls[c].id}
  /\ Abort(runs, approvals)
  /\ UNCHANGED <<sessions, forking, calls, pump>>

-------------------------------------------------------------------------------
(* fork(): list the source and create the child at the Gateway, then attach it through ACP. *)

Fork(c, id) ==
  /\ calls[c].at = "idle" /\ IsOpen /\ ~forking
  /\ activeRun = NoRun /\ reservations = {}
  /\ forking' = TRUE
  /\ calls' = [calls EXCEPT ![c] = [id |-> id, at |-> "listing"]]
  /\ UNCHANGED <<closed, sessions, reservations, handles, activeRun, runs, approvals, pump, acpVars>>

ForkProceeds(c) ==
  /\ calls[c].at \in {"listing", "creating"} /\ IsOpen
  /\ calls' = [calls EXCEPT ![c].at = IF @ = "listing" THEN "creating" ELSE "attaching"]
  /\ UNCHANGED <<closed, sessions, reservations, forking, handles, activeRun, runs, approvals, pump, acpVars>>

ForkAttached(c, id) ==
  /\ calls[c].at = "attaching" /\ IsOpen /\ id # calls[c].id /\ Reusable(id)
  /\ Return(c, id)
  /\ forking' = FALSE
  /\ UNCHANGED <<closed, reservations, activeRun, runs, approvals, pump, acpVars>>

(* An error, the deadline, a closed connection, or a child with the identity of its parent or of    *)
(* another Session. Once the child was requested, the connection is given up.                       *)
ForkFails(c) ==
  /\ calls[c].at \in Forking
  /\ forking' = FALSE
  /\ IF calls[c].at = "listing"
     THEN /\ calls' = [calls EXCEPT ![c].at = "failed"]
          /\ UNCHANGED <<closed, activeRun, runs, approvals, acpVars>>
     ELSE /\ calls' = [calls EXCEPT ![c].at = "uncertain"]
          /\ Abort(runs, approvals)
  /\ UNCHANGED <<sessions, reservations, handles, pump>>

-------------------------------------------------------------------------------
(* Runs. *)

(* A session being cancelled: its AcpClient refuses prompts, and answers permissions by itself.      *)
Cancelling(id) ==
  \E r \in Runs : /\ runs[r].session = id
                  /\ \/ runs[r].cancel = "sending"
                     \/ runs[r].cancel = "settling" /\ runs[r].prompt = "waiting"

StartRun(r, c) ==
  /\ runs[r].phase = "none" /\ handles[c] = "open"
  /\ IsOpen /\ ~forking /\ activeRun = NoRun
  /\ activeRun' = r
  /\ runs' = [runs EXCEPT ![r] =
       Emit([@ EXCEPT !.phase = "active", !.session = calls[c].id,
                      !.prompt = IF Cancelling(calls[c].id) THEN "refused" ELSE "waiting"])]
  /\ UNCHANGED <<closed, sessionVars, approvals, pump, acpVars>>

(* The response, after the events before it: its stop reason is the result. *)
PromptAnswered(r, status) ==
  /\ runs[r].prompt = "waiting" /\ events = <<>>
  /\ FinishRun(r, status)
  /\ UNCHANGED <<sessionVars, pump>>

(* failPrompt: the Agent or the AcpClient refused the prompt. *)
PromptRefused(r) ==
  /\ runs[r].prompt \in {"waiting", "refused"}
  /\ FinishRun(r, "failed")
  /\ UNCHANGED <<sessionVars, pump>>

(* failPrompt: its timer or a refused write. *)
PromptUncertain(r) ==
  /\ runs[r].prompt = "waiting"
  /\ Abort([runs EXCEPT ![r].prompt = "uncertain"], approvals)
  /\ UNCHANGED <<sessionVars, pump>>

(* failPrompt, after the end of the AcpClient: only an invalid response is a protocol failure. *)
PromptLost(r) ==
  /\ runs[r].prompt = "lost"
  /\ LET now == [runs EXCEPT ![r].prompt = "settled"] IN
     IF Terminal(r)
     THEN runs' = now /\ UNCHANGED <<closed, activeRun, approvals, acpVars>>
     ELSE AfterLoss(now) \/ Abort(now, approvals)
  /\ UNCHANGED <<sessionVars, pump>>

(* session/update for a session, or an unknown message (NoId). *)
AgentSends(e) ==
  /\ acp = "open" /\ sent < MaxEvents
  /\ sent' = sent + 1 /\ events' = Append(events, e)
  /\ UNCHANGED <<closed, sessionVars, activeRun, runs, approvals, pump, acp>>

(* handleEvent *)
PumpEvent ==
  LET e    == Head(events)
      mine == activeRun # NoRun /\ e.session \in {NoId, runs[activeRun].session}
  IN
  /\ pump = "running" /\ events # <<>>
  /\ IF mine
     THEN LET got == [runs EXCEPT ![activeRun] = Receive(@, e.part)]
              full == got[activeRun].overflow
          IN IF full
             THEN Abort(got, approvals)
             ELSE /\ runs' = got /\ events' = Tail(events)
                  /\ UNCHANGED <<closed, activeRun, approvals, acp, sent>>
     ELSE events' = Tail(events) /\ UNCHANGED <<closed, activeRun, runs, approvals, acp, sent>>
  /\ UNCHANGED <<sessionVars, pump>>

(* A read of the events; what is left to read after the terminal event changes nothing else.        *)
ReadEvent(r) ==
  /\ runs[r].phase = "active" /\ ~runs[r].waiting
  /\ runs' = [runs EXCEPT ![r].queued = IF @ > 0 THEN @ - 1 ELSE 0,
                          ![r].waiting = runs[r].queued = 0]
  /\ UNCHANGED <<closed, sessionVars, activeRun, approvals, pump, acpVars>>

-------------------------------------------------------------------------------
(* Approvals. *)

(* requestPermission, as the AcpClient calls it for session id. Without an active Run in that        *)
(* session, or without options, the request is cancelled at once.                                   *)
RequestPermission(a, id) ==
  /\ approvals[a].told = "none" /\ acp = "open" /\ ~Cancelling(id)
  /\ \/ /\ HasActiveRun(id)
        /\ AbortIfFull([runs EXCEPT ![activeRun] = Request(@, a)],
             [approvals EXCEPT ![a] = [run |-> activeRun, state |-> "pending", told |-> "asked"]],
             activeRun)
     \/ /\ approvals' = [approvals EXCEPT ![a].state = "cancelled", ![a].told = "asked"]
        /\ UNCHANGED <<closed, activeRun, runs, acpVars>>
  /\ UNCHANGED <<sessionVars, pump>>

(* respond(), through an open Session of the Run. *)
Respond(a) ==
  LET r == approvals[a].run IN
  /\ approvals[a].state = "pending" /\ IsOpen
  /\ \E c \in Calls : handles[c] = "open" /\ calls[c].id = runs[r].session
  /\ AbortIfFull([runs EXCEPT ![r] = Resolve(@, {a})],
                 [approvals EXCEPT ![a].state = "selected"], r)
  /\ UNCHANGED <<sessionVars, pump>>

(* The AcpClient takes the outcome, if it has not answered before. *)
PermissionAnswered(a) ==
  /\ approvals[a].told = "asked" /\ approvals[a].state \in {"selected", "cancelled"}
  /\ approvals' = [approvals EXCEPT ![a].told = approvals[a].state]
  /\ UNCHANGED <<closed, sessionVars, activeRun, runs, pump, acpVars>>

-------------------------------------------------------------------------------
(* Cancellation, by the host or by the timer of RunOptions. *)

(* cancelSession() of the AcpClient answers what it has been asked for the session. *)
AnswerAsked(r) ==
  [a \in Approvals |->
     IF approvals[a].told = "asked" /\ approvals[a].run # NoRun
        /\ runs[approvals[a].run].session = runs[r].session
     THEN [approvals[a] EXCEPT !.told = "cancelled"] ELSE approvals[a]]

Cancel(r) ==
  /\ runs[r].phase = "active" /\ runs[r].cancel = "none"
  /\ runs' = [runs EXCEPT ![r].cancel = "sending"]
  /\ approvals' = IF acp = "open" THEN AnswerAsked(r) ELSE approvals
  /\ UNCHANGED <<closed, sessionVars, activeRun, pump, acpVars>>

CancelSent(r) ==
  /\ runs[r].cancel = "sending" /\ acp = "open"
  /\ runs' = [runs EXCEPT ![r].cancel = "settling"]
  /\ UNCHANGED <<closed, sessionVars, activeRun, approvals, pump, acpVars>>

(* A refused or failed write, or the end of the connection. *)
CancelNotSent(r) ==
  /\ runs[r].cancel = "sending"
  /\ Abort([runs EXCEPT ![r].cancel = "connection_aborted"], approvals)
  /\ UNCHANGED <<sessionVars, pump>>

ModeOf(status) ==
  CASE status = "cancelled" -> "native"
    [] status = "connection_aborted" -> "connection_aborted"
    [] OTHER -> "already_terminal"

CancelSettles(r) ==
  /\ runs[r].cancel = "settling" /\ Terminal(r)
  /\ runs' = [runs EXCEPT ![r].cancel = ModeOf(runs[r].phase)]
  /\ UNCHANGED <<closed, sessionVars, activeRun, approvals, pump, acpVars>>

(* Mutant: the time is up, and that is all. *)
GiveUpQuietly(r) ==
  /\ runs[r].cancel = "settling" /\ ~Terminal(r)
  /\ runs' = [runs EXCEPT ![r].cancel = "connection_aborted"]
  /\ UNCHANGED <<closed, sessionVars, activeRun, approvals, pump, acpVars>>

(* Mutant: the confirmation is awaited without a timer. *)
WaitsOn(r) == runs[r].cancel = "settling" /\ ~Terminal(r) /\ UNCHANGED vars

CancelTimesOut(r) ==
  /\ runs[r].cancel = "settling" /\ ~Terminal(r)
  /\ Abort([runs EXCEPT ![r].cancel = "connection_aborted"], approvals)
  /\ UNCHANGED <<sessionVars, pump>>

-------------------------------------------------------------------------------
Next ==
  \/ Close \/ PumpEnds \/ PumpEvent
  \/ \E how \in {"failed", "incompatible"} : AcpFails(how)
  \/ \E c \in Calls :
       \/ CreateSession(c) \/ SessionResumed(c) \/ SessionRefused(c) \/ SessionUncertain(c)
       \/ CloseSession(c) \/ CloseUncertain(c) \/ ForkProceeds(c) \/ ForkFails(c)
       \/ \E id \in Ids : SessionCreated(c, id) \/ ResumeSession(c, id)
                          \/ Fork(c, id) \/ ForkAttached(c, id)
       \/ \E ok \in BOOLEAN : SessionClosed(c, ok)
       \/ \E r \in Runs : StartRun(r, c)
  \/ \E r \in Runs :
       \/ PromptRefused(r) \/ PromptUncertain(r) \/ PromptLost(r) \/ ReadEvent(r)
       \/ Cancel(r) \/ CancelSent(r) \/ CancelNotSent(r) \/ CancelSettles(r) \/ CancelTimesOut(r)
       \/ \E status \in {"completed", "cancelled", "failed"} : PromptAnswered(r, status)
  \/ \E id \in Ids \cup {NoId}, part \in Parts \cup {"other"} :
       (id = NoId => part = "other") /\ AgentSends([session |-> id, part |-> part])
  \/ \E a \in Approvals :
       \/ Respond(a) \/ PermissionAnswered(a)
       \/ \E id \in Ids : RequestPermission(a, id)

Spec == Init /\ [][Next]_vars

(* Continuations run, the stream takes session/cancel or refuses it, timers fire: the one of the    *)
(* cancellation, and those of the requests and Gateway calls a fork waits for.                      *)
Fairness ==
  /\ WF_vars(PumpEnds)
  /\ \A r \in Runs : /\ WF_vars(PromptLost(r)) /\ WF_vars(CancelSent(r) \/ CancelNotSent(r))
                     /\ WF_vars(CancelSettles(r)) /\ WF_vars(CancelTimesOut(r))
  /\ \A c \in Calls : WF_vars(ForkFails(c))

FairSpec == Spec /\ Fairness

-------------------------------------------------------------------------------
Contract == INSTANCE RunContract WITH
  Interactions <- Approvals,
  status       <- [r \in Runs |-> runs[r].phase],
  requested    <- [r \in Runs |-> runs[r].requested],
  resolved     <- [r \in Runs |-> runs[r].resolved]

(* Each start() keeps the contract of a portable Run: one start, one terminal state, no event after  *)
(* it, and no interaction.resolved that was not requested.                                          *)
ImplementsRunContract == Contract!Spec

Live(c) == handles[c] \in {"open", "closing"}

(* "Active and in-flight native Session identifiers are reserved per connection. Closing [...] blocks *)
(* new Runs" (README.md:230-232), "A pending fork excludes new ACP operations" (README.md:394): on an *)
(* open connection two live handles never share a Session, no Run is active on a Session that is    *)
(* being closed, and a fork has neither a Run nor a reserved Session beside it.                     *)
OperationsExclude ==
  ~closed =>
    /\ \A c, d \in Calls : Live(c) /\ Live(d) /\ calls[c].id = calls[d].id => c = d
    /\ \A c \in Calls : handles[c] = "closing" => ~HasActiveRun(calls[c].id)
    /\ forking => activeRun = NoRun /\ reservations = {}

(* "A local ACP wait ending before an authoritative prompt or Session mutation response aborts the  *)
(* owning connection and never releases it for reuse" (README.md:256-258): while the client is open, *)
(* no outcome is unknown, and a prompt the Agent may be working on is the one of the active Run.    *)
NothingUncertainReused ==
  ~closed =>
    /\ \A r \in Runs : /\ runs[r].prompt \in {"waiting", "lost", "uncertain"} => activeRun = r
                       /\ runs[r].prompt # "uncertain"
                       /\ activeRun = r <=> runs[r].phase = "active"
    /\ \A c \in Calls : calls[c].at # "uncertain"
    /\ acp = "open" => \A c \in Calls : handles[c] # "unsafe"

(* An approval pends only with the active Run of an open client. What the Agent is told is what the  *)
(* stream of the Run reported and the host decided; the exception is a session that was cancelled,   *)
(* where the AcpClient has answered for the host already and respond() does not know. A Run that    *)
(* ends with its connection has resolved what it requested, if its queue had room.                  *)
ApprovalsTruthful ==
  /\ \A a \in Approvals : LET app == approvals[a] IN
       /\ app.state = "pending" => ~closed /\ app.run = activeRun
       /\ app.told = "selected" => /\ app.state = "selected"
                                   /\ a \in runs[app.run].resolved \/ runs[app.run].overflow
       /\ app.told = "cancelled" /\ app.state = "selected" =>
            \E r \in Runs : runs[r].session = runs[app.run].session /\ runs[r].cancel # "none"
  /\ \A r \in Runs : runs[r].phase = "connection_aborted" /\ ~runs[r].overflow
                      => runs[r].requested = runs[r].resolved

Cancelled(r) ==
  \/ runs[r].cancel = "native" /\ runs[r].phase = "cancelled"
  \/ runs[r].cancel = "already_terminal" /\ runs[r].phase \in {"completed", "failed"}
  \/ runs[r].cancel = "connection_aborted" /\ Terminal(r) /\ closed

(* "Reports { mode: 'native' } only after the authoritative prompt response is cancelled [...]      *)
(* Missing confirmation, process loss, or cancellation write failure aborts the connection"         *)
(* (README.md:265-269): the mode a cancel() settles with says what happened to its Run; that the     *)
(* connection was aborted may also be said of a Run that had settled by itself.                     *)
CancelTruthful == \A r \in Runs : runs[r].cancel \in CancelModes => Cancelled(r)

(* Sessions, reservations and forks exclude each other, nothing whose outcome is unknown is used     *)
(* again, and what the host, the Agent and a Run were told of approvals and cancellations is what   *)
(* happened. providers/openclaw/src/adapter.ts.                                                     *)
OpenClawSound ==
  TypeOK /\ OperationsExclude /\ NothingUncertainReused /\ ApprovalsTruthful /\ CancelTruthful

(* Every cancel() settles, and every fork that was begun ends, and with it the exclusion of          *)
(* everything else. A Run is cancelled once.                                                        *)
OperationsSettle == []<>(~forking /\ \A r \in Runs : runs[r].cancel \notin {"sending", "settling"})
================================================================================
