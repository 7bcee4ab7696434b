------------------------------ MODULE CodexClient ------------------------------
(* providers/codex around its Runs: the child process a connection owns, connectCodex, the end of    *)
(* the connection, and the Sessions and native Thread operations of one Client. CodexAdapter models  *)
(* Turns, interactions and events; here a Run is the call that begins it and its end.                *)
(*                                                                                                  *)
(* A call that was answered goes on in the same step. Abstracted: contents, and the elapsing of      *)
(* timers: one may fire at any time.                                                                *)
EXTENDS Naturals

CONSTANTS
  Threads,                \* native Threads; the Provider answers with any of them
  Calls,                  \* of createSession, resumeSession and fork, and the Sessions they return
  Turns,                  \* calls of start()
  NoThread, NoCall

ClientAssumption == NoThread \notin Threads /\ NoCall \notin Calls

VARIABLES
  child,                  \* the process: "none", "starting", "running" or "exited"
  termination,            \* terminateChild
  connect,                \* connectCodex
  wire,                   \* its transport: "none", "open" or "ended"
  clientClosed,           \* CodexClient.closed
  closing,                \* close() of the host: "none", "waiting", "resolved" or "rejected"
  calls,                  \* where each call is, and its Thread: of a fork the source, then the child
  sessions,               \* the CodexSession it returned: "none", "open" or "closed"
  knownThreads, ephemeralThreads,
  turns                   \* per start(): the Session it was called on, and where its Run is

processVars == <<child, termination, connect, wire>>
sessionVars == <<calls, sessions, knownThreads, ephemeralThreads, turns>>
clientVars  == <<processVars, clientClosed, closing, sessionVars>>

Ended == {"done", "failed"}
Waiting == {"creating", "creating ephemeral", "resuming", "reading", "forking"}

ClientTypeOK ==
  /\ child \in {"none", "starting", "running", "exited"}
  /\ termination \in {"none", "asked", "forced", "done", "failed"}
  /\ connect \in {"idle", "spawning", "initializing", "abandoning", "connected", "failed"}
  /\ wire \in {"none", "open", "ended"} /\ clientClosed \in BOOLEAN
  /\ closing \in {"none", "waiting", "resolved", "rejected"}
  /\ calls \in [Calls -> [at : {"idle"} \cup Waiting \cup Ended, thread : Threads \cup {NoThread}]]
  /\ sessions \in [Calls -> {"none", "open", "closed"}]
  /\ knownThreads \subseteq Threads /\ ephemeralThreads \subseteq knownThreads
  /\ turns \in [Turns -> [on : Calls \cup {NoCall}, at : {"none", "starting", "active", "ended"}]]

ClientInit ==
  /\ child = "none" /\ termination = "none" /\ connect = "idle" /\ wire = "none"
  /\ clientClosed = FALSE /\ closing = "none"
  /\ calls = [c \in Calls |-> [at |-> "idle", thread |-> NoThread]]
  /\ sessions = [c \in Calls |-> "none"] /\ knownThreads = {} /\ ephemeralThreads = {}
  /\ turns = [r \in Turns |-> [on |-> NoCall, at |-> "none"]]

-------------------------------------------------------------------------------
(* The process, and how it is ended. *)

(* processStarted: "spawn", or "error" when there is no such command. *)
Connect ==
  /\ connect = "idle"
  /\ connect' = "spawning" /\ child' = "starting"
  /\ UNCHANGED <<termination, wire, clientClosed, closing, sessionVars>>

Spawned ==
  /\ connect = "spawning"
  /\ connect' = "initializing" /\ child' = "running" /\ wire' = "open"
  /\ UNCHANGED <<termination, clientClosed, closing, sessionVars>>

SpawnFails ==
  /\ connect = "spawning"
  /\ connect' = "failed" /\ child' = "none"
  /\ UNCHANGED <<termination, wire, clientClosed, closing, sessionVars>>

(* Mutant: the cleanup does not look whether the process is there. *)
TerminateNothing == termination' = IF termination = "none" THEN "done" ELSE termination

(* terminateChild begins, as the cleanup of the transport that ends. *)
Terminate ==
  termination' = IF termination # "none" THEN termination ELSE IF child = "exited" THEN "done" ELSE "asked"

EndWire == wire' = "ended" /\ IF wire = "open" THEN Terminate ELSE UNCHANGED termination

(* The process exits: of itself, or because it was told. *)
ChildExits ==
  /\ child = "running"
  /\ child' = "exited"
  /\ termination' = IF termination \in {"asked", "forced"} THEN "done" ELSE termination
  /\ UNCHANGED <<connect, wire, clientClosed, closing, sessionVars>>

(* Mutant: SIGKILL is taken for an exit. *)
KilledMeansExited ==
  /\ child = "running" /\ termination \in {"asked", "forced"}
  /\ termination' = "done"
  /\ UNCHANGED <<child, connect, wire, clientClosed, closing, sessionVars>>

(* waitForChildExit gives up: SIGKILL follows SIGTERM, and after that an error. *)
ExitTimesOut ==
  /\ child = "running" /\ termination \in {"asked", "forced"}
  /\ termination' = IF termination = "asked" THEN "forced" ELSE "failed"
  /\ UNCHANGED <<child, connect, wire, clientClosed, closing, sessionVars>>

(* The streams end, with the process or before it; or a message is malformed. *)
WireFails ==
  /\ wire = "open"
  /\ EndWire
  /\ UNCHANGED <<child, connect, clientClosed, closing, sessionVars>>

(* initialize was answered and initialized written: the Client is made. *)
Initialized ==
  /\ connect = "initializing" /\ wire = "open"
  /\ connect' = "connected"
  /\ UNCHANGED <<child, termination, wire, clientClosed, closing, sessionVars>>

(* Either failed, or the answer is not the one of a compatible App Server: close(), of the transport. *)
InitializeFails ==
  /\ connect = "initializing"
  /\ connect' = "abandoning"
  /\ EndWire
  /\ UNCHANGED <<child, clientClosed, closing, sessionVars>>

CleanedUp == termination \in {"done", "failed"}

(* ... whose error is not reported. *)
ConnectFails ==
  /\ connect = "abandoning" /\ CleanedUp
  /\ connect' = "failed"
  /\ UNCHANGED <<child, termination, wire, clientClosed, closing, sessionVars>>

-------------------------------------------------------------------------------
(* The end of the Client. *)

EndTurns == turns' = [r \in Turns |-> IF turns[r].at = "active" THEN [turns[r] EXCEPT !.at = "ended"] ELSE turns[r]]

(* abortConnection, and closeOnce up to its wait: what is registered ends, what is starting is       *)
(* rejected later.                                                                                  *)
Abort ==
  IF clientClosed
  THEN UNCHANGED <<clientClosed, wire, termination, turns>>
  ELSE clientClosed' = TRUE /\ EndTurns /\ EndWire

(* pump: the loop over the messages ends with the transport. *)
PumpStops ==
  /\ connect = "connected" /\ wire = "ended" /\ ~clientClosed
  /\ Abort
  /\ UNCHANGED <<child, connect, closing, calls, sessions, knownThreads, ephemeralThreads>>

CloseClient ==
  /\ connect = "connected" /\ closing = "none"
  /\ closing' = "waiting"
  /\ Abort
  /\ UNCHANGED <<child, connect, calls, sessions, knownThreads, ephemeralThreads>>

CloseReturns ==
  /\ closing = "waiting" /\ CleanedUp
  /\ closing' = IF termination = "failed" THEN "rejected" ELSE "resolved"
  /\ UNCHANGED <<processVars, clientClosed, sessionVars>>

-------------------------------------------------------------------------------
(* Sessions. *)

Open == connect = "connected" /\ ~clientClosed

ClientSteps == UNCHANGED <<processVars, clientClosed, closing>>

Goes(c, at, t) == calls' = [calls EXCEPT ![c] = [at |-> at, thread |-> t]]

Begins(c, at, t) ==
  /\ calls[c].at = "idle" /\ Open
  /\ Goes(c, at, t)
  /\ ClientSteps /\ UNCHANGED <<sessions, knownThreads, ephemeralThreads, turns>>

(* A CodexSession of Thread t, which is known from now on. *)
Returns(c, t) ==
  /\ Goes(c, "done", t)
  /\ sessions' = [sessions EXCEPT ![c] = "open"]
  /\ knownThreads' = knownThreads \cup {t}

CreateSession(c, ephemeral) ==
  Begins(c, IF ephemeral THEN "creating ephemeral" ELSE "creating", NoThread)

SessionCreated(c, t) ==
  /\ calls[c].at \in {"creating", "creating ephemeral"} /\ wire = "open"
  /\ Returns(c, t)
  /\ ephemeralThreads' = ephemeralThreads \cup (IF calls[c].at = "creating" THEN {} ELSE {t})
  /\ ClientSteps /\ UNCHANGED turns

Forking(t) == \E c \in Calls : calls[c].at \in {"reading", "forking"} /\ calls[c].thread = t

ResumeSession(c, t) == t \notin ephemeralThreads /\ ~Forking(t) /\ Begins(c, "resuming", t)

(* Mutant: the Thread of a resumed Session is not remembered. *)
ResumedUnknown(c) ==
  /\ calls[c].at = "resuming" /\ wire = "open"
  /\ Goes(c, "done", calls[c].thread)
  /\ sessions' = [sessions EXCEPT ![c] = "open"]
  /\ ClientSteps /\ UNCHANGED <<knownThreads, ephemeralThreads, turns>>

SessionResumed(c) ==
  /\ calls[c].at = "resuming" /\ wire = "open"
  /\ Returns(c, calls[c].thread)
  /\ ClientSteps /\ UNCHANGED <<ephemeralThreads, turns>>

(* An error, a timer, an answer about another Thread; or thread/read refuses the source or finds the *)
(* Client closed.                                                                                   *)
CallFails(c) ==
  /\ calls[c].at \in Waiting \ {"forking"}
  /\ Goes(c, "failed", calls[c].thread)
  /\ ClientSteps /\ UNCHANGED <<sessions, knownThreads, ephemeralThreads, turns>>

(* Mutant: a startRun that waits for its Turn does not count. *)
ActiveTurnOnly(t) ==
  Forking(t) \/ \E r \in Turns : turns[r].at = "active" /\ calls[turns[r].on].thread = t

HasActiveTurn(t) ==
  Forking(t) \/ \E r \in Turns : turns[r].at \in {"starting", "active"} /\ calls[turns[r].on].thread = t

ForkSession(c, t) == t \notin ephemeralThreads /\ ~HasActiveTurn(t) /\ Begins(c, "reading", t)

(* assertCodexForkSource: idle and persisted. *)
SourceRead(c) ==
  /\ calls[c].at = "reading" /\ Open /\ wire = "open"
  /\ Goes(c, "forking", calls[c].thread)
  /\ ClientSteps /\ UNCHANGED <<sessions, knownThreads, ephemeralThreads, turns>>

(* parseCodexFork: a child of its own, that the connection did not know. *)
Forked(c, t) ==
  /\ calls[c].at = "forking" /\ Open /\ wire = "open"
  /\ t # calls[c].thread /\ t \notin knownThreads
  /\ Returns(c, t)
  /\ ClientSteps /\ UNCHANGED <<ephemeralThreads, turns>>

(* thread/fork was refused by the Provider; anything else leaves its outcome unknown. *)
ForkFails(c, refused) ==
  /\ calls[c].at = "forking"
  /\ Goes(c, "failed", calls[c].thread)
  /\ IF refused
     THEN wire = "open" /\ UNCHANGED <<clientClosed, wire, termination, turns>>
     ELSE Abort
  /\ UNCHANGED <<child, connect, closing, sessions, knownThreads, ephemeralThreads>>

StartTurn(r, c) ==
  /\ turns[r].at = "none" /\ sessions[c] = "open" /\ Open
  /\ ~HasActiveTurn(calls[c].thread)
  /\ turns' = [turns EXCEPT ![r] = [on |-> c, at |-> "starting"]]
  /\ ClientSteps /\ UNCHANGED <<calls, sessions, knownThreads, ephemeralThreads>>

(* turn/start is answered, or fails. *)
TurnStarts(r, ok) ==
  /\ turns[r].at = "starting" /\ (ok => wire = "open")
  /\ turns' = [turns EXCEPT ![r].at = IF ok THEN "active" ELSE "ended"]
  /\ ClientSteps /\ UNCHANGED <<calls, sessions, knownThreads, ephemeralThreads>>

TurnEnds(r) ==
  /\ turns[r].at = "active" /\ wire = "open"
  /\ turns' = [turns EXCEPT ![r].at = "ended"]
  /\ ClientSteps /\ UNCHANGED <<calls, sessions, knownThreads, ephemeralThreads>>

(* close() of a Session: refused while its Thread is active. *)
CloseSession(c) ==
  /\ sessions[c] = "open" /\ ~HasActiveTurn(calls[c].thread)
  /\ sessions' = [sessions EXCEPT ![c] = "closed"]
  /\ ClientSteps /\ UNCHANGED <<calls, knownThreads, ephemeralThreads, turns>>

-------------------------------------------------------------------------------
ClientNext ==
  \/ Connect \/ Spawned \/ SpawnFails \/ ChildExits \/ ExitTimesOut \/ WireFails
  \/ Initialized \/ InitializeFails \/ ConnectFails \/ PumpStops \/ CloseClient \/ CloseReturns
  \/ \E c \in Calls :
       \/ SessionResumed(c) \/ CallFails(c) \/ SourceRead(c) \/ CloseSession(c)
       \/ \E b \in BOOLEAN : CreateSession(c, b) \/ ForkFails(c, b)
       \/ \E t \in Threads : SessionCreated(c, t) \/ ResumeSession(c, t) \/ ForkSession(c, t) \/ Forked(c, t)
       \/ \E r \in Turns : StartTurn(r, c)
  \/ \E r \in Turns : TurnEnds(r) \/ \E ok \in BOOLEAN : TurnStarts(r, ok)

(* The process starts or does not, timers fire (those of requests and of termination), the loop over *)
(* the messages goes on. The process may never exit, and the App Server never answer.               *)
ClientFairness ==
  /\ WF_clientVars(Spawned \/ SpawnFails) /\ WF_clientVars(ExitTimesOut)
  /\ WF_clientVars(InitializeFails) /\ WF_clientVars(ConnectFails)
  /\ WF_clientVars(PumpStops) /\ WF_clientVars(CloseReturns)
  /\ \A c \in Calls : WF_clientVars(CallFails(c)) /\ WF_clientVars(ForkFails(c, FALSE))
  /\ \A r \in Turns : WF_clientVars(TurnStarts(r, FALSE))

-------------------------------------------------------------------------------
(* Profile ownership "adapter": a running process is connecting, in use, being ended, or was given   *)
(* up after SIGKILL. close() resolves only when it has exited and rejects only when it was given up; *)
(* a connect() that fails leaves a process behind in that one case, which it does not report.       *)
ChildOwned ==
  /\ child = "running" => wire = "open" \/ termination \in {"asked", "forced", "failed"}
  /\ connect = "failed" => child \in {"none", "exited"} \/ termination = "failed"
  /\ closing = "resolved" => child = "exited"
  /\ closing = "rejected" => termination = "failed"

(* "Cannot close a Codex Session with an active Run" (adapter.ts:828), and a closed Session starts   *)
(* none: no Run that was started on it is under way, one that waits for its Turn included.          *)
ClosedSessionsIdle ==
  \A r \in Turns : turns[r].at \in {"starting", "active"} => sessions[turns[r].on] = "open"

(* "The child must have a distinct ID" (README.md:406): a Session that fork() returns has a Thread   *)
(* no other Session of the connection has been returned for, while several operations were pending. *)
ForksFresh ==
  [][\A c, d \in Calls :
       calls[c].at = "forking" /\ calls'[c].at = "done" /\ sessions[d] # "none"
         => calls'[c].thread # calls[d].thread]_clientVars

(* Connecting and closing end, though the App Server may answer nothing and ignore SIGTERM and       *)
(* SIGKILL, and every call for a Session ends as well.                                              *)
ConnectionSettles ==
  /\ connect = "spawning" ~> connect \in {"connected", "failed"}
  /\ closing = "waiting" ~> closing \in {"resolved", "rejected"}
  /\ \A c \in Calls : calls[c].at \in Waiting ~> calls[c].at \in Ended
================================================================================
