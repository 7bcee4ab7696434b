----------------------------- MODULE HostRuntime -----------------------------
(* The two entry points of the package `harapter` and the connection they own.                   *)
(*   run()          connects, opens a Session, consumes one Run and releases everything;          *)
(*   openSession()  connects and opens a Session, then hands out a chat: a Session with send(),    *)
(*                  whose close() also releases its Client.                                      *)
(* Both race their setup against one deadline, and setup goes on after the deadline has won.      *)
(* The registry's connect() is part of it: it owns the Client until its probes have passed.       *)
(* The Client, the Session and its Runs are the provider's: each of their promises may settle     *)
(* either way, at any time or never. Only close() is assumed to settle (see Fairness).            *)
EXTENDS Naturals, FiniteSets, Sequences

CONSTANTS
  Sends,     \* calls of chat.send(), each made at most once
  Starts     \* calls of chat.start(), each made at most once

ASSUME CallsAssumption == Sends \cap Starts = {} /\ "main" \notin Sends \cup Starts

VARIABLES
  kind,           \* the entry point called: "run" or "openSession"
  stage,          \* where execute() or work() is waiting
  stopped,        \* the `stopped` flag of the entry point
  outcome,        \* what won Promise.race: "none" while neither has
  owned,          \* which of the variables `client` and `session` are set
  cleanup,        \* the close() the entry point's cleanup is awaiting; "done" when the call has settled
  cleanupFailed,
  handle,         \* the Client and the Session as the provider sees them
  task,           \* the provider's Runs: the one of run() ("main"), one per call on the chat
  closed, busy,   \* the flags of managedSession()
  closePromise,   \* the chat's shared close: "unset", "pending" or "settled"
  toClose,        \* the handles that close has still to release; the first is being awaited
  op              \* where each send() or start() of the chat is

setupVars == <<kind, stage, stopped, outcome, owned, cleanup, cleanupFailed>>
chatVars  == <<closed, busy, closePromise, toClose, op>>
vars      == <<setupVars, chatVars, handle, task>>

Calls   == Sends \cup Starts
Handles == {"client", "session"}
Probes  == {"descriptor", "capabilities"}
InCall  == {"starting", "events", "handler", "started", "aborting"}

(* A safe error is reported by its cause only as far as the properties tell causes apart. *)
TypeOK ==
  /\ kind \in {"run", "openSession"}
  /\ stage \in {"prepare", "connect", "rejecting", "lateClient", "create", "lateSession",
                "start", "events", "handler", "closing", "returned", "threw"} \cup Probes
  /\ {stopped, cleanupFailed, closed, busy} \subseteq BOOLEAN
  /\ outcome \in {"none", "ok", "timeout", "error"}
  /\ owned \subseteq Handles
  /\ cleanup \in {"none", "client", "session", "done"}
  /\ handle \in [Handles -> {"absent", "open", "closing", "closed", "failed"}]
  /\ task \in [Calls \cup {"main"} -> {"none", "starting", "active", "settled"}]
  /\ closePromise \in {"unset", "pending", "settled"}
  /\ toClose \in {<<>>, <<"client">>, <<"session">>, <<"client", "session">>, <<"session", "client">>}
  /\ op \in [Calls -> InCall \cup {"idle", "refused", "ok", "failed"}]

Init ==
  /\ kind \in {"run", "openSession"}
  /\ stage = "prepare" /\ outcome = "none" /\ cleanup = "none"
  /\ stopped = FALSE /\ cleanupFailed = FALSE /\ owned = {}
  /\ handle = [h \in Handles |-> "absent"]
  /\ task = [r \in Calls \cup {"main"} |-> "none"]
  /\ closed = FALSE /\ busy = FALSE /\ closePromise = "unset" /\ toClose = <<>>
  /\ op = [c \in Calls |-> "idle"]

-------------------------------------------------------------------------------
(* Handles. A second close() of a handle that is closed leaves it closed. *)

Calling(hs, h)      == [hs EXCEPT ![h] = "closing"]
Settling(hs, h, ok) == [hs EXCEPT ![h] = IF ok \/ @ = "closed" THEN "closed" ELSE "failed"]

(* The race is over: cleanup starts with the Client. An openSession() that succeeded keeps both. *)
Decide(o, hs) ==
  IF outcome # "none" THEN handle' = hs /\ UNCHANGED <<outcome, stopped, cleanup>>
  ELSE /\ outcome' = o
       /\ \/ /\ kind = "openSession" /\ o = "ok"
             /\ cleanup' = "done" /\ handle' = hs /\ UNCHANGED stopped
          \/ /\ kind = "run" \/ o # "ok"
             /\ cleanup' = "client" /\ stopped' = TRUE
             /\ handle' = IF "client" \in owned THEN Calling(hs, "client") ELSE hs

Throw(hs) == stage' = "threw" /\ Decide("error", hs)

-------------------------------------------------------------------------------
(* execute() and work(): the setup both share. *)

(* prepareRun() and createHarapter() own nothing yet. *)
Prepared ==
  /\ stage = "prepare"
  /\ \/ /\ ~stopped /\ stage' = "connect"
        /\ UNCHANGED <<handle, outcome, stopped, cleanup>>
     \/ Throw(handle)
  /\ UNCHANGED <<kind, owned, cleanupFailed, task, chatVars>>

(* factory.connect(): the registry owns the Client it yields. *)
FactoryConnected ==
  /\ stage = "connect"
  /\ \/ /\ stage' = "descriptor"
        /\ handle' = [handle EXCEPT !["client"] = "open"]
        /\ UNCHANGED <<outcome, stopped, cleanup>>
     \/ Throw(handle)
  /\ UNCHANGED <<kind, owned, cleanupFailed, task, chatVars>>

(* Mutant: a Client that arrives after the deadline is kept like any other. *)
ConnectedUnchecked == stage' = "create" /\ owned' = owned \cup {"client"} /\ UNCHANGED handle

(* connect() returns the Client: a late one is closed, any other is stored and asked for a Session. *)
Connected ==
  IF stopped THEN stage' = "lateClient" /\ handle' = Calling(handle, "client") /\ UNCHANGED owned
  ELSE stage' = "create" /\ owned' = owned \cup {"client"} /\ UNCHANGED handle

(* A probe that rejects, another identity and an unmet capability all end in rejectConnectedClient(). *)
ProbeSettles ==
  /\ stage \in Probes
  /\ \/ stage = "descriptor" /\ stage' = "capabilities" /\ UNCHANGED <<handle, owned>>
     \/ stage = "capabilities" /\ Connected
     \/ stage' = "rejecting" /\ handle' = Calling(handle, "client") /\ UNCHANGED owned
  /\ UNCHANGED <<kind, outcome, stopped, cleanup, cleanupFailed, task, chatVars>>

(* rejectConnectedClient() and the close() of a late handle: awaited, then setup throws. *)
RejectedHandleClosed ==
  /\ stage \in {"rejecting", "lateClient", "lateSession"}
  /\ \E ok \in BOOLEAN :
       Throw(Settling(handle, IF stage = "lateSession" THEN "session" ELSE "client", ok))
  /\ UNCHANGED <<kind, owned, cleanupFailed, task, chatVars>>

(* createSession() yields a Session: run() starts its Run, openSession() returns the chat. *)
KeepSession ==
  LET hs == [handle EXCEPT !["session"] = "open"] IN
  /\ ~stopped
  /\ owned' = owned \cup {"session"}
  /\ \/ /\ kind = "run"
        /\ stage' = "start" /\ task' = [task EXCEPT !["main"] = "starting"] /\ handle' = hs
        /\ UNCHANGED <<outcome, stopped, cleanup>>
     \/ /\ kind = "openSession"
        /\ stage' = "returned" /\ Decide("ok", hs) /\ UNCHANGED task

LateSession ==
  /\ stopped
  /\ stage' = "lateSession" /\ handle' = Calling(handle, "session")
  /\ UNCHANGED <<owned, task, outcome, stopped, cleanup>>

CreateSettles ==
  /\ stage = "create"
  /\ \/ KeepSession
     \/ LateSession
     \/ Throw(handle) /\ UNCHANGED <<owned, task>>
  /\ UNCHANGED <<kind, cleanupFailed, chatVars>>

-------------------------------------------------------------------------------
(* run(): one Run, its events, its result, and the Session closed while its Client is usable. *)

StartSettles ==
  /\ stage = "start"
  /\ \/ /\ task' = [task EXCEPT !["main"] = "active"]
        /\ \/ ~stopped /\ stage' = "events" /\ UNCHANGED <<handle, outcome, stopped, cleanup>>
           \/ stopped /\ Throw(handle)
     \/ task' = [task EXCEPT !["main"] = "settled"] /\ Throw(handle)
  /\ UNCHANGED <<kind, owned, cleanupFailed, chatVars>>

(* An event goes to onEvent; an interaction, any event after the deadline and an iterator or a      *)
(* result that rejects end the loop.                                                                *)
EventArrives ==
  /\ stage = "events" /\ task["main"] \in {"active", "settled"}
  /\ \/ ~stopped /\ stage' = "handler" /\ UNCHANGED <<handle, outcome, stopped, cleanup>>
     \/ Throw(handle)
  /\ UNCHANGED <<kind, owned, cleanupFailed, task, chatVars>>

HandlerSettles ==
  /\ stage = "handler"
  /\ \/ stage' = "events" /\ UNCHANGED <<handle, outcome, stopped, cleanup>>
     \/ Throw(handle)
  /\ UNCHANGED <<kind, owned, cleanupFailed, task, chatVars>>

(* The stream ends, which it does once the Run is settled: its result is there. *)
EventsEnd ==
  /\ stage = "events" /\ task["main"] = "settled"
  /\ \/ /\ ~stopped /\ stage' = "closing" /\ handle' = Calling(handle, "session")
        /\ UNCHANGED <<outcome, stopped, cleanup>>
     \/ stopped /\ Throw(handle)
  /\ UNCHANGED <<kind, owned, cleanupFailed, task, chatVars>>

SessionClosed ==
  /\ stage = "closing"
  /\ \/ /\ stage' = "returned" /\ owned' = owned \ {"session"}
        /\ Decide("ok", Settling(handle, "session", TRUE))
     \/ Throw(Settling(handle, "session", FALSE)) /\ UNCHANGED owned
  /\ UNCHANGED <<kind, cleanupFailed, task, chatVars>>

-------------------------------------------------------------------------------
(* The deadline and the cleanup of both entry points. *)

(* Mutant: the timer is cleared as soon as the Client is there. *)
DeadlineOfConnect ==
  /\ outcome = "none" /\ owned = {}
  /\ Decide("timeout", handle)
  /\ UNCHANGED <<kind, stage, owned, cleanupFailed, task, chatVars>>

Deadline ==
  /\ outcome = "none"
  /\ Decide("timeout", handle)
  /\ UNCHANGED <<kind, stage, owned, cleanupFailed, task, chatVars>>

(* client?.close() has settled: session?.close() is called, on what `session` holds by now. *)
ClientCleanedUp ==
  /\ cleanup = "client" /\ cleanup' = "session"
  /\ \E ok \in BOOLEAN :
       LET hs == IF "client" \in owned THEN Settling(handle, "client", ok) ELSE handle IN
       /\ cleanupFailed' = (cleanupFailed \/ ("client" \in owned /\ ~ok))
       /\ handle' = IF "session" \in owned THEN Calling(hs, "session") ELSE hs
  /\ UNCHANGED <<kind, stage, stopped, outcome, owned, task, chatVars>>

SessionCleanedUp ==
  /\ cleanup = "session" /\ cleanup' = "done"
  /\ \E ok \in BOOLEAN :
       /\ cleanupFailed' = (cleanupFailed \/ ("session" \in owned /\ ~ok))
       /\ handle' = IF "session" \in owned THEN Settling(handle, "session", ok) ELSE handle
  /\ UNCHANGED <<kind, stage, stopped, outcome, owned, task, chatVars>>

(* Mutant: a failed cleanup is not reported. *)
AnswerAnyway == outcome

(* What the settled call gives its caller. *)
Answer == IF outcome = "ok" /\ cleanupFailed THEN "connection_failed" ELSE outcome

-------------------------------------------------------------------------------
(* The chat of a successful openSession(). *)

ChatReturned == kind = "openSession" /\ outcome = "ok"

(* Mutant: every close() queues its own releases behind those in progress. *)
CloseAgain(abort) ==
  /\ closed' = TRUE /\ closePromise' = "pending"
  /\ toClose' = toClose \o (IF abort THEN <<"client", "session">> ELSE <<"session", "client">>)
  /\ handle' = Calling(handle, Head(toClose'))

(* Mutant: the Session goes first even when a Run is in progress. *)
CloseSessionFirst(abort) ==
  /\ closed' = TRUE
  /\ IF closePromise # "unset" THEN UNCHANGED <<closePromise, toClose, handle>>
     ELSE /\ closePromise' = "pending"
          /\ toClose' = <<"session", "client">>
          /\ handle' = Calling(handle, "session")

(* close(abort): one shared promise; with a Run in progress the Client goes first. *)
CloseChat(abort) ==
  /\ closed' = TRUE
  /\ IF closePromise # "unset" THEN UNCHANGED <<closePromise, toClose, handle>>
     ELSE /\ closePromise' = "pending"
          /\ toClose' = IF abort THEN <<"client", "session">> ELSE <<"session", "client">>
          /\ handle' = Calling(handle, Head(toClose'))

HostCloses ==
  /\ ChatReturned
  /\ CloseChat(busy)
  /\ UNCHANGED <<setupVars, busy, op, task>>

(* One close() has settled, either way: the next is called. *)
ChatCloseProceeds ==
  /\ closePromise = "pending"
  /\ toClose' = Tail(toClose)
  /\ \E ok \in BOOLEAN :
       LET hs == Settling(handle, Head(toClose), ok) IN
       IF toClose' = <<>> THEN handle' = hs /\ closePromise' = "settled"
       ELSE handle' = Calling(hs, Head(toClose')) /\ UNCHANGED closePromise
  /\ UNCHANGED <<setupVars, closed, busy, op, task>>

(* send() and start(): refused on a closed or busy chat, otherwise session.start() is called.      *)
(* A send() with invalid settings is refused before it changes anything.                            *)
CallBegins(c) ==
  /\ ChatReturned /\ op[c] = "idle"
  /\ \/ /\ closed \/ busy
        /\ op' = [op EXCEPT ![c] = "refused"] /\ UNCHANGED <<busy, task>>
     \/ /\ ~closed /\ ~busy
        /\ busy' = TRUE
        /\ op' = [op EXCEPT ![c] = "starting"] /\ task' = [task EXCEPT ![c] = "starting"]
  /\ UNCHANGED <<setupVars, closed, closePromise, toClose, handle>>

(* A send() whose race is lost awaits close(true) before it rejects. *)
SendFails(c) ==
  /\ op' = [op EXCEPT ![c] = "aborting"]
  /\ CloseChat(TRUE)
  /\ UNCHANGED busy

(* Mutant: start() clears `busy` as it returns, not when its Run has ended. *)
CallStartedFree(c) ==
  /\ task[c] = "starting"
  /\ task' = [task EXCEPT ![c] = "active"]
  /\ op' = IF op[c] # "starting" THEN op
           ELSE [op EXCEPT ![c] = IF c \in Sends THEN "events" ELSE "started"]
  /\ busy' = (busy /\ c \in Sends)
  /\ UNCHANGED <<setupVars, closed, closePromise, toClose, handle>>

(* session.start() yields a Run; a send() that has timed out in the meantime does not look at it. *)
CallStarted(c) ==
  /\ task[c] = "starting"
  /\ task' = [task EXCEPT ![c] = "active"]
  /\ op' = IF op[c] # "starting" THEN op
           ELSE [op EXCEPT ![c] = IF c \in Sends THEN "events" ELSE "started"]
  /\ UNCHANGED <<setupVars, closed, busy, closePromise, toClose, handle>>

StartRefused(c) ==
  /\ c \in Starts
  /\ op' = [op EXCEPT ![c] = "failed"] /\ busy' = FALSE
  /\ UNCHANGED <<closed, closePromise, toClose, handle>>

(* session.start() rejects. *)
CallNotStarted(c) ==
  /\ task[c] = "starting"
  /\ task' = [task EXCEPT ![c] = "settled"]
  /\ \/ StartRefused(c)
     \/ c \in Sends /\ op[c] = "starting" /\ SendFails(c)
     \/ op[c] # "starting" /\ UNCHANGED <<chatVars, handle>>
  /\ UNCHANGED setupVars

(* The loop of send(): an interaction, a failing onEvent or a rejecting stream ends it, as does its *)
(* deadline. What consume() does after that is its own: no one sees it.                             *)
SendEvent(c) ==
  /\ c \in Sends /\ op[c] = "events"
  /\ \/ op' = [op EXCEPT ![c] = "handler"] /\ UNCHANGED <<closed, busy, closePromise, toClose, handle>>
     \/ SendFails(c)
  /\ UNCHANGED <<setupVars, task>>

SendHandled(c) ==
  /\ op[c] = "handler"
  /\ \/ op' = [op EXCEPT ![c] = "events"] /\ UNCHANGED <<closed, busy, closePromise, toClose, handle>>
     \/ SendFails(c)
  /\ UNCHANGED <<setupVars, task>>

(* Mutant: the deadline is only looked at between events. *)
SendDeadlineBetweenEvents(c) ==
  /\ c \in Sends /\ op[c] \in {"starting", "events"}
  /\ SendFails(c)
  /\ UNCHANGED <<setupVars, task>>

SendDeadline(c) ==
  /\ c \in Sends /\ op[c] \in {"starting", "events", "handler"}
  /\ SendFails(c)
  /\ UNCHANGED <<setupVars, task>>

(* Mutant: send() rejects without awaiting close(true). *)
SendRejectsAtOnce(c) ==
  /\ op[c] = "aborting"
  /\ op' = [op EXCEPT ![c] = "failed"] /\ busy' = FALSE
  /\ UNCHANGED <<setupVars, closed, closePromise, toClose, handle, task>>

SendRejects(c) ==
  /\ op[c] = "aborting" /\ closePromise = "settled"
  /\ op' = [op EXCEPT ![c] = "failed"] /\ busy' = FALSE
  /\ UNCHANGED <<setupVars, closed, closePromise, toClose, handle, task>>

(* The result is there: send() returns it, and start() sees it to clear `busy`. *)
ResultSeen(c) ==
  /\ op[c] \in {"events", "started"} /\ task[c] = "settled"
  /\ op' = [op EXCEPT ![c] = "ok"] /\ busy' = FALSE
  /\ UNCHANGED <<setupVars, closed, closePromise, toClose, handle, task>>

(* The provider ends a Run, in whatever status. *)
RunEnds(r) ==
  /\ task[r] = "active"
  /\ task' = [task EXCEPT ![r] = "settled"]
  /\ UNCHANGED <<setupVars, chatVars, handle>>

-------------------------------------------------------------------------------
SetupNext ==
  \/ Prepared \/ FactoryConnected \/ ProbeSettles \/ RejectedHandleClosed \/ CreateSettles
  \/ StartSettles \/ EventArrives \/ HandlerSettles \/ EventsEnd \/ SessionClosed
  \/ Deadline \/ ClientCleanedUp \/ SessionCleanedUp

ChatNext ==
  \/ HostCloses \/ ChatCloseProceeds
  \/ \E c \in Calls : \/ CallBegins(c) \/ CallStarted(c) \/ CallNotStarted(c) \/ SendEvent(c)
                      \/ SendHandled(c) \/ SendDeadline(c) \/ SendRejects(c) \/ ResultSeen(c)

Next == SetupNext \/ ChatNext \/ \E r \in Calls \cup {"main"} : RunEnds(r)

Spec == Init /\ [][Next]_vars

(* The timers fire, microtasks run, and close() of a Client or a Session settles. Nothing else is  *)
(* assumed: connect, the probes, createSession, start, events and handlers may hang for ever.      *)
Fairness ==
  /\ WF_vars(Deadline) /\ WF_vars(ClientCleanedUp) /\ WF_vars(SessionCleanedUp)
  /\ WF_vars(ChatCloseProceeds)
  /\ \A c \in Sends : WF_vars(SendDeadline(c)) /\ WF_vars(SendRejects(c))

FairSpec == Spec /\ Fairness

-------------------------------------------------------------------------------
(* Nothing outlives the call, however late it arrives: once run() has settled, or openSession() has *)
(* failed, no Session is left open, and a Client only while the registry still probes it. The same  *)
(* of a chat whose close() has settled. (session.ts and run.ts: the checks of `stopped` after every *)
(* await; the probe is the case they do not reach.)                                                 *)
HandlesReleased ==
  (cleanup = "done" /\ (ChatReturned => closePromise = "settled")) =>
     /\ handle["session"] # "open"
     /\ handle["client"] = "open" => stage \in Probes

(* run() returns a result only when its Run has really ended and both handles were released        *)
(* without an error: a close() that failed is never hidden behind a result (run.ts:48-133). And a   *)
(* send() that rejects has closed the chat: both handles were asked to close before it rejected.    *)
OutcomesAreAuthoritative ==
  /\ (kind = "run" /\ cleanup = "done" /\ Answer = "ok") =>
        task["main"] = "settled" /\ \A h \in Handles : handle[h] = "closed"
  /\ \A c \in Sends : op[c] = "failed" =>
        closed /\ \A h \in Handles : handle[h] \in {"closed", "failed"}

(* "Client first: a Session may refuse to close while a Run is active" (run.ts): whichever path     *)
(* closes the Session, no Run is in progress on it, or the Client's close() has already settled; and *)
(* however many callers close a chat, each of its handles is closed once (closePromise).            *)
ClosesOnceInOrder ==
  [][ /\ handle["session"] # "closing" /\ handle'["session"] = "closing"
         => \/ \A r \in DOMAIN task : task[r] \notin {"starting", "active"}
            \/ handle'["client"] \in {"closed", "failed"}
      /\ ChatReturned => \A h \in Handles :
           handle[h] # "closing" /\ handle'[h] = "closing" => handle[h] = "open" ]_vars

(* A chat permits one active Run at a time, through send() and start() together, also while one of *)
(* them is failing and the chat is being closed (session.ts, busy and assertOpen).                 *)
OneRunAtATime == Cardinality({r \in DOMAIN task : task[r] \in {"starting", "active"}}) <= 1

(* `busy` is set exactly while a call is in progress: a chat that was used never stays busy, and is *)
(* never free under a call that has not settled (session.ts:118-195).                               *)
BusyTracksCalls == busy <=> \E c \in Calls : op[c] \in InCall

(* The deadline bounds the call: run() and openSession() settle although the provider never answers *)
(* anything but close(). So does send(): a message on which the provider hangs is given up.         *)
CallsSettle ==
  /\ <>(cleanup = "done")
  /\ \A c \in Sends : op[c] = "starting" ~> op[c] \in {"ok", "failed"}
==============================================================================
