------------------------------- MODULE DshGateway -------------------------------
(* providers/dsh over the Gateway: requests are POSTs, the log of an attached Session is a stream of *)
(* one WebSocket. One operation on Sessions at a time; one Run at a time, which is accepted by the    *)
(* answer to its prompt and ended by the log, in either order. What a write left uncertain closes    *)
(* the Client.                                                                                      *)
(*                                                                                                  *)
(* Abstracted: contents; the event queue of a Run, which has room or not; the elapsing of deadlines;  *)
(* sequence numbers, of which a frame says whether it is the next; the inbox next-step.              *)
EXTENDS Naturals, Sequences, FiniteSets

CONSTANTS
  Sessions, Runs,
  Foreign,                \* a message of another client
  MaxSessions,            \* limits.maxSessions
  MaxBuffered,            \* limits.maxBufferedEvents
  MaxOddities,            \* bound: refused operations, messages of others, irregular frames
  NoRun, NoSession

GatewayAssumption ==
  /\ NoRun \notin Runs /\ Foreign \notin Runs \cup {NoRun} /\ NoSession \notin Sessions
  /\ MaxSessions \in Nat \ {0} /\ MaxOddities \in Nat

VARIABLES
  closed,                 \* of the Client and its transport
  mutation,               \* the operation on Sessions under way
  attached,               \* Sessions of the Client
  logs,                   \* their GatewaySessionLog
  active, runs

(* Of the Gateway, and what is under way. *)
VARIABLES
  native,                 \* per Session: whether it exists, its inbox, the message of its turn and how far it is
  worked,                 \* per message: what became of it
  posts,                  \* per Run: what became of its POST
  streams,                \* per Session: frames that the Client has not read
  oddities

client == <<closed, mutation, attached, logs, active, runs>>
gateway == <<native, worked, posts, streams, oddities>>
gatewayVars == <<client, gateway>>

Messages == Runs \cup {Foreign}
Verdicts == {"completed", "cancelled", "failed"}
Terminals == Verdicts \cup {"connection_aborted"}
Turns == {"idle", "started", "claimed", "step", "said", "shown", "stepped"}
Log == [inbox: Seq(Messages), turn: BOOLEAN, step: BOOLEAN, request: Runs \cup {NoRun}, correlated: BOOLEAN,
        claim: {"none", "current", "past"}, final: Verdicts \cup {"none"}]
NoLog == [inbox |-> <<>>, turn |-> FALSE, step |-> FALSE, request |-> NoRun, correlated |-> FALSE,
          claim |-> "none", final |-> "none"]
Frame == [kind: {"snapshot", "insert", "claim", "cancel", "turn", "step", "user", "output", "stepEnd", "end",
                 "title", "seed", "required", "gap"},
          message: Messages \cup {NoRun}, verdict: Verdicts \cup {"none"}, log: Log]
NoMutation == [kind |-> "none", at |-> "none", session |-> NoSession, parent |-> NoSession]

GatewayTypeOK ==
  /\ closed \in BOOLEAN /\ attached \subseteq Sessions /\ active \in Runs \cup {NoRun}
  /\ mutation \in [kind: {"none", "create", "resume", "fork", "cancel"},
                   at: {"none", "post", "done", "refused", "follow"},
                   session: Sessions \cup {NoSession}, parent: Sessions \cup {NoSession}]
  /\ logs \in [Sessions -> Log]
  /\ runs \in [Runs -> [call: {"idle", "prompting", "returned", "refused"}, session: Sessions \cup {NoSession},
                        accepted: BOOLEAN, candidate: Verdicts \cup {"none"}, final: Terminals \cup {"none"}]]
  /\ native \in [Sessions -> [exists: BOOLEAN, fresh: BOOLEAN, inbox: Seq(Messages), message: Messages \cup {NoRun},
                              turn: Turns, followed: BOOLEAN]]
  /\ worked \in [Messages -> Verdicts \cup {"none", "queued", "working", "dropped"}]
  /\ posts \in [Runs -> {"none", "sent", "admitted", "refused"}]
  /\ streams \in [Sessions -> Seq(Frame)] /\ oddities \in 0..MaxOddities

GatewayInit ==
  /\ closed = FALSE /\ mutation = NoMutation /\ attached = {} /\ active = NoRun
  /\ logs = [s \in Sessions |-> NoLog]
  /\ runs = [r \in Runs |-> [call |-> "idle", session |-> NoSession, accepted |-> FALSE, candidate |-> "none",
                             final |-> "none"]]
  /\ native = [s \in Sessions |-> [exists |-> FALSE, fresh |-> FALSE, inbox |-> <<>>, message |-> NoRun,
                                   turn |-> "idle", followed |-> FALSE]]
  /\ worked = [m \in Messages |-> "none"] /\ posts = [r \in Runs |-> "none"]
  /\ streams = [s \in Sessions |-> <<>>] /\ oddities = 0

-------------------------------------------------------------------------------
(* GatewaySessionLog. *)

Idle(log) == ~log.turn /\ log.inbox = <<>>
Begun(log, r) == [log EXCEPT !.request = r, !.correlated = FALSE, !.claim = "none", !.final = "none"]
Released(log) == [log EXCEPT !.request = NoRun]
Owned(log) == log.request # NoRun

(* Mutant: input of others is not looked at. *)
AdmitsOthers(log, frame) ==
  CASE frame.kind = "insert" -> TRUE
    [] frame.kind = "claim"  -> log.inbox # <<>> /\ log.turn /\ log.claim = "none"
    [] frame.kind = "cancel" -> log.inbox # <<>>

(* splice: while a Run owns the log its message alone enters the inbox, and is claimed in a turn. *)
SpliceFits(log, frame) ==
  CASE frame.kind = "insert" -> Owned(log) => frame.message = log.request
    [] frame.kind = "claim"  -> /\ log.inbox # <<>>
                                /\ Owned(log) => (log.turn /\ log.claim = "none" /\ frame.message = log.request)
    [] frame.kind = "cancel" -> log.inbox # <<>>

Fits(log, frame) ==
  /\ (Owned(log) /\ log.final # "none") => frame.kind = "title"
  /\ CASE frame.kind \in {"insert", "claim", "cancel"} -> SpliceFits(log, frame)
       [] frame.kind = "turn"    -> ~log.turn
       [] frame.kind = "step"    -> log.turn /\ ~log.step
       [] frame.kind = "user"    -> Owned(log) => (log.claim = "current" /\ log.step /\ ~log.correlated
                                                   /\ frame.message = log.request)
       [] frame.kind = "output"  -> log.turn /\ log.step /\ (Owned(log) => log.correlated)
       [] frame.kind = "stepEnd" -> log.step
       [] frame.kind = "end"     -> log.turn /\ ~log.step /\ (Owned(log) => log.claim = "current")
       [] frame.kind = "seed"    -> ~log.turn /\ ~Owned(log)
       [] frame.kind = "title"   -> TRUE
       [] frame.kind \in {"required", "gap", "snapshot"} -> FALSE

Accepted(log, frame) ==
  CASE frame.kind = "insert"  -> [log EXCEPT !.inbox = Append(@, frame.message)]
    [] frame.kind = "claim"   -> [log EXCEPT !.inbox = Tail(@),
                                             !.claim = IF Owned(log) THEN "current" ELSE @]
    [] frame.kind = "cancel"  -> [log EXCEPT !.inbox = Tail(@)]
    [] frame.kind = "turn"    -> [log EXCEPT !.turn = TRUE]
    [] frame.kind = "step"    -> [log EXCEPT !.step = TRUE]
    [] frame.kind = "user"    -> [log EXCEPT !.correlated = Owned(log)]
    [] frame.kind = "stepEnd" -> [log EXCEPT !.step = FALSE]
    [] frame.kind = "end"     -> [log EXCEPT !.turn = FALSE, !.claim = IF @ = "current" THEN "past" ELSE @,
                                             !.final = IF Owned(log) THEN frame.verdict ELSE @]
    [] frame.kind \in {"output", "seed", "title"} -> log

-------------------------------------------------------------------------------
(* DshGatewayRun, and the end of the Client. *)

Over(r) == runs[r].final # "none"

(* finish, with its callback. *)
Finish(r, now, result) ==
  /\ runs' = [now EXCEPT ![r].final = IF @ = "none" THEN result ELSE @]
  /\ active' = IF active = r THEN NoRun ELSE active

Freed(r, nowLogs) == [nowLogs EXCEPT ![runs[r].session] = Released(@)]

(* abort: the Run ends, every stream and every request with it. *)
Abort ==
  /\ closed' = TRUE /\ streams' = [s \in Sessions |-> <<>>]
  /\ native' = [s \in Sessions |-> [native[s] EXCEPT !.followed = FALSE]]
  /\ active' = NoRun
  /\ runs' = [r \in Runs |-> IF active = r THEN [runs[r] EXCEPT !.final = "connection_aborted"] ELSE runs[r]]
  /\ logs' = [s \in Sessions |-> IF active # NoRun /\ runs[active].session = s THEN Released(logs[s]) ELSE logs[s]]

CloseGateway == (closed => attached # {}) /\ Abort /\ attached' = {} /\ UNCHANGED <<mutation, worked, posts, oddities>>
SocketEnds == ~closed /\ Abort /\ UNCHANGED <<mutation, attached, worked, posts, oddities>>
TimerFires(r) == active = r /\ Abort /\ UNCHANGED <<mutation, attached, worked, posts, oddities>>

-------------------------------------------------------------------------------
(* start. *)

StartRun(r, s) ==
  /\ ~closed /\ active = NoRun /\ mutation = NoMutation /\ s \in attached /\ runs[r].call = "idle"
  /\ Idle(logs[s]) /\ ~Owned(logs[s])
  /\ runs' = [runs EXCEPT ![r].call = "prompting", ![r].session = s]
  /\ active' = r /\ logs' = [logs EXCEPT ![s] = Begun(@, r)] /\ posts' = [posts EXCEPT ![r] = "sent"]
  /\ UNCHANGED <<closed, mutation, attached, native, worked, streams, oddities>>

(* Mutant: an end that came before the answer is forgotten. *)
EndForgotten(r) ==
  /\ runs[r].call = "prompting" /\ posts[r] = "admitted" /\ ~closed
  /\ runs' = [runs EXCEPT ![r].call = "returned", ![r].accepted = TRUE]
  /\ UNCHANGED <<closed, active, logs, native, streams, mutation, attached, worked, posts, oddities>>

(* The answer: accepted, and the log may have ended the Run before. *)
Acknowledged(r) ==
  /\ runs[r].call = "prompting" /\ posts[r] = "admitted" /\ ~closed
  /\ LET now == [runs EXCEPT ![r].call = "returned", ![r].accepted = TRUE]
     IN IF now[r].candidate # "none" THEN Finish(r, now, now[r].candidate) /\ logs' = Freed(r, logs)
        ELSE runs' = now /\ UNCHANGED <<active, logs>>
  /\ UNCHANGED <<closed, native, streams, mutation, attached, worked, posts, oddities>>

(* A precondition failed: the prompt was not taken. *)
Rejected(r) ==
  /\ runs[r].call = "prompting" /\ posts[r] = "refused" /\ ~closed
  /\ Finish(r, [runs EXCEPT ![r].call = "refused"], "failed") /\ logs' = Freed(r, logs)
  /\ UNCHANGED <<closed, native, streams, mutation, attached, worked, posts, oddities>>

(* Mutant: a prompt without an answer was not taken either. *)
PromptForgiven(r) ==
  /\ runs[r].call = "prompting"
  /\ Finish(r, [runs EXCEPT ![r].call = "refused"], "failed") /\ logs' = Freed(r, logs)
  /\ UNCHANGED <<closed, native, streams, mutation, attached, worked, posts, oddities>>

(* Nobody knows: the deadline, a lost answer, the end of the Client. *)
PromptUncertain(r) ==
  /\ runs[r].call = "prompting" /\ UNCHANGED <<mutation, attached, worked, posts, oddities>>
  /\ IF closed THEN runs' = [runs EXCEPT ![r].call = "refused"] /\ UNCHANGED <<closed, active, logs, native, streams>>
     ELSE /\ closed' = TRUE /\ streams' = [s \in Sessions |-> <<>>]
          /\ native' = [s \in Sessions |-> [native[s] EXCEPT !.followed = FALSE]]
          /\ Finish(r, [runs EXCEPT ![r].call = "refused"], "connection_aborted") /\ logs' = Freed(r, logs)

(* observe: one frame of an attached Session. A frame that does not fit closes the Client. *)
Observe(s, room) ==
  /\ ~closed /\ s \in attached /\ streams[s] # <<>>
  /\ LET frame == Head(streams[s])
         r     == active
         owner == active # NoRun /\ runs[active].session = s
         log   == Accepted(logs[s], frame)
     IN IF ~Fits(logs[s], frame) \/ (owner /\ ~room) THEN Abort
        ELSE /\ streams' = [streams EXCEPT ![s] = Tail(@)] /\ UNCHANGED <<closed, native>>
             /\ IF owner /\ log.final # "none"
                THEN LET now == [runs EXCEPT ![r].candidate = log.final]
                     IN IF runs[r].accepted
                        THEN Finish(r, now, log.final) /\ logs' = [logs EXCEPT ![s] = Released(log)]
                        ELSE runs' = now /\ logs' = [logs EXCEPT ![s] = log] /\ UNCHANGED active
                ELSE logs' = [logs EXCEPT ![s] = log] /\ UNCHANGED <<runs, active>>
  /\ UNCHANGED <<mutation, attached, worked, posts, oddities>>

-------------------------------------------------------------------------------
(* Sessions: mutate, attach, detach. *)

Capacity == Cardinality(attached) < MaxSessions
Begin(kind, at, s, parent) ==
  /\ ~closed /\ mutation = NoMutation
  /\ mutation' = [kind |-> kind, at |-> at, session |-> s, parent |-> parent]

Create ==
  Capacity /\ Begin("create", "post", NoSession, NoSession) /\ UNCHANGED <<closed, attached, logs, active, runs, gateway>>
Fork(s) ==
  /\ s \in attached /\ Capacity /\ Begin("fork", "post", NoSession, s)
  /\ UNCHANGED <<closed, attached, logs, active, runs, gateway>>
CancelSession(s) ==
  s \in attached /\ Begin("cancel", "post", s, NoSession) /\ UNCHANGED <<closed, attached, logs, active, runs, gateway>>

(* A Session that is attached already is returned without a word to the Gateway. *)
Resume(s) ==
  /\ native[s].exists /\ s \notin attached /\ Capacity /\ Begin("resume", "follow", s, NoSession)
  /\ UNCHANGED <<closed, attached, logs, active, runs, gateway>>

(* The receipt: the new Session is followed; cancelSession is done. *)
Receipt ==
  /\ mutation.at = "done" /\ ~closed
  /\ mutation' = IF mutation.kind = "cancel" THEN NoMutation ELSE [mutation EXCEPT !.at = "follow"]
  /\ UNCHANGED <<closed, attached, logs, active, runs, gateway>>

(* The first frame is the snapshot: the Session is attached. *)
Attach ==
  LET s == mutation.session IN
  /\ mutation.at = "follow" /\ ~closed /\ streams[s] # <<>> /\ Head(streams[s]).kind = "snapshot"
  /\ attached' = attached \cup {s} /\ logs' = [logs EXCEPT ![s] = Head(streams[s]).log]
  /\ streams' = [streams EXCEPT ![s] = Tail(@)] /\ mutation' = NoMutation
  /\ native' = [native EXCEPT ![s].fresh = FALSE]
  /\ UNCHANGED <<closed, active, runs, worked, posts, oddities>>

(* A precondition failed: nothing was written. *)
MutationRefused ==
  /\ mutation.at = "refused" /\ ~closed /\ mutation' = NoMutation
  /\ UNCHANGED <<closed, attached, logs, active, runs, gateway>>

Writes == mutation.kind \in {"create", "fork", "cancel"}

(* Mutant: an operation that failed leaves the Client as it is. *)
MutationForgiven ==
  /\ mutation # NoMutation /\ mutation' = NoMutation /\ UNCHANGED <<attached, worked, posts, oddities>>
  /\ UNCHANGED <<closed, logs, active, runs>>
  /\ IF mutation.at = "follow"
     THEN /\ native' = [native EXCEPT ![mutation.session].followed = FALSE]
          /\ streams' = [streams EXCEPT ![mutation.session] = <<>>]
     ELSE UNCHANGED <<native, streams>>

(* Deadlines, lost answers, snapshots that are not the Session's: who writes does not know. *)
MutationFails ==
  /\ mutation # NoMutation /\ mutation' = NoMutation /\ UNCHANGED <<attached, worked, posts, oddities>>
  /\ IF Writes /\ ~closed THEN Abort
     ELSE /\ UNCHANGED <<closed, logs, active, runs>>
          /\ IF mutation.at = "follow" /\ ~closed
             THEN /\ native' = [native EXCEPT ![mutation.session].followed = FALSE]
                  /\ streams' = [streams EXCEPT ![mutation.session] = <<>>]
             ELSE UNCHANGED <<native, streams>>

(* Mutant: the stream of a Session that is closed stays open. *)
DetachOnly(s) ==
  /\ ~closed /\ s \in attached /\ (active # NoRun => runs[active].session # s)
  /\ attached' = attached \ {s}
  /\ UNCHANGED <<closed, mutation, logs, active, runs, gateway>>

Detach(s) ==
  /\ ~closed /\ s \in attached /\ (active # NoRun => runs[active].session # s)
  /\ attached' = attached \ {s} /\ streams' = [streams EXCEPT ![s] = <<>>]
  /\ native' = [native EXCEPT ![s].followed = FALSE]
  /\ UNCHANGED <<closed, mutation, logs, active, runs, worked, posts, oddities>>

-------------------------------------------------------------------------------
(* The Gateway, which is not in the repository: it works on the inbox of each Session and sends what *)
(* the log gets to who follows it.                                                                  *)

Blank == [kind |-> "turn", message |-> NoRun, verdict |-> "none", log |-> NoLog]
Odd == oddities < MaxOddities /\ oddities' = oddities + 1

(* A stream with no place left ends the transport: SocketEnds. *)
Emits(s, frame) ==
  IF native[s].followed THEN Len(streams[s]) < MaxBuffered /\ streams' = [streams EXCEPT ![s] = Append(@, frame)]
  ELSE UNCHANGED streams

Says(s, kind) == Emits(s, [Blank EXCEPT !.kind = kind, !.message = native[s].message])

Creates(s, parent) ==
  /\ mutation.kind = (IF parent = NoSession THEN "create" ELSE "fork") /\ mutation.at = "post"
  /\ mutation.parent = parent /\ ~native[s].exists /\ ~closed
  /\ native' = [native EXCEPT ![s].exists = TRUE, ![s].fresh = TRUE]
  /\ mutation' = [mutation EXCEPT !.at = "done", !.session = s]
  /\ UNCHANGED <<closed, attached, logs, active, runs, worked, posts, streams, oddities>>

(* What it cancels is the turn; the inbox stays. *)
TakesCancel ==
  /\ mutation.kind = "cancel" /\ mutation.at = "post" /\ ~closed
  /\ mutation' = [mutation EXCEPT !.at = "done"]
  /\ UNCHANGED <<closed, attached, logs, active, runs, gateway>>

RefusesMutation ==
  /\ mutation.at = "post" /\ Odd /\ mutation' = [mutation EXCEPT !.at = "refused"]
  /\ UNCHANGED <<closed, attached, logs, active, runs, native, worked, posts, streams>>

Follows(s) ==
  /\ mutation.at = "follow" /\ mutation.session = s /\ ~native[s].followed /\ ~closed
  /\ native' = [native EXCEPT ![s].followed = TRUE]
  /\ streams' = [streams EXCEPT ![s] = <<[Blank EXCEPT !.kind = "snapshot",
                   !.log = [NoLog EXCEPT !.inbox = native[s].inbox, !.turn = native[s].turn # "idle",
                                         !.step = native[s].turn \in {"step", "said", "shown"}]]>>]
  /\ UNCHANGED <<client, worked, posts, oddities>>

Enqueues(m, s) ==
  /\ native[s].exists /\ worked[m] = "none" /\ worked' = [worked EXCEPT ![m] = "queued"]
  /\ native' = [native EXCEPT ![s].inbox = Append(@, m)]
  /\ Emits(s, [Blank EXCEPT !.kind = "insert", !.message = m])

(* Also after the Client gave up waiting. *)
Admits(r) ==
  /\ posts[r] = "sent" /\ Enqueues(r, runs[r].session) /\ posts' = [posts EXCEPT ![r] = "admitted"]
  /\ UNCHANGED <<client, oddities>>

Refuses(r) ==
  /\ posts[r] = "sent" /\ posts' = [posts EXCEPT ![r] = "refused"]
  /\ UNCHANGED <<client, native, worked, streams, oddities>>

OthersPrompt(s) == Odd /\ Enqueues(Foreign, s) /\ UNCHANGED <<client, posts>>

(* A message is taken out of the inbox and never worked on. *)
Drops(s) ==
  /\ native[s].inbox # <<>> /\ Odd
  /\ LET m == Head(native[s].inbox) IN
     /\ native' = [native EXCEPT ![s].inbox = Tail(@)] /\ worked' = [worked EXCEPT ![m] = "dropped"]
     /\ Emits(s, [Blank EXCEPT !.kind = "cancel", !.message = m])
  /\ UNCHANGED <<client, posts>>

Moves(s, from, to, kind) ==
  /\ native[s].turn = from /\ native' = [native EXCEPT ![s].turn = to] /\ Says(s, kind)
  /\ UNCHANGED <<client, worked, posts, oddities>>

Claims(s) ==
  /\ native[s].turn = "started" /\ native[s].inbox # <<>>
  /\ LET m == Head(native[s].inbox) IN
     /\ native' = [native EXCEPT ![s].turn = "claimed", ![s].message = m, ![s].inbox = Tail(@)]
     /\ worked' = [worked EXCEPT ![m] = "working"]
     /\ Emits(s, [Blank EXCEPT !.kind = "claim", !.message = m])
  /\ UNCHANGED <<client, posts, oddities>>

EndsTurn(s, verdict) ==
  /\ native[s].turn \in {"claimed", "stepped"}
  /\ native' = [native EXCEPT ![s].turn = "idle", ![s].message = NoRun]
  /\ worked' = [worked EXCEPT ![native[s].message] = verdict]
  /\ Emits(s, [Blank EXCEPT !.kind = "end", !.verdict = verdict])
  /\ UNCHANGED <<client, posts, oddities>>

Works(s) ==
  \/ native[s].inbox # <<>> /\ Moves(s, "idle", "started", "turn")
  \/ Claims(s)
  \/ Moves(s, "claimed", "step", "step") \/ Moves(s, "step", "said", "user") \/ Moves(s, "said", "shown", "output")
  \/ Moves(s, "said", "stepped", "stepEnd") \/ Moves(s, "shown", "stepped", "stepEnd")
  \/ \E verdict \in Verdicts : EndsTurn(s, verdict)

Irregular(s, kind) ==
  native[s].followed /\ Odd /\ Says(s, kind) /\ UNCHANGED <<client, native, worked, posts>>

-------------------------------------------------------------------------------
GatewayNext ==
  \/ CloseGateway \/ SocketEnds \/ Create \/ Receipt \/ Attach \/ MutationRefused \/ MutationFails
  \/ TakesCancel \/ RefusesMutation
  \/ \E r \in Runs :
       \/ \E s \in Sessions : StartRun(r, s)
       \/ Acknowledged(r) \/ Rejected(r) \/ PromptUncertain(r) \/ TimerFires(r) \/ Admits(r) \/ Refuses(r)
  \/ \E s \in Sessions :
       \/ Fork(s) \/ CancelSession(s) \/ Resume(s) \/ Detach(s)
       \/ Follows(s) \/ OthersPrompt(s) \/ Drops(s) \/ Works(s)
       \/ \E room \in BOOLEAN : Observe(s, room)
       \/ \E parent \in Sessions \cup {NoSession} : Creates(s, parent)
       \/ \E kind \in {"title", "seed", "required", "gap"} : Irregular(s, kind)

GatewaySpec == GatewayInit /\ [][GatewayNext]_gatewayVars

(* Deadlines of requests and snapshots elapse, frames are read, and the Gateway works on what is in  *)
(* an inbox. Every Run has a deadline, which is needed for a message that the Gateway drops.        *)
GatewayFairness ==
  /\ WF_gatewayVars(MutationFails)
  /\ \A r \in Runs : WF_gatewayVars(Acknowledged(r) \/ Rejected(r) \/ PromptUncertain(r))
                      /\ WF_gatewayVars(worked[r] = "dropped" /\ TimerFires(r))
  /\ \A s \in Sessions : WF_gatewayVars(Observe(s, TRUE)) /\ WF_gatewayVars(Works(s))

GatewayFairSpec == GatewaySpec /\ GatewayFairness

-------------------------------------------------------------------------------
(* A Run that was accepted ends as its own turn did. While the Client is in use the Gateway works on *)
(* nothing of a Run that is over, made no Session that the Client does not know of, and sends no log *)
(* that nobody reads; what is uncertain closes the Client.                                          *)
GatewaySound ==
  /\ GatewayTypeOK
  /\ \A r \in Runs :
       /\ runs[r].final \in {"completed", "cancelled"} => (runs[r].accepted /\ worked[r] = runs[r].final)
       /\ (runs[r].final = "failed" /\ runs[r].accepted) => worked[r] = "failed"
  /\ ~closed =>
       /\ \A r \in Runs : (posts[r] = "sent" \/ worked[r] \in {"queued", "working"}) => active = r
       /\ \A s \in Sessions : native[s].fresh => mutation.session = s
       /\ \A s \in Sessions : native[s].followed => (s \in attached \/ (mutation.at = "follow" /\ mutation.session = s))
       /\ \A s \in attached : Owned(logs[s]) => (active = logs[s].request /\ runs[active].session = s)
       /\ Cardinality({s \in Sessions : native[s].followed}) <= MaxSessions

SettledRun(r) == runs[r].call # "prompting" /\ Over(r)

(* Operations on Sessions and start calls come back, and every Run ends: by the log, however its     *)
(* receipt and its end race, and by its deadline alone when its message was dropped.                *)
GatewaySettles ==
  /\ []<>(mutation = NoMutation)
  /\ []<>(\A r \in Runs : runs[r].call # "idle" => SettledRun(r))

GatewayContract == INSTANCE RunContract WITH
  Interactions <- {},
  status <- [r \in Runs |-> IF Over(r) THEN runs[r].final ELSE IF runs[r].call = "idle" THEN "none" ELSE "active"],
  requested <- [r \in Runs |-> {}], resolved <- [r \in Runs |-> {}]

(* The Runs of the Gateway behave as the contract of a Run says. *)
GatewayImplementsRunContract == GatewayContract!Spec
================================================================================
