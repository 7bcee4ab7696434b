--------------------------- MODULE CodexAdapter ---------------------------
(***************************************************************************)
(* providers/codex/src/adapter.ts: CodexClient, its Runs, interactions,    *)
(* native forks and the pump that consumes the connection.                 *)
(*                                                                         *)
(* The adapter runs on one event loop over the JSON-RPC transport, which   *)
(* appears here as far as the adapter can tell: requests that settle, a    *)
(* queue of inbound messages, the reservations of inbound requests, and    *)
(* its end.  What a promise schedules when it settles is an action of its  *)
(* own: between the response to turn/start and the continuation of         *)
(* startRun other continuations run.                                       *)
(*                                                                         *)
(* Abstracted: the content of inputs, events and results.  A Turn is named *)
(* by the startRun call that began it; a Turn id the Provider used before  *)
(* is the separate outcome ReusedTurn.  Sessions are Threads.              *)
(***************************************************************************)
EXTENDS Naturals, Sequences, FiniteSets

CONSTANTS
  Threads,            \* Codex Threads of the client's Sessions
  Runs,               \* startRun calls, and the Turns they begin
  WireIds,            \* identifiers of the Provider's requests
  MaxRunEvents,       \* EventQueue capacity of one Run
  MaxMessages,        \* bound: messages the Provider sends
  MaxInteractions,    \* bound: interactionSerial
  NoRun, NoThread, NoWire

CapacityAssumption == MaxRunEvents \in Nat /\ MaxRunEvents >= 2

NullAssumption == NoRun \notin Runs /\ NoThread \notin Threads

ASSUME CapacityAssumption
ASSUME NullAssumption

VARIABLES
  closed,             \* CodexClient.closed
  runs,               \* per startRun call: the call, then its CodexRun
  activeByThread,     \* Thread -> its active Run or NoRun
  activeByTurn,       \* Runs registered by their Turn
  startingByThread,   \* Thread -> the call waiting for turn/start or NoRun
  forks,              \* per Thread: the step its forkSession waits for
  interactions,       \* interaction number -> its wire id and Run
  pendingByLocalId,   \* numbers of the pending interactions
  pendingByWireKey,   \* wire id -> number of its pending interaction, or 0
  answering,          \* numbers whose respond() waits for the transport
  pump                \* the loop over transport.incoming()

(* The transport. *)
VARIABLES
  transport,          \* "open", or how it ended: "failed" or "closed"
  inbound,            \* messages not yet handed to the pump
  sent,               \* number of messages the Provider sent (bound)
  wirePending, wireResponding, wireAbandoning

runVars   == <<runs, activeByThread, activeByTurn, startingByThread>>
interVars == <<interactions, pendingByLocalId, pendingByWireKey, answering>>
wireVars  == <<wirePending, wireResponding, wireAbandoning>>
vars == <<closed, runVars, forks, interVars, pump, transport, inbound, sent, wireVars>>

Terminals == {"completed", "cancelled", "failed", "connection_aborted"}

(* phase: a startRun call not made, waiting for turn/start, with its       *)
(* promise settled but not resumed, refused; or the Run it returned.       *)
(* cancel: cancelOnce waiting for the Provider's start, for turn/interrupt,*)
(* for settlement without or with an acknowledged interrupt; or its result.*)
(* queued, waiting: EventQueue.values and whether a read is pending.       *)
(* requested, resolved: interaction events accepted by the queue.          *)
CancelWaits == {"waitStart", "interrupting", "waitSettle", "acknowledged"}

RunRecord ==
  [phase: {"idle", "starting", "responded", "rejected", "refused", "active"}
            \cup Terminals,
   thread: Threads \cup {NoThread},
   cancel: {"none", "native", "connection_aborted", "already_terminal", "error"}
             \cup CancelWaits,
   providerStart: {"unknown", "yes", "no"}, timedOut: BOOLEAN,
   queued: 0..MaxRunEvents, waiting: BOOLEAN,
   requested: SUBSET Nat, resolved: SUBSET Nat,
   overflow: BOOLEAN]

Terminal(r) == runs[r].phase \in Terminals
Active(r)   == runs[r].phase = "active"

Message(type, turn, wire) == [type |-> type, turn |-> turn, wire |-> wire]

(* mapTerminal: the result a turn/completed of each status stands for. An  *)
(* unknown status ("other") is a failure; a malformed turn/completed       *)
(* ("incomplete") ends nothing.                                            *)
MapTerminal ==
  [completed |-> "completed", interrupted |-> "cancelled", failed |-> "failed",
   other |-> "failed"]

TerminalMessages == DOMAIN MapTerminal

(* What mapCodexNotification makes an event of, apart from the end.        *)
MappedToEvents == {"update", "incomplete", "other"}

TurnNotifications == {"started", "update", "incomplete"} \cup TerminalMessages

Init ==
  /\ closed = FALSE
  /\ runs = [r \in Runs |->
               [phase |-> "idle", thread |-> NoThread, cancel |-> "none",
                providerStart |-> "unknown", timedOut |-> FALSE, queued |-> 0,
                waiting |-> FALSE, requested |-> {}, resolved |-> {},
                overflow |-> FALSE]]
  /\ activeByThread = [t \in Threads |-> NoRun]
  /\ activeByTurn = {}
  /\ startingByThread = [t \in Threads |-> NoRun]
  /\ forks = [t \in Threads |-> "none"]
  /\ interactions = <<>>
  /\ pendingByLocalId = {} /\ answering = {}
  /\ pendingByWireKey = [w \in WireIds |-> 0]
  /\ pump = [state |-> "next"]
  /\ transport = "open" /\ inbound = <<>> /\ sent = 0
  /\ wirePending = {} /\ wireResponding = {} /\ wireAbandoning = {}

----------------------------------------------------------------------------
(* Runs as values: what one event does to a CodexRun record. *)

(* Mutant: no place is kept for the terminal event. *)
RoomWithoutReserve(run) == MaxRunEvents - run.queued + (IF run.waiting THEN 1 ELSE 0)

(* EventQueue.push keeps one place for the terminal event; a pending read  *)
(* takes an event past the queue. *)
Room(run) == MaxRunEvents - 1 - run.queued + (IF run.waiting THEN 1 ELSE 0)

Enqueue(run, n) ==
  [run EXCEPT !.queued = @ + n - (IF run.waiting /\ n > 0 THEN 1 ELSE 0),
              !.waiting = @ /\ n = 0]

(* CodexRun.emit of an ordinary event. *)
Emit(run) ==
  IF run.phase # "active" THEN run
  ELSE IF Room(run) > 0 THEN Enqueue(run, 1) ELSE [run EXCEPT !.overflow = TRUE]

EmitRequested(run, s) ==
  IF run.phase # "active" THEN run
  ELSE IF Room(run) > 0 THEN [Enqueue(run, 1) EXCEPT !.requested = @ \cup {s}]
  ELSE [run EXCEPT !.overflow = TRUE]

(* interaction.resolved of every interaction of S, in their order, as far  *)
(* as the queue has room. *)
EmitResolved(run, S) ==
  LET fit == {s \in S : Cardinality({t \in S : t < s}) < Room(run)} IN
    IF run.phase # "active" THEN run
    ELSE [Enqueue(run, Cardinality(fit)) EXCEPT
            !.resolved = @ \cup fit, !.overflow = @ \/ fit # S]

(* Mutant: a late terminal event replaces the result of a settled Run. *)
FinishAgain(run, result) ==
  IF run.phase \notin {"active"} \cup Terminals THEN run
  ELSE [run EXCEPT !.phase = result, !.providerStart = IF @ = "unknown" THEN "no" ELSE @]

(* CodexRun.finish: pushTerminal needs no room. *)
Finish(run, result) ==
  IF run.phase # "active" THEN run
  ELSE [run EXCEPT !.phase = result,
                   !.providerStart = IF @ = "unknown" THEN "no" ELSE @,
                   !.queued = @ + (IF run.waiting THEN 0 ELSE 1),
                   !.waiting = FALSE]

(* Mutant: the interactions of a Run are not looked up. *)
ForgetsPending(r, pending) == {s \in pending : s = 0}

PendingOf(r, pending) == {s \in pending : interactions[s].run = r}

(* settlePending and removePending of the numbers S. *)
WiresOf(S) == {interactions[s].wire : s \in S}

ForgetPending(S) ==
  /\ pendingByLocalId' = pendingByLocalId \ S
  /\ pendingByWireKey' = [w \in WireIds |->
                            IF w \in WiresOf(S) THEN 0 ELSE pendingByWireKey[w]]

(* Mutant: the reservation in the transport is kept. *)
KeepReservation(W) == UNCHANGED <<wirePending, wireAbandoning>>

(* abandonInboundRequest of the wire ids W: deferred while responding. *)
Abandon(W) ==
  /\ wirePending' = wirePending \ (W \ wireResponding)
  /\ wireAbandoning' = wireAbandoning \cup (W \cap wirePending \cap wireResponding)

----------------------------------------------------------------------------
(* The end of the connection. *)

(* Requests that wait for the transport are rejected when it ends; the     *)
(* reservations, queued messages and a pump waiting for one are dropped.   *)
EndTransport(how) ==
  /\ transport' = IF transport = "open" THEN how ELSE transport
  /\ inbound' = <<>>
  /\ wirePending' = {} /\ wireResponding' = {} /\ wireAbandoning' = {}

RejectStarting(run) ==
  IF run.phase = "starting" THEN [run EXCEPT !.phase = "rejected"] ELSE run

(* Mutant: the Runs are aborted before their interactions are resolved. *)
AbortBeforeResolving(now, pending) ==
  [r \in Runs |->
     RejectStarting(IF r \in activeByTurn
                    THEN EmitResolved(Finish(now[r], "connection_aborted"),
                                      PendingOf(r, pending))
                    ELSE now[r])]

(* abortConnection and closeOnce, from the Runs `now` a step reached: each *)
(* registered Run resolves what it still has pending and is aborted.       *)
AbortRuns(now, pending) ==
  [r \in Runs |->
     RejectStarting(IF r \in activeByTurn
                    THEN Finish(EmitResolved(now[r], PendingOf(r, pending)),
                                "connection_aborted")
                    ELSE now[r])]

AbortConnection(now, pending) ==
  IF closed
  THEN /\ runs' = now
       /\ UNCHANGED <<closed, activeByThread, activeByTurn, pendingByLocalId,
                      pendingByWireKey, transport, inbound, wireVars>>
  ELSE /\ closed' = TRUE
       /\ runs' = AbortRuns(now, pending)
       /\ activeByTurn' = {}
       /\ activeByThread' = [t \in Threads |->
                               IF activeByThread[t] \in activeByTurn
                               THEN NoRun ELSE activeByThread[t]]
       /\ pendingByLocalId' = {}
       /\ pendingByWireKey' = [w \in WireIds |-> 0]
       /\ EndTransport("closed")

(* A step that leaves the Runs as `now`, where Run r may have found its    *)
(* queue full: then the connection is aborted instead of `otherwise`.      *)
UnlessFull(now, r, pending, otherwise) ==
  IF now[r].overflow /\ ~runs[r].overflow /\ ~closed
  THEN AbortConnection(now, pending)
  ELSE runs' = now /\ otherwise

(* HarnessClient.close(), once. *)
Close ==
  /\ ~closed
  /\ AbortConnection(runs, pendingByLocalId)
  /\ UNCHANGED <<startingByThread, forks, interactions, answering, pump, sent>>

(* A stream or protocol failure, or a full inbound queue.  The pump learns *)
(* of it when it asks for the next message.                                *)
TransportFails ==
  /\ transport = "open"
  /\ EndTransport("failed")
  /\ runs' = [r \in Runs |-> RejectStarting(runs[r])]
  /\ UNCHANGED <<closed, activeByThread, activeByTurn, startingByThread, forks,
                 interVars, pump, sent>>

----------------------------------------------------------------------------
(* startRun. *)

(* Mutant: a startRun that waits for turn/start does not count. *)
HasRegisteredRun(t) == activeByThread[t] # NoRun \/ forks[t] # "none"

HasActiveRun(t) ==
  \/ activeByThread[t] # NoRun
  \/ startingByThread[t] # NoRun
  \/ forks[t] # "none"

StartRun(r, t) ==
  /\ runs[r].phase = "idle"
  /\ ~closed
  /\ ~HasActiveRun(t)
  /\ runs' = [runs EXCEPT ![r].phase = IF transport = "open" THEN "starting"
                                       ELSE "rejected",
                          ![r].thread = t]
  /\ startingByThread' = [startingByThread EXCEPT ![t] = r]
  /\ UNCHANGED <<closed, activeByThread, activeByTurn, forks, interVars, pump,
                 transport, inbound, sent, wireVars>>

(* The promise of turn/start settles: a response, or a remote error, the   *)
(* timer or a refused write. *)
TurnStartSettles(r) ==
  /\ runs[r].phase = "starting"
  /\ runs' \in {[runs EXCEPT ![r].phase = p] : p \in {"responded", "rejected"}}
  /\ UNCHANGED <<closed, activeByThread, activeByTurn, startingByThread, forks,
                 interVars, pump, transport, inbound, sent, wireVars>>

StopStarting(r) ==
  startingByThread' = [t \in Threads |->
    IF startingByThread[t] = r THEN NoRun ELSE startingByThread[t]]

(* startRun resumes with a fresh Turn: the Run is created, reports         *)
(* run.started, is registered and returned.                                *)
RunStarts(r) ==
  /\ runs[r].phase = "responded"
  /\ runs' = [runs EXCEPT ![r] = Emit([@ EXCEPT !.phase = "active"])]
  /\ activeByThread' = [activeByThread EXCEPT ![runs[r].thread] = r]
  /\ activeByTurn' = activeByTurn \cup {r}
  /\ StopStarting(r)
  /\ UNCHANGED <<closed, forks, interVars, pump, transport, inbound, sent, wireVars>>

(* startRun resumes with a Turn id of an earlier Turn. *)
ReusedTurn(r) ==
  /\ runs[r].phase = "responded"
  /\ \E q \in Runs \ {r} : Active(q) \/ Terminal(q)
  /\ AbortConnection([runs EXCEPT ![r].phase = "refused"], pendingByLocalId)
  /\ StopStarting(r)
  /\ UNCHANGED <<forks, interactions, answering, pump, sent>>

StartFails(r) ==
  /\ runs[r].phase = "rejected"
  /\ runs' = [runs EXCEPT ![r].phase = "refused"]
  /\ StopStarting(r)
  /\ UNCHANGED <<closed, activeByThread, activeByTurn, forks, interVars, pump,
                 transport, inbound, sent, wireVars>>

(* Promise continuations run before the next callback of the event loop,   *)
(* and the one of turn/start is scheduled by the response itself.  So only *)
(* what the same callback schedules or causes can come before it: host     *)
(* code and a forkSession that resume from an earlier response of the same *)
(* chunk, and the rest of that chunk.  Everything else (the pump, which    *)
(* takes several turns of the microtask queue for a message, timers, write *)
(* callbacks) waits for it.                                                *)
Quiet == \A r \in Runs : runs[r].phase # "responded"

----------------------------------------------------------------------------
(* forkSession: thread/read, then thread/fork. *)

ForkVars == <<startingByThread, interactions, answering, pump, sent>>

Fork(t) ==
  /\ ~closed
  /\ ~HasActiveRun(t)
  /\ forks' = [forks EXCEPT ![t] = "read"]
  /\ UNCHANGED <<closed, runVars, interVars, pump, transport, inbound, sent, wireVars>>

(* thread/read answered, and the client still open: request the fork.      *)
ForkRequested(t) ==
  /\ forks[t] = "read"
  /\ transport = "open" /\ ~closed
  /\ forks' = [forks EXCEPT ![t] = "fork"]
  /\ UNCHANGED <<closed, runVars, interVars, pump, transport, inbound, sent, wireVars>>

(* The fork is done or rejected by the Provider, or never was requested.   *)
ForkEnds(t) ==
  /\ \/ forks[t] = "read"
     \/ forks[t] = "fork" /\ ~closed /\ transport = "open"
  /\ forks' = [forks EXCEPT ![t] = "none"]
  /\ UNCHANGED <<closed, runVars, interVars, pump, transport, inbound, sent, wireVars>>

(* Any other end of thread/fork leaves its outcome unknown. *)
ForkUncertain(t) ==
  /\ forks[t] = "fork"
  /\ transport # "open" => Quiet
  /\ forks' = [forks EXCEPT ![t] = "none"]
  /\ AbortConnection(runs, pendingByLocalId)
  /\ UNCHANGED ForkVars

----------------------------------------------------------------------------
(* The Provider, and the pump over its messages. *)

(* Notifications and requests about a Turn it knows, in the order sent.    *)
(* An outstanding wire id used again is a malformed message instead, which *)
(* TransportFails covers.                                                  *)
ProviderSends(m) ==
  /\ transport = "open" /\ sent < MaxMessages
  /\ m.type \in {"request"} \cup TurnNotifications =>
       runs[m.turn].phase # "idle"
  /\ m.type = "request" => /\ m.wire \notin wirePending
                           /\ Len(interactions) < MaxInteractions
  /\ sent' = sent + 1
  /\ inbound' = Append(inbound, m)
  /\ wirePending' = IF m.type = "request" THEN wirePending \cup {m.wire} ELSE wirePending
  /\ UNCHANGED <<closed, runVars, forks, interVars, pump, transport, wireResponding,
                 wireAbandoning>>

Messages ==
  {Message("request", r, w) : r \in Runs, w \in WireIds}
    \cup {Message(type, r, NoWire) : type \in TurnNotifications, r \in Runs}
    \cup {Message("resolved", NoRun, w) : w \in WireIds}

Routing(m, awaited) == [state |-> "routing", message |-> m, awaited |-> awaited]
Routed(m, r) == [state |-> "routed", message |-> m, run |-> r]

(* Mutant: whatever comes for the Thread is the active Run's. *)
RouteByThread(turn) == activeByThread[runs[turn].thread]

Route(turn) == IF turn \in activeByTurn THEN turn ELSE NoRun

(* The loop throws: its iterator closes the transport, the catch aborts.   *)
PumpThrows ==
  /\ pump' = [state |-> "stopped"]
  /\ AbortConnection(runs, pendingByLocalId)
  /\ UNCHANGED <<startingByThread, forks, interactions, answering, sent>>

(* The iterator hands a message to the loop. *)
PumpTakes ==
  /\ pump.state = "next" /\ inbound # <<>>
  /\ pump' = [state |-> "taken", message |-> Head(inbound)]
  /\ inbound' = Tail(inbound)
  /\ UNCHANGED <<closed, runVars, forks, interVars, transport, sent, wireVars>>

Takes(types) == pump.state = "taken" /\ pump.message.type \in types

PumpDone == pump' = [state |-> "next"]

(* handleNotification of serverRequest/resolved: the Provider resolved the *)
(* interaction, whose inbound request is abandoned.                        *)
PumpResolved ==
  /\ Takes({"resolved"})
  /\ PumpDone
  /\ LET s == pendingByWireKey[pump.message.wire]
         r == interactions[s].run
     IN IF s = 0
        THEN UNCHANGED <<closed, runs, activeByThread, activeByTurn, transport, inbound,
                         pendingByLocalId, pendingByWireKey, wireVars>>
        ELSE UnlessFull([runs EXCEPT ![r] = EmitResolved(@, {s})], r,
                        pendingByLocalId \ {s},
                        /\ ForgetPending({s})
                        /\ Abandon({interactions[s].wire})
                        /\ UNCHANGED <<closed, activeByThread, activeByTurn, transport,
                                       inbound, wireResponding>>)
  /\ UNCHANGED <<startingByThread, forks, interactions, answering, sent>>

(* routeWhenStarted: route at once, or wait for the Thread's startRun.     *)
PumpRoutes ==
  /\ Takes({"request"} \cup TurnNotifications)
  /\ LET m        == pump.message
         starting == startingByThread[runs[m.turn].thread]
     IN pump' = IF Route(m.turn) # NoRun \/ starting = NoRun
                THEN Routed(m, Route(m.turn)) ELSE Routing(m, starting)
  /\ UNCHANGED <<closed, runVars, forks, interVars, transport, inbound, sent, wireVars>>

(* The awaited startRun resolved its starting promise: route again. *)
PumpResumes ==
  /\ pump.state = "routing"
  /\ runs[pump.awaited].phase \notin {"starting", "responded", "rejected"}
  /\ pump' = Routed(pump.message, Route(pump.message.turn))
  /\ UNCHANGED <<closed, runVars, forks, interVars, transport, inbound, sent, wireVars>>

Handles(types) == pump.state = "routed" /\ pump.message.type \in types

(* A notification without a Run goes to the unknown-event listeners. *)
PumpUnrouted ==
  /\ Handles(TurnNotifications)
  /\ pump.run = NoRun
  /\ PumpDone
  /\ UNCHANGED <<closed, runVars, forks, interVars, transport, inbound, sent, wireVars>>

(* A request without a Run is answered with an error, which is awaited.    *)
PumpRefuses ==
  /\ Handles({"request"}) /\ pump.run = NoRun
  /\ transport = "open"
  /\ pump' = [state |-> "refusing", wire |-> pump.message.wire]
  /\ wireResponding' = wireResponding \cup {pump.message.wire}
  /\ UNCHANGED <<closed, runVars, forks, interVars, transport, inbound, sent,
                 wirePending, wireAbandoning>>

PumpRefused ==
  /\ pump.state = "refusing" /\ transport = "open"
  /\ PumpDone
  /\ wirePending' = wirePending \ {pump.wire}
  /\ wireResponding' = wireResponding \ {pump.wire}
  /\ UNCHANGED <<closed, runVars, forks, interVars, transport, inbound, sent,
                 wireAbandoning>>

(* respondError fails: a write failed, or the transport ended. *)
PumpRefusalFails ==
  /\ \/ pump.state = "refusing"
     \/ Handles({"request"}) /\ pump.run = NoRun /\ transport # "open"
  /\ PumpThrows

(* turn/started: confirmProviderStart. *)
PumpStarted ==
  /\ Handles({"started"}) /\ pump.run # NoRun
  /\ PumpDone
  /\ runs' = [runs EXCEPT ![pump.run].providerStart =
                IF Active(pump.run) /\ @ = "unknown" THEN "yes" ELSE @]
  /\ UNCHANGED <<closed, activeByThread, activeByTurn, startingByThread, forks,
                 interVars, transport, inbound, sent, wireVars>>

(* What becomes an event and ends nothing; a full queue aborts the         *)
(* connection.                                                             *)
PumpUpdate ==
  /\ Handles(MappedToEvents \ TerminalMessages) /\ pump.run # NoRun
  /\ PumpDone
  /\ UnlessFull([runs EXCEPT ![pump.run] = Emit(@)], pump.run, pendingByLocalId,
                UNCHANGED <<closed, activeByThread, activeByTurn, pendingByLocalId,
                            pendingByWireKey, transport, inbound, wireVars>>)
  /\ UNCHANGED <<startingByThread, forks, interactions, answering, sent>>

(* handleRequest of a Run: the interaction is pending, then reported. *)
PumpRequest ==
  /\ Handles({"request"}) /\ pump.run # NoRun
  /\ PumpDone
  /\ LET s == Len(interactions) + 1
         w == pump.message.wire
     IN /\ interactions' = Append(interactions, [wire |-> w, run |-> pump.run])
        /\ UnlessFull([runs EXCEPT ![pump.run] = EmitRequested(@, s)], pump.run,
                      pendingByLocalId,
                      /\ pendingByLocalId' = pendingByLocalId \cup {s}
                      /\ pendingByWireKey' = [pendingByWireKey EXCEPT ![w] = s]
                      /\ UNCHANGED <<closed, activeByThread, activeByTurn, transport,
                                     inbound, wireVars>>)
  /\ UNCHANGED <<startingByThread, forks, answering, sent>>

(* turn/completed: pending interactions are resolved first, then what is   *)
(* not understood is reported, then the terminal event settles the Run and *)
(* onRunTerminal unregisters it.                                           *)
PumpTerminal ==
  /\ Handles(TerminalMessages) /\ pump.run # NoRun
  /\ PumpDone
  /\ LET r        == pump.run
         type     == pump.message.type
         S        == PendingOf(r, pendingByLocalId)
         resolved == EmitResolved(runs[r], S)
         now      == [runs EXCEPT ![r] = IF type \in MappedToEvents THEN Emit(resolved)
                                         ELSE resolved]
     IN IF now[r].overflow /\ ~runs[r].overflow /\ ~closed
        THEN AbortConnection(now, pendingByLocalId \ S)
        ELSE /\ runs' = [now EXCEPT ![r] = Finish(@, MapTerminal[type])]
             /\ activeByTurn' = activeByTurn \ {r}
             /\ activeByThread' = [t \in Threads |->
                  IF activeByThread[t] = r THEN NoRun ELSE activeByThread[t]]
             /\ ForgetPending(S)
             /\ Abandon(WiresOf(S))
             /\ UNCHANGED <<closed, transport, inbound, wireResponding>>
  /\ UNCHANGED <<startingByThread, forks, interactions, answering, sent>>

(* The iterator ends with the transport: with an error after a failure.    *)
PumpEnds ==
  /\ pump.state = "next" /\ inbound = <<>>
  /\ IF transport = "failed" THEN PumpThrows
     ELSE /\ transport = "closed"
          /\ pump' = [state |-> "stopped"]
          /\ UNCHANGED <<closed, runVars, forks, interVars, transport, inbound, sent,
                         wireVars>>

----------------------------------------------------------------------------
(* Host answers. *)

(* respond(): the checks, and the transport accepts the response frame.    *)
Respond(s) ==
  /\ ~closed
  /\ s \in pendingByLocalId /\ ~Terminal(interactions[s].run)
  /\ LET w == interactions[s].wire IN
       /\ transport = "open" /\ w \in wirePending \ wireResponding
       /\ wireResponding' = wireResponding \cup {w}
  /\ answering' = answering \cup {s}
  /\ UNCHANGED <<closed, runVars, forks, interactions, pendingByLocalId,
                 pendingByWireKey, pump, transport, inbound, sent, wirePending,
                 wireAbandoning>>

(* The transport releases an inbound request whose response was written. *)
WireAnswered(w) ==
  /\ wirePending' = wirePending \ {w}
  /\ wireResponding' = wireResponding \ {w}
  /\ wireAbandoning' = wireAbandoning \ {w}

(* The response is flushed; if still pending, the host resolved it. *)
Responded(s) ==
  /\ s \in answering /\ transport = "open"
  /\ answering' = answering \ {s}
  /\ LET w == interactions[s].wire
         r == interactions[s].run
     IN IF s \in pendingByLocalId
        THEN UnlessFull([runs EXCEPT ![r] = EmitResolved(@, {s})], r,
                        pendingByLocalId \ {s},
                        /\ ForgetPending({s})
                        /\ WireAnswered(w)
                        /\ UNCHANGED <<closed, activeByThread, activeByTurn, transport,
                                       inbound>>)
        ELSE /\ WireAnswered(w)
             /\ UNCHANGED <<closed, runs, activeByThread, activeByTurn, transport,
                            inbound, pendingByLocalId, pendingByWireKey>>
  /\ UNCHANGED <<startingByThread, forks, interactions, pump, sent>>

(* The response could not be written: the interaction stays pending unless *)
(* it was abandoned meanwhile.                                             *)
RespondFails(s) ==
  /\ s \in answering
  /\ answering' = answering \ {s}
  /\ LET w == interactions[s].wire IN
       IF transport = "open"
       THEN /\ wireResponding' = wireResponding \ {w}
            /\ wirePending' = wirePending \ ({w} \cap wireAbandoning)
            /\ wireAbandoning' = wireAbandoning \ {w}
       ELSE UNCHANGED wireVars
  /\ UNCHANGED <<closed, runVars, forks, interactions, pendingByLocalId,
                 pendingByWireKey, pump, transport, inbound, sent>>

----------------------------------------------------------------------------
(* Cancellation, run timeouts and the event stream. *)

CancelVars == <<startingByThread, forks, interactions, answering, pump, sent>>

OnlyRuns ==
  UNCHANGED <<closed, activeByThread, activeByTurn, startingByThread, forks, interVars,
              pump, transport, inbound, sent, wireVars>>

(* cancel() of a Run that is not terminal: the first call of cancelOnce. *)
Cancel(r) ==
  /\ Active(r) /\ runs[r].cancel = "none"
  /\ runs' = [runs EXCEPT ![r].cancel = "waitStart"]
  /\ OnlyRuns

(* The RunOptions timer: cancel(), whose failure aborts the connection.    *)
RunTimeout(r) ==
  /\ Active(r) /\ ~runs[r].timedOut
  /\ LET now == [runs EXCEPT ![r].timedOut = TRUE,
                             ![r].cancel = IF @ = "none" THEN "waitStart" ELSE @]
     IN IF runs[r].cancel = "error"
        THEN /\ AbortConnection(now, pendingByLocalId)
             /\ UNCHANGED CancelVars
        ELSE runs' = now /\ OnlyRuns

(* cancelOnce resumes: interrupt the Turn, or only wait for settlement. *)
CancelResumes(r) ==
  /\ runs[r].cancel = "waitStart" /\ runs[r].providerStart # "unknown"
  /\ runs' = [runs EXCEPT ![r].cancel =
                IF runs[r].providerStart = "yes" /\ Active(r)
                THEN "interrupting" ELSE "waitSettle"]
  /\ OnlyRuns

InterruptAcknowledged(r) ==
  /\ runs[r].cancel = "interrupting" /\ transport = "open"
  /\ runs' = [runs EXCEPT ![r].cancel = "acknowledged"]
  /\ OnlyRuns

(* turn/interrupt is rejected, times out or finds the client closed. *)
InterruptFails(r) ==
  /\ runs[r].cancel = "interrupting"
  /\ LET aborted == runs[r].phase = "connection_aborted"
         now == [runs EXCEPT ![r].cancel = IF aborted THEN "connection_aborted"
                                           ELSE "error"]
     IN IF ~aborted /\ runs[r].timedOut
        THEN /\ AbortConnection(now, pendingByLocalId)
             /\ UNCHANGED CancelVars
        ELSE runs' = now /\ OnlyRuns

(* Mutant: an acknowledged interrupt is reported as a cancellation. *)
AcknowledgedIsNative(run) ==
  IF run.cancel = "acknowledged" THEN "native"
  ELSE IF run.phase = "connection_aborted" THEN "connection_aborted"
  ELSE "already_terminal"

CancelResult(run) ==
  IF run.phase = "cancelled" /\ run.cancel = "acknowledged" THEN "native"
  ELSE IF run.phase = "connection_aborted" THEN "connection_aborted"
  ELSE "already_terminal"

CancelSettles(r) ==
  /\ runs[r].cancel \in {"waitSettle", "acknowledged"} /\ Terminal(r)
  /\ runs' = [runs EXCEPT ![r].cancel = CancelResult(runs[r])]
  /\ OnlyRuns

(* Mutant: the acknowledged interrupt clears the watchdog. *)
WatchdogUntilAcknowledged(r) ==
  /\ runs[r].cancel \in {"waitStart", "interrupting"} /\ ~closed
  /\ AbortConnection(runs, pendingByLocalId)
  /\ UNCHANGED CancelVars

(* cancelSettlementTimeoutMs passes before the cancellation settled. *)
Watchdog(r) ==
  /\ runs[r].cancel \in CancelWaits /\ ~closed
  /\ AbortConnection(runs, pendingByLocalId)
  /\ UNCHANGED CancelVars

(* The host asks for the next event: one is there, or the read waits. *)
ReadEvent(r) ==
  /\ Active(r) \/ Terminal(r)
  /\ ~runs[r].waiting
  /\ \/ /\ runs[r].queued > 0
        /\ runs' = [runs EXCEPT ![r].queued = @ - 1]
     \/ /\ runs[r].queued = 0 /\ Active(r)
        /\ runs' = [runs EXCEPT ![r].waiting = TRUE]
  /\ OnlyRuns

----------------------------------------------------------------------------
HostStep ==
  \/ Close
  \/ \E r \in Runs : \/ \E t \in Threads : StartRun(r, t)
                     \/ Cancel(r) \/ ReadEvent(r)
  \/ \E t \in Threads : Fork(t)
  \/ \E s \in pendingByLocalId : Respond(s)

ProviderStep ==
  \/ TransportFails
  \/ \E m \in Messages : ProviderSends(m)
  \/ \E r \in Runs : TurnStartSettles(r) \/ InterruptAcknowledged(r)
  \/ \E t \in Threads : ForkRequested(t)

RunContinues(r) ==
  \/ RunStarts(r) \/ ReusedTurn(r) \/ StartFails(r)
  \/ CancelResumes(r) \/ CancelSettles(r)

PumpStep ==
  \/ PumpTakes \/ PumpResolved \/ PumpRoutes \/ PumpResumes
  \/ PumpUnrouted \/ PumpRefuses \/ PumpRefused \/ PumpRefusalFails
  \/ PumpStarted \/ PumpUpdate \/ PumpRequest \/ PumpTerminal \/ PumpEnds

LaterStep ==
  /\ Quiet
  /\ \/ \E r \in Runs : InterruptFails(r) \/ RunTimeout(r) \/ Watchdog(r)
     \/ \E s \in answering : Responded(s) \/ RespondFails(s)
     \/ PumpStep

LoopStep ==
  \/ \E r \in Runs : RunContinues(r)
  \/ \E t \in Threads : ForkEnds(t) \/ ForkUncertain(t)
  \/ LaterStep

Next == HostStep \/ ProviderStep \/ LoopStep

(* Continuations run, requests settle (the transport times them out), the  *)
(* watchdog fires.  Nothing is assumed of the host, the Provider, the      *)
(* write of a response or the optional Run timeout.                        *)
Fairness ==
  /\ WF_vars(Quiet /\ PumpStep)
  /\ \A r \in Runs : /\ WF_vars(RunContinues(r))
                     /\ WF_vars(TurnStartSettles(r))
                     /\ WF_vars(InterruptAcknowledged(r) \/ (Quiet /\ InterruptFails(r)))
                     /\ WF_vars(Quiet /\ Watchdog(r))

Spec == Init /\ [][Next]_vars

FairSpec == Spec /\ Fairness

----------------------------------------------------------------------------
(* Properties. *)

(* Every variable has its type. *)
TypeOK ==
  /\ closed \in BOOLEAN
  /\ runs \in [Runs -> RunRecord]
  /\ activeByThread \in [Threads -> Runs \cup {NoRun}]
  /\ activeByTurn \subseteq Runs
  /\ startingByThread \in [Threads -> Runs \cup {NoRun}]
  /\ forks \in [Threads -> {"none", "read", "fork"}]
  /\ interactions \in Seq([wire: WireIds, run: Runs])
  /\ pendingByLocalId \subseteq 1..Len(interactions)
  /\ pendingByWireKey \in [WireIds -> 0..Len(interactions)]
  /\ answering \subseteq 1..Len(interactions)
  /\ transport \in {"open", "failed", "closed"}
  /\ wirePending \subseteq WireIds
  /\ wireResponding \subseteq WireIds
  /\ wireAbandoning \subseteq WireIds

(* A Thread has at most one of: a startRun under way, an active Run, a     *)
(* native fork; and every active Run is found by its Thread and its Turn.  *)
Occupies(r, t) ==
  runs[r].thread = t /\ runs[r].phase \in {"starting", "responded", "rejected", "active"}

ThreadExclusive ==
  /\ \A t \in Threads :
       Cardinality({r \in Runs : Occupies(r, t)}) + (IF forks[t] = "none" THEN 0 ELSE 1) <= 1
  /\ \A r \in Runs : Active(r) <=> r \in activeByTurn
  /\ \A r \in activeByTurn : activeByThread[runs[r].thread] = r

(* A pending interaction belongs to an active Run and is the one its wire  *)
(* id leads to, also when the Provider uses a wire id again: an answer or  *)
(* a serverRequest/resolved never reaches another interaction. And every   *)
(* inbound request the transport still counts is on its way to the         *)
(* adapter, pending, or being answered: a Run's end leaks no reservation,  *)
(* of which the connection has only maxPendingInboundRequests.             *)
InteractionsRoutable ==
  ~closed =>
    /\ \A s \in pendingByLocalId :
         /\ Active(interactions[s].run)
         /\ pendingByWireKey[interactions[s].wire] = s
         /\ transport = "open" => interactions[s].wire \in wirePending
    /\ \A w \in wirePending :
         \/ \E i \in 1..Len(inbound) : inbound[i].type = "request" /\ inbound[i].wire = w
         \/ pump.state \in {"taken", "routing", "routed"} /\ pump.message.wire = w
         \/ pendingByWireKey[w] # 0
         \/ w \in wireResponding

(* The stream of a Run that ended without overflowing resolves every       *)
(* interaction it reported before the terminal event.                      *)
InteractionsResolved ==
  \A r \in Runs : Terminal(r) /\ ~runs[r].overflow =>
                    runs[r].requested = runs[r].resolved

(* cancel() reports what happened: "native" only after an acknowledged     *)
(* interrupt of a Turn the Provider then reported cancelled.               *)
CancelTruthful ==
  \A r \in Runs :
    /\ runs[r].cancel = "native" => runs[r].phase = "cancelled"
    /\ runs[r].cancel = "connection_aborted" => runs[r].phase = "connection_aborted"
    /\ runs[r].cancel = "already_terminal" => runs[r].phase \in Terminals

(* Runs exclude each other as they should, none has more events than its   *)
(* queue holds, cancellation says what happened, interactions reach the    *)
(* ones they are for, and none is left over.                               *)
RunsSound ==
  TypeOK /\ ThreadExclusive /\ CancelTruthful /\ InteractionsRoutable /\ InteractionsResolved

(* The Run of an open client settles once it is being cancelled, whatever  *)
(* the Provider does: by its terminal event or by the watchdog; unless the *)
(* interrupt itself was rejected.                                          *)
CancellationSettles ==
  \A r \in Runs : Active(r) /\ ~closed /\ runs[r].cancel \in CancelWaits
                     ~> Terminal(r) \/ runs[r].cancel = "error"

(* docs/design/api-design.md: closing a Client settles every non-terminal  *)
(* Run and cannot leave permanent running state.                           *)
CloseSettlesRuns == \A r \in Runs : closed /\ Active(r) ~> Terminal(r)

RunStatusOf(run) ==
  IF run.phase \in Terminals \cup {"active"} THEN run.phase ELSE "none"

Contract == INSTANCE RunContract WITH
  Interactions <- Nat,
  status <- [r \in Runs |-> RunStatusOf(runs[r])],
  requested <- [r \in Runs |-> runs[r].requested],
  resolved <- [r \in Runs |-> runs[r].resolved]

(* The adapter implements the portable Run contract. *)
ImplementsRunContract == Contract!Spec

(* "late traffic cannot be reassigned to a later Run" (README.md:280-281), *)
(* "an unknown status [...] never success" (287-288): a Run ends by word   *)
(* of its own Turn and as that says, or with the connection.               *)
EndsByItsTurn ==
  [][\A r \in Runs : Active(r) /\ runs'[r].phase \in Terminals =>
       \/ runs'[r].phase = "connection_aborted" /\ closed'
       \/ /\ pump.message.turn = r
          /\ runs'[r].phase = MapTerminal[pump.message.type]]_vars
============================================================================
