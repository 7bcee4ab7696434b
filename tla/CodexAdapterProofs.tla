-------------------------- MODULE CodexAdapterProofs --------------------------
(* Proofs about CodexAdapter and CodexClient, which MCCodexAdapter has side by side, for any number  *)
(* of Runs, Threads, interactions and calls and every queue capacity. First that Runs behave as      *)
(* RunContract says: a Run record only moves along Extends; Inv says what makes a resolved           *)
(* interaction one that the stream of its Run has reported. Then RunsSound, which rests on Inv and   *)
(* on four invariants: of each Run by itself, of Runs and Threads, of Runs and their interactions,   *)
(* and of interactions and the wire; then how Runs end. Last the Client with its process.            *)
EXTENDS MCCodexAdapter, FiniteSetTheorems, SequenceTheorems, WellFoundedInduction, TLAPS

Phases == {"idle", "starting", "responded", "rejected", "refused", "active"} \cup Terminals

Shape ==
  [phase: Phases, thread: Threads \cup {NoThread},
   cancel: {"none", "native", "connection_aborted", "already_terminal", "error"} \cup CancelWaits,
   providerStart: {"unknown", "yes", "no"}, timedOut: BOOLEAN, queued: Int, waiting: BOOLEAN,
   requested: SUBSET Nat, resolved: SUBSET Nat, overflow: BOOLEAN]

(* A Run that has not begun has an empty queue. *)
Fresh(run) == run.queued = 0 /\ ~run.waiting /\ ~run.overflow

Sound(run) ==
  /\ run \in Shape /\ run.resolved \subseteq run.requested
  /\ run.phase \notin {"active"} \cup Terminals => Fresh(run)

(* What a step of the client does to a Run it does not start. *)
Extends(run, new) ==
  /\ Sound(new)
  /\ \/ /\ RunStatusOf(new) = RunStatusOf(run)
        /\ new.requested = run.requested /\ new.resolved = run.resolved
     \/ /\ run.phase = "active" /\ new.phase \in {"active"} \cup Terminals
        /\ run.requested \subseteq new.requested /\ run.resolved \subseteq new.resolved

Begins(run, new) ==
  /\ run.phase = "responded" /\ new.phase = "active" /\ Sound(new)
  /\ new.requested = run.requested /\ new.resolved = run.resolved

Begun(r) == runs[r].phase \in {"active"} \cup Terminals

RunsInv == runs \in [Runs -> Shape] /\ \A r \in Runs : Sound(runs[r])

TablesInv ==
  /\ interactions \in Seq([wire: WireIds, run: Runs])
  /\ pendingByLocalId \subseteq 1..Len(interactions) /\ answering \subseteq 1..Len(interactions)
  /\ \A s \in 1..Len(interactions) : Begun(interactions[s].run)
  /\ pendingByWireKey \in [WireIds -> Nat]
  /\ \A w \in WireIds :
       pendingByWireKey[w] # 0 => /\ pendingByWireKey[w] \in pendingByLocalId
                                  /\ interactions[pendingByWireKey[w]].wire = w
  /\ activeByTurn \subseteq Runs /\ \A r \in activeByTurn : Begun(r)

PumpInv ==
  /\ inbound \in Seq(Messages)
  /\ pump.state \in {"taken", "routing", "routed"} => pump.message \in Messages
  /\ (pump.state = "routed" /\ pump.run # NoRun) => (pump.run \in Runs /\ Begun(pump.run))
  /\ closed \in BOOLEAN
  /\ closed => (inbound = <<>> /\ transport # "open")

(* A queue that is found full is the end of the connection. *)
FullInv == \A r \in Runs : (Active(r) /\ runs[r].overflow) => closed

(* Nothing will ever resolve an interaction whose report found the queue of a closed client full.    *)
Lost(s) == closed /\ pump.state \in {"next", "stopped"} /\ s \notin answering

ReportedInv ==
  \A s \in pendingByLocalId :
    LET r == interactions[s].run IN Active(r) => (s \in runs[r].requested \/ Lost(s))

Inv == RunsInv /\ TablesInv /\ PumpInv /\ FullInv /\ ReportedInv

-------------------------------------------------------------------------------
(* Run records. *)

LEMMA TerminalsApart == "active" \notin Terminals /\ "responded" \notin {"active"} \cup Terminals
  BY DEF Terminals

LEMMA SaysNoMore ==
  ASSUME NEW run \in Shape, Sound(run), NEW new \in Shape,
         RunStatusOf(new) = RunStatusOf(run), new.requested = run.requested, new.resolved = run.resolved,
         \/ run.phase \in {"active"} \cup Terminals
         \/ new.queued = run.queued /\ new.waiting = run.waiting /\ new.overflow = run.overflow
  PROVE  Extends(run, new)
  BY DEF Extends, Sound, Fresh, RunStatusOf, Terminals, Shape, Phases

LEMMA ExtendsItself == ASSUME NEW run, Sound(run) PROVE Extends(run, run)
  BY DEF Extends

LEMMA ExtendsFurther ==
  ASSUME NEW run \in Shape, NEW mid \in Shape, NEW new, Extends(run, mid), Extends(mid, new)
  PROVE  Extends(run, new)
  BY DEF Extends, RunStatusOf, Terminals, Shape, Phases

LEMMA EnqueueKeeps ==
  ASSUME NEW run \in Shape, NEW n \in Int
  PROVE  LET new == Enqueue(run, n) IN
           /\ new \in Shape /\ new.phase = run.phase /\ new.overflow = run.overflow
           /\ new.requested = run.requested /\ new.resolved = run.resolved
  <1>1. run.queued + n - (IF run.waiting /\ n > 0 THEN 1 ELSE 0) \in Int
    BY DEF Shape
  <1>2. (run.waiting /\ n = 0) \in BOOLEAN
    OBVIOUS
  <1> DEFINE q == run.queued + n - (IF run.waiting /\ n > 0 THEN 1 ELSE 0)
             b == run.waiting /\ n = 0
  <1>3. Enqueue(run, n) = [run EXCEPT !.queued = q, !.waiting = b]
    BY DEF Enqueue, Shape
  <1> HIDE DEF q, b
  <1> QED BY <1>1, <1>2, <1>3 DEF Shape, q, b

LEMMA OverflowExtends ==
  ASSUME NEW run \in Shape, Sound(run), run.phase = "active"
  PROVE  LET new == [run EXCEPT !.overflow = TRUE] IN Extends(run, new) /\ new.phase = run.phase
  BY DEF Extends, Sound, Shape, RunStatusOf

LEMMA EmitExtends ==
  ASSUME NEW run \in Shape, Sound(run)
  PROVE  Extends(run, Emit(run)) /\ Emit(run).phase = run.phase
  <1>1. CASE run.phase # "active"
    BY <1>1, ExtendsItself DEF Emit
  <1>2. CASE run.phase = "active"
    BY <1>2, EnqueueKeeps, OverflowExtends DEF Extends, Sound, Emit
  <1> QED BY <1>1, <1>2

LEMMA EmitRequestedExtends ==
  ASSUME NEW run \in Shape, Sound(run), NEW s \in Nat
  PROVE  /\ Extends(run, EmitRequested(run, s))
         /\ EmitRequested(run, s).phase = run.phase
         /\ \/ run.phase # "active" \/ s \in EmitRequested(run, s).requested
            \/ EmitRequested(run, s).overflow
  <1> DEFINE new == [Enqueue(run, 1) EXCEPT !.requested = @ \cup {s}]
  <1>1. CASE run.phase # "active"
    BY <1>1, ExtendsItself DEF EmitRequested
  <1>2. CASE run.phase = "active" /\ Room(run) > 0
    BY EnqueueKeeps, <1>2 DEF Shape, EmitRequested, Extends, Sound
  <1>3. CASE run.phase = "active" /\ ~(Room(run) > 0)
    BY <1>3, OverflowExtends DEF EmitRequested, Shape
  <1> QED BY <1>1, <1>2, <1>3

LEMMA EmitResolvedExtends ==
  ASSUME NEW run \in Shape, Sound(run), NEW S \in SUBSET Nat, IsFiniteSet(S),
         run.phase = "active" => S \subseteq run.requested
  PROVE  Extends(run, EmitResolved(run, S)) /\ EmitResolved(run, S).phase = run.phase
  <1> DEFINE fit == {s \in S : Cardinality({t \in S : t < s}) < Room(run)}
             mid == Enqueue(run, Cardinality(fit))
             new == [mid EXCEPT !.resolved = @ \cup fit, !.overflow = @ \/ fit # S]
  <1>1. fit \subseteq S /\ Cardinality(fit) \in Nat
    BY FS_Subset, FS_CardinalityType
  <1> HIDE DEF fit
  <1>2. CASE run.phase # "active"
    BY <1>2, ExtendsItself DEF EmitResolved
  <1>3. CASE run.phase = "active"
    <2>1. EmitResolved(run, S) = new
      BY <1>3 DEF EmitResolved, fit
    <2>2. /\ mid \in Shape /\ mid.phase = run.phase
          /\ mid.requested = run.requested /\ mid.resolved = run.resolved
      BY <1>1, EnqueueKeeps
    <2>3. (mid.overflow \/ fit # S) \in BOOLEAN /\ mid.resolved \cup fit \in SUBSET Nat
      BY <1>1, <2>2 DEF Shape
    <2> HIDE DEF mid
    <2>4. /\ new \in Shape /\ new.phase = mid.phase /\ new.requested = mid.requested
          /\ new.resolved = mid.resolved \cup fit
      BY <2>2, <2>3 DEF Shape
    <2>5. Extends(run, new) /\ new.phase = run.phase
      <3> HIDE DEF new
      <3> QED BY <1>1, <1>3, <2>2, <2>4 DEF Extends, Sound
    <2> QED BY <2>1, <2>5
  <1> QED BY <1>2, <1>3

LEMMA FinishExtends ==
  ASSUME NEW run \in Shape, Sound(run), NEW result \in Terminals
  PROVE  Extends(run, Finish(run, result))
  <1> DEFINE started == IF run.providerStart = "unknown" THEN "no" ELSE run.providerStart
             q       == run.queued + (IF run.waiting THEN 0 ELSE 1)
             new     == [run EXCEPT !.phase = result, !.providerStart = started, !.queued = q, !.waiting = FALSE]
  <1>1. started \in {"unknown", "yes", "no"} /\ q \in Int /\ result \in Phases
    BY DEF Shape, Phases
  <1>2. CASE run.phase # "active"
    BY <1>2, ExtendsItself DEF Finish
  <1>3. CASE run.phase = "active"
    <2>1. Finish(run, result) = new
      BY <1>3 DEF Finish, Shape
    <2> HIDE DEF started, q
    <2>2. /\ new \in Shape /\ new.phase = result
          /\ new.requested = run.requested /\ new.resolved = run.resolved
      BY <1>1 DEF Shape
    <2> HIDE DEF new
    <2> QED BY <1>3, <2>1, <2>2 DEF Extends, Sound
  <1> QED BY <1>2, <1>3

LEMMA RejectStartingExtends ==
  ASSUME NEW run \in Shape, Sound(run)
  PROVE  Extends(run, RejectStarting(run))
  <1> DEFINE new == [run EXCEPT !.phase = "rejected"]
  <1>1. /\ new \in Shape /\ new.phase = "rejected"
        /\ new.requested = run.requested /\ new.resolved = run.resolved
        /\ new.queued = run.queued /\ new.waiting = run.waiting /\ new.overflow = run.overflow
    BY DEF Shape, Phases
  <1>2. CASE run.phase = "starting"
    BY <1>1, <1>2, SaysNoMore DEF RejectStarting, RunStatusOf, Terminals
  <1> QED BY <1>2, ExtendsItself DEF RejectStarting

-------------------------------------------------------------------------------
(* Steps of the client. *)

(* What every step does to the Runs. *)
Moves ==
  /\ runs' \in [Runs -> Shape]
  /\ \A r \in Runs : Extends(runs[r], runs'[r]) \/ Begins(runs[r], runs'[r])

LEMMA MovesKeep ==
  ASSUME Inv, Moves
  PROVE  /\ RunsInv'
         /\ \A r \in Runs : Begun(r) => Begun(r)'
         /\ \A r \in Runs : Begun(r) /\ Active(r)' =>
                            Active(r) /\ runs[r].requested \subseteq runs'[r].requested
  <1>1. \A r \in Runs : Sound(runs'[r])
    BY DEF Moves, Extends, Begins
  <1>2. \A r \in Runs : Begun(r) => Extends(runs[r], runs'[r])
    BY TerminalsApart DEF Moves, Begins, Begun
  <1>3. \A r \in Runs : Begun(r) => Begun(r)'
    BY <1>2, TerminalsApart DEF Extends, RunStatusOf, Begun, Terminals
  <1>4. \A r \in Runs : Begun(r) /\ Active(r)' =>
                         Active(r) /\ runs[r].requested \subseteq runs'[r].requested
    BY <1>2 DEF Extends, RunStatusOf, Begun, Active, Terminals
  <1> QED BY <1>1, <1>3, <1>4 DEF RunsInv, Moves

(* A step that leaves the interactions, or forgets some. *)
Forgets ==
  \/ UNCHANGED <<pendingByLocalId, pendingByWireKey>>
  \/ pendingByLocalId' = {} /\ pendingByWireKey' = [w \in WireIds |-> 0]
  \/ \E S \in SUBSET pendingByLocalId : ForgetPending(S)

LEMMA TablesKept ==
  ASSUME Inv, Moves, Forgets, interactions' = interactions, answering' \subseteq 1..Len(interactions),
         activeByTurn' \subseteq Runs, \A r \in activeByTurn' : Begun(r)'
  PROVE  TablesInv' /\ pendingByLocalId' \subseteq pendingByLocalId
  <1> USE DEF Inv, TablesInv
  <1>1. \A s \in 1..Len(interactions) : interactions[s] \in [wire : WireIds, run : Runs]
    BY ElementOfSeq
  <1>2. \A s \in 1..Len(interactions) : runs'[interactions[s].run].phase \in {"active"} \cup Terminals
    BY <1>1, MovesKeep DEF Begun
  <1>3. /\ pendingByLocalId' \subseteq pendingByLocalId
        /\ pendingByWireKey' \in [WireIds -> Nat]
        /\ \A w \in WireIds :
             pendingByWireKey'[w] # 0 => /\ pendingByWireKey'[w] \in pendingByLocalId'
                                         /\ interactions[pendingByWireKey'[w]].wire = w
    BY DEF ForgetPending, WiresOf, Forgets
  <1> QED BY <1>2, <1>3 DEF Begun

LEMMA ReportedKept ==
  ASSUME Inv, Moves, interactions' = interactions, pendingByLocalId' \subseteq pendingByLocalId,
         answering' \subseteq answering, closed => closed',
         (closed /\ pump.state \in {"next", "stopped"}) => pump'.state \in {"next", "stopped"}
  PROVE  ReportedInv'
  <1> SUFFICES ASSUME NEW s \in pendingByLocalId', NEW r \in Runs, r = interactions[s].run, Active(r)'
               PROVE  s \in runs'[r].requested \/ Lost(s)'
    <2>1. \A s \in 1..Len(interactions) : interactions[s] \in [wire : WireIds, run : Runs]
      BY ElementOfSeq DEF Inv, TablesInv
    <2>2. \A s \in pendingByLocalId' : interactions[s].run \in Runs
      BY <2>1 DEF Inv, TablesInv
    <2> QED BY <2>2 DEF ReportedInv, Active, Lost
  <1>1. s \in pendingByLocalId /\ Begun(r)
    BY DEF Inv, TablesInv
  <1>2. Active(r) /\ runs[r].requested \subseteq runs'[r].requested
    BY <1>1, MovesKeep
  <1>3. s \in runs[r].requested \/ Lost(s)
    BY <1>1, <1>2 DEF Inv, ReportedInv
  <1> QED BY <1>2, <1>3 DEF Lost

(* A request and its resolution name a server request. *)
LEMMA MessageWire ==
  ASSUME NEW m \in Messages, m.type \in {"request", "resolved"}
  PROVE  m.wire \in WireIds
  <1>1. "request" \notin TurnNotifications /\ "resolved" \notin TurnNotifications
    BY DEF TurnNotifications, TerminalMessages, MapTerminal
  <1>2. CASE \E r \in Runs, w \in WireIds : m = Message("request", r, w)
    BY <1>2 DEF Message
  <1>3. CASE \E type \in TurnNotifications, r \in Runs : m = Message(type, r, NoWire)
    BY <1>1, <1>3 DEF Message
  <1>4. CASE \E w \in WireIds : m = Message("resolved", NoRun, w)
    BY <1>4 DEF Message
  <1> QED BY <1>2, <1>3, <1>4 DEF Messages

(* A step that leaves the pump, and closes the client or not. *)
LEMMA PumpKept ==
  ASSUME Inv, Moves, UNCHANGED pump, inbound' \in {inbound, <<>>}, closed' \in BOOLEAN,
         closed' => (inbound' = <<>> /\ transport' # "open")
  PROVE  PumpInv'
  <1>1. inbound' \in Seq(Messages)
    BY EmptySeq DEF Inv, PumpInv
  <1>2. (pump.state = "routed" /\ pump.run # NoRun) => (pump.run \in Runs /\ Begun(pump.run)')
    BY MovesKeep DEF Inv, PumpInv
  <1>3. pump.state \in {"taken", "routing", "routed"} => pump.message \in Messages
    BY DEF Inv, PumpInv
  <1> QED BY <1>1, <1>2, <1>3 DEF PumpInv, Begun

(* The pump comes to a place where it holds no message. *)
LEMMA PumpIdle ==
  ASSUME Inv, pump'.state \notin {"taken", "routing", "routed"}, inbound' \in {inbound, <<>>},
         closed' \in BOOLEAN, closed' => (inbound' = <<>> /\ transport' # "open")
  PROVE  PumpInv'
  <1>1. inbound' \in Seq(Messages)
    BY EmptySeq DEF Inv, PumpInv
  <1> QED BY <1>1 DEF PumpInv

(* While somebody may still resolve them, pending interactions of an active Run are reported. *)
LEMMA PendingReported ==
  ASSUME Inv, NEW r \in Runs, NEW P \in SUBSET pendingByLocalId,
         Active(r) => (~closed \/ pump.state \notin {"next", "stopped"} \/ P \subseteq answering)
  PROVE  LET S == PendingOf(r, P) IN
           /\ S \in SUBSET Nat /\ IsFiniteSet(S) /\ S \subseteq pendingByLocalId
           /\ Active(r) => S \subseteq runs[r].requested
  <1> DEFINE S == PendingOf(r, P)
  <1>1. S \subseteq P /\ \A s \in S : interactions[s].run = r
    BY DEF PendingOf
  <1>2. Len(interactions) \in Nat
    BY LenProperties DEF Inv, TablesInv
  <1>3. pendingByLocalId \subseteq 1..Len(interactions)
    BY DEF Inv, TablesInv
  <1>4. \A n \in Nat : 1..n \subseteq Nat /\ IsFiniteSet(1..n)
    BY FS_Interval
  <1>6. S \subseteq 1..Len(interactions)
    BY <1>1, <1>3
  <1>7. S \subseteq Nat /\ IsFiniteSet(S)
    BY <1>2, <1>4, <1>6, FS_Subset
  <1>5. Active(r) => S \subseteq runs[r].requested
    BY <1>1 DEF Inv, ReportedInv, Lost
  <1> QED BY <1>1, <1>5, <1>7

(* abortConnection from Runs that a step has moved: all steps that end the connection go through it.  *)
LEMMA AbortMoves ==
  ASSUME Inv, NEW now, now \in [Runs -> Shape], \A r \in Runs : Extends(runs[r], now[r]),
         NEW pending \in SUBSET pendingByLocalId, AbortConnection(now, pending)
  PROVE  /\ Moves /\ FullInv' /\ closed' = TRUE
         /\ activeByTurn' \subseteq activeByTurn
         /\ inbound' = <<>> /\ transport' # "open"
         /\ \/ closed /\ UNCHANGED <<pendingByLocalId, pendingByWireKey>>
            \/ pendingByLocalId' = {} /\ pendingByWireKey' = [w \in WireIds |-> 0]
  <1>1. CASE closed
    BY <1>1 DEF AbortConnection, Inv, PumpInv, Moves, FullInv
  <1>2. CASE ~closed
    <2>1. runs' = AbortRuns(now, pending)
      BY <1>2 DEF AbortConnection
    <2>2. ASSUME NEW r \in Runs
          PROVE  runs'[r] \in Shape /\ Extends(runs[r], runs'[r])
      <3> DEFINE S    == PendingOf(r, pending)
                 said == EmitResolved(now[r], S)
                 done == Finish(said, "connection_aborted")
                 over == IF r \in activeByTurn THEN done ELSE now[r]
      <3>1. runs[r] \in Shape /\ now[r] \in Shape /\ Sound(now[r]) /\ Extends(runs[r], now[r])
        BY DEF Extends, Inv, RunsInv
      <3>2. S \in SUBSET Nat /\ IsFiniteSet(S) /\ (Active(r) => S \subseteq runs[r].requested)
        BY <1>2, PendingReported
      <3>3. now[r].phase = "active" => S \subseteq now[r].requested
        BY <3>1, <3>2 DEF Extends, RunStatusOf, Active, Terminals
      <3>4. Extends(now[r], said)
        BY <3>1, <3>2, <3>3, EmitResolvedExtends
      <3>5. said \in Shape /\ Sound(said)
        BY <3>4 DEF Extends, Sound
      <3>6. Extends(said, done)
        BY <3>5, FinishExtends DEF Terminals
      <3>7. done \in Shape /\ Sound(done)
        BY <3>6 DEF Extends, Sound
      <3>8. Extends(now[r], done)
        BY <3>1, <3>4, <3>5, <3>6, ExtendsFurther
      <3>9. Extends(now[r], over) /\ over \in Shape /\ Sound(over)
        BY <3>1, <3>7, <3>8, ExtendsItself
      <3> HIDE DEF said, done, over
      <3>10. Extends(runs[r], over)
        BY <3>1, <3>9, ExtendsFurther
      <3>11. Extends(over, RejectStarting(over))
        BY <3>9, RejectStartingExtends
      <3>12. runs'[r] = RejectStarting(over)
        BY <2>1 DEF AbortRuns, said, done, over
      <3>13. Extends(runs[r], RejectStarting(over))
        BY <3>1, <3>9, <3>10, <3>11, ExtendsFurther
      <3> QED BY <3>12, <3>13 DEF Extends, Sound
    <2>3. runs' \in [Runs -> Shape]
      BY <2>1, <2>2 DEF AbortRuns
    <2> QED BY <1>2, <2>2, <2>3 DEF AbortConnection, EndTransport, Moves, FullInv
  <1> QED BY <1>1, <1>2 DEF Inv, PumpInv

(* A step that aborts the connection and begins no interaction. *)
LEMMA AbortKeeps ==
  ASSUME Inv, NEW now, now \in [Runs -> Shape], \A r \in Runs : Extends(runs[r], now[r]),
         NEW pending \in SUBSET pendingByLocalId, AbortConnection(now, pending),
         interactions' = interactions, answering' \subseteq answering,
         UNCHANGED pump \/ pump'.state \in {"next", "stopped"}
  PROVE  Moves /\ Inv'
  <1>1. Moves /\ FullInv' /\ closed' = TRUE /\ inbound' = <<>> /\ transport' # "open" /\ Forgets
        /\ activeByTurn' \subseteq activeByTurn
    BY AbortMoves DEF Forgets
  <1>2. PumpInv'
    BY <1>1, PumpKept, PumpIdle
  <1>3. TablesInv' /\ pendingByLocalId' \subseteq pendingByLocalId
    BY <1>1, MovesKeep, TablesKept DEF Inv, TablesInv
  <1>4. ReportedInv'
    BY <1>1, <1>3, ReportedKept
  <1> QED BY <1>1, <1>2, <1>3, <1>4, MovesKeep DEF Inv

(* A step that moves one Run, or none. *)
LEMMA OneMoves ==
  ASSUME Inv, NEW r \in Runs, NEW new, Extends(runs[r], new), runs' = [runs EXCEPT ![r] = new],
         (new.phase = "active" /\ new.overflow) => closed', closed => closed'
  PROVE  Moves /\ FullInv'
  <1>1. new \in Shape
    BY DEF Extends, Sound
  <1>2. \A q \in Runs : runs'[q] = IF q = r THEN new ELSE runs[q]
    BY DEF Inv, RunsInv
  <1>3. Moves
    BY <1>1, <1>2, ExtendsItself DEF Moves, Inv, RunsInv
  <1> QED BY <1>2, <1>3 DEF FullInv, Inv, Active

LEMMA NoneMoves ==
  ASSUME Inv, runs' = runs, closed => closed'
  PROVE  Moves /\ FullInv'
  BY ExtendsItself DEF Inv, RunsInv, Moves, FullInv, Active

LEMMA RestKept ==
  ASSUME Inv, Moves, FullInv', PumpInv', UNCHANGED <<interactions, activeByTurn>>, Forgets,
         answering' \subseteq answering, closed => closed',
         (closed /\ pump.state \in {"next", "stopped"}) => pump'.state \in {"next", "stopped"}
  PROVE  Inv'
  <1>1. \A r \in activeByTurn' : Begun(r)'
    BY MovesKeep DEF Inv, TablesInv
  <1>2. TablesInv' /\ pendingByLocalId' \subseteq pendingByLocalId
    BY <1>1, TablesKept DEF Inv, TablesInv
  <1>3. ReportedInv'
    BY <1>2, ReportedKept
  <1> QED BY <1>2, <1>3, MovesKeep DEF Inv

(* A step that moves one Run and does nothing else that matters here. *)
LEMMA OneKept ==
  ASSUME Inv, NEW r \in Runs, NEW new, Extends(runs[r], new), runs' = [runs EXCEPT ![r] = new],
         (new.phase = "active" /\ new.overflow) => (Active(r) /\ runs[r].overflow),
         UNCHANGED <<closed, activeByTurn, interVars, pump, transport, inbound>>
  PROVE  Moves /\ Inv'
  <1>1. Moves /\ FullInv'
    BY OneMoves DEF Inv, FullInv
  <1>2. PumpInv'
    BY <1>1, PumpKept DEF Inv, PumpInv
  <1> QED BY <1>1, <1>2, RestKept DEF interVars, Forgets

-------------------------------------------------------------------------------
(* Actions that move no Run. *)

LEMMA StillSteps ==
  ASSUME Inv, runs' = runs,
         \/ \E t \in Threads : Fork(t) \/ ForkRequested(t) \/ ForkEnds(t)
         \/ \E s \in answering : RespondFails(s)
  PROVE  Moves /\ Inv'
  <1>1. /\ UNCHANGED <<closed, activeByTurn, interactions, pendingByLocalId, pendingByWireKey, pump,
                       transport, inbound>>
        /\ answering' \subseteq answering
    BY DEF Fork, ForkRequested, ForkEnds, RespondFails, interVars, runVars, wireVars
  <1>2. Moves /\ FullInv'
    BY <1>1, NoneMoves
  <1>3. PumpInv'
    BY <1>1, <1>2, PumpKept DEF Inv, PumpInv
  <1> QED BY <1>1, <1>2, <1>3, RestKept DEF Forgets

LEMMA SendKeeps ==
  ASSUME Inv, NEW m \in Messages, ProviderSends(m)
  PROVE  Moves /\ Inv'
  <1>1. UNCHANGED <<runs, closed, activeByTurn, interactions, pendingByLocalId, pendingByWireKey, answering,
                    pump, transport>>
    BY DEF ProviderSends, interVars, runVars
  <1>2. Moves /\ FullInv'
    BY <1>1, NoneMoves
  <1>3. PumpInv'
    BY AppendProperties, <1>1, <1>2, MovesKeep DEF ProviderSends, Inv, PumpInv, Begun
  <1> QED BY <1>1, <1>2, <1>3, RestKept DEF Forgets

LEMMA RespondKeeps ==
  ASSUME Inv, NEW s \in pendingByLocalId, Respond(s)
  PROVE  Moves /\ Inv'
  <1>1. /\ UNCHANGED <<runs, closed, activeByTurn, interactions, pendingByLocalId, pendingByWireKey, pump,
                       transport, inbound>>
        /\ answering' = answering \cup {s} /\ ~closed
    BY DEF Respond, runVars
  <1>2. Moves /\ FullInv'
    BY <1>1, NoneMoves
  <1>3. PumpInv'
    BY <1>1, <1>2, PumpKept DEF Inv, PumpInv
  <1>4. TablesInv'
    BY <1>1 DEF Inv, TablesInv, Begun
  <1>5. ReportedInv'
    BY <1>1 DEF Inv, ReportedInv, Lost, Active
  <1> QED BY <1>2, <1>3, <1>4, <1>5, MovesKeep DEF Inv

(* The pump takes a message, looks for its Run, finds none. *)
LEMMA PumpMoves ==
  ASSUME Inv, \/ PumpTakes \/ PumpRoutes \/ PumpResumes \/ PumpUnrouted \/ PumpRefuses \/ PumpRefused
  PROVE  Moves /\ Inv'
  <1>1. UNCHANGED <<runs, closed, activeByTurn, interactions, pendingByLocalId, pendingByWireKey, answering,
                    transport>>
    BY DEF PumpTakes, PumpRoutes, PumpResumes, PumpUnrouted, PumpRefuses, PumpRefused, interVars, runVars
  <1>2. Moves /\ FullInv'
    BY <1>1, NoneMoves
  <1>3. ~(closed /\ pump.state \in {"next", "stopped"})
    BY DEF PumpTakes, PumpRoutes, PumpResumes, PumpUnrouted, PumpRefuses, PumpRefused, Inv, PumpInv, Takes,
           Handles
  <1>4. PumpInv'
    <2>1. CASE PumpTakes
      BY <2>1, HeadTailProperties, <1>1 DEF PumpTakes, Inv, PumpInv
    <2>2. CASE PumpRoutes
      <3>1. pump.message \in Messages /\ inbound' = inbound
        BY <2>2 DEF PumpRoutes, Takes, Inv, PumpInv
      <3>2. pump' \in {Routed(pump.message, Route(pump.message.turn)),
                       Routing(pump.message, startingByThread[runs[pump.message.turn].thread])}
        BY <2>2 DEF PumpRoutes
      <3>3. Route(pump.message.turn) # NoRun => /\ Route(pump.message.turn) \in Runs
                                                /\ Begun(Route(pump.message.turn))
        BY DEF Route, Inv, TablesInv
      <3> QED BY <1>1, <3>1, <3>2, <3>3 DEF Routed, Routing, Inv, PumpInv, Begun
    <2>3. CASE PumpResumes
      BY <2>3, <1>1 DEF PumpResumes, Inv, PumpInv, Route, TablesInv, Routed, Begun
    <2>4. CASE PumpUnrouted \/ PumpRefuses \/ PumpRefused
      BY <2>4, <1>1, PumpIdle DEF PumpUnrouted, PumpRefuses, PumpRefused, PumpDone, Inv, PumpInv
    <2> QED BY <2>1, <2>2, <2>3, <2>4
  <1> QED BY <1>1, <1>2, <1>3, <1>4, RestKept DEF Forgets

-------------------------------------------------------------------------------
(* Actions that move one Run and nothing else. *)

LEMMA RunShape == ASSUME Inv, NEW r \in Runs PROVE runs[r] \in Shape /\ Sound(runs[r])
  BY DEF Inv, RunsInv

LEMMA CancelMoves ==
  ASSUME Inv, NEW r \in Runs,
         NEW c \in {"none", "native", "connection_aborted", "already_terminal", "error"} \cup CancelWaits,
         NEW late \in BOOLEAN
  PROVE  LET new == [runs[r] EXCEPT !.timedOut = late, !.cancel = c] IN
           Extends(runs[r], new) /\ new.phase = runs[r].phase /\ new.overflow = runs[r].overflow
  <1> DEFINE new == [runs[r] EXCEPT !.timedOut = late, !.cancel = c]
  <1>1. /\ new \in Shape /\ new.phase = runs[r].phase /\ new.overflow = runs[r].overflow
        /\ new.requested = runs[r].requested /\ new.resolved = runs[r].resolved
        /\ new.queued = runs[r].queued /\ new.waiting = runs[r].waiting
    BY RunShape DEF Shape
  <1> HIDE DEF new
  <1>2. Extends(runs[r], new)
    BY <1>1, RunShape, SaysNoMore DEF RunStatusOf
  <1> QED BY <1>1, <1>2 DEF new

(* cancel() and its continuations, the timer of a Run, while the connection goes on. *)
LEMMA CancelKeeps ==
  ASSUME Inv, NEW r \in Runs, OnlyRuns,
         NEW c \in {"none", "native", "connection_aborted", "already_terminal", "error"} \cup CancelWaits,
         NEW late \in BOOLEAN, runs' = [runs EXCEPT ![r] = [@ EXCEPT !.timedOut = late, !.cancel = c]]
  PROVE  Moves /\ Inv'
  <1> DEFINE new == [runs[r] EXCEPT !.timedOut = late, !.cancel = c]
  <1>1. Extends(runs[r], new) /\ new.phase = runs[r].phase /\ new.overflow = runs[r].overflow
    BY CancelMoves
  <1>2. runs' = [runs EXCEPT ![r] = new]
    BY DEF Inv, RunsInv
  <1> HIDE DEF new
  <1> QED BY <1>1, <1>2, OneKept DEF OnlyRuns, Active

(* The field of a Run alone is another way to write the same. *)
LEMMA CancelOnly ==
  ASSUME Inv, NEW r \in Runs, NEW c
  PROVE  [runs EXCEPT ![r].cancel = c] = [runs EXCEPT ![r] = [@ EXCEPT !.timedOut = runs[r].timedOut, !.cancel = c]]
  BY RunShape DEF Shape, Inv, RunsInv

LEMMA CancelSteps ==
  ASSUME Inv, NEW r \in Runs,
         Cancel(r) \/ CancelResumes(r) \/ InterruptAcknowledged(r) \/ CancelSettles(r)
  PROVE  Moves /\ Inv'
  <1>1. runs[r].timedOut \in BOOLEAN
    BY RunShape DEF Shape
  <1>2. PICK c \in {"native", "connection_aborted", "already_terminal"} \cup CancelWaits :
          runs' = [runs EXCEPT ![r].cancel = c]
    BY DEF Cancel, CancelResumes, InterruptAcknowledged, CancelSettles, CancelResult, CancelWaits
  <1>3. OnlyRuns
    BY DEF Cancel, CancelResumes, InterruptAcknowledged, CancelSettles
  <1>4. runs' = [runs EXCEPT ![r] = [@ EXCEPT !.timedOut = runs[r].timedOut, !.cancel = c]]
    BY <1>2, CancelOnly
  <1> QED BY <1>1, <1>3, <1>4, CancelKeeps

(* An event that is read leaves the queue. *)
LEMMA ReadKeeps ==
  ASSUME Inv, NEW r \in Runs, ReadEvent(r)
  PROVE  Moves /\ Inv'
  <1>1. ASSUME NEW n \in Int, NEW w \in BOOLEAN, runs' = [runs EXCEPT ![r] = [@ EXCEPT !.queued = n, !.waiting = w]]
        PROVE  Moves /\ Inv'
    <2> DEFINE new == [runs[r] EXCEPT !.queued = n, !.waiting = w]
    <2>1. /\ new \in Shape /\ new.phase = runs[r].phase /\ new.overflow = runs[r].overflow
          /\ new.requested = runs[r].requested /\ new.resolved = runs[r].resolved
      BY RunShape DEF Shape
    <2>2. runs' = [runs EXCEPT ![r] = new]
      BY <1>1 DEF Inv, RunsInv
    <2>3. runs[r].phase \in {"active"} \cup Terminals /\ OnlyRuns
      BY DEF ReadEvent, Active, Terminal
    <2> HIDE DEF new
    <2>4. Extends(runs[r], new)
      BY <2>1, <2>3, RunShape, SaysNoMore DEF RunStatusOf
    <2> QED BY <2>1, <2>2, <2>3, <2>4, OneKept DEF OnlyRuns, Active
  <1>2. CASE runs' = [runs EXCEPT ![r].queued = @ - 1]
    <2>1. runs[r].queued - 1 \in Int /\ runs[r].waiting \in BOOLEAN
      BY RunShape DEF Shape
    <2>2. runs' = [runs EXCEPT ![r] = [@ EXCEPT !.queued = runs[r].queued - 1, !.waiting = runs[r].waiting]]
      BY <1>2, RunShape DEF Shape, Inv, RunsInv
    <2> QED BY <1>1, <2>1, <2>2
  <1>3. CASE runs' = [runs EXCEPT ![r].waiting = TRUE]
    <2>1. runs[r].queued \in Int
      BY RunShape DEF Shape
    <2>2. runs' = [runs EXCEPT ![r] = [@ EXCEPT !.queued = runs[r].queued, !.waiting = TRUE]]
      BY <1>3, RunShape DEF Shape, Inv, RunsInv
    <2> QED BY <1>1, <2>1, <2>2
  <1> QED BY <1>2, <1>3 DEF ReadEvent

(* startRun up to its response, and when it is refused: nothing the host sees as a Run. *)
LEMMA StartKeeps ==
  ASSUME Inv, NEW r \in Runs, (\E t \in Threads : StartRun(r, t)) \/ TurnStartSettles(r) \/ StartFails(r)
  PROVE  Moves /\ Inv'
  <1>1. PICK p \in {"starting", "responded", "rejected", "refused"}, t \in Threads \cup {NoThread} :
          runs' = [runs EXCEPT ![r] = [@ EXCEPT !.phase = p, !.thread = t]]
    <2>1. CASE \E t \in Threads : StartRun(r, t)
      <3>1. PICK t \in Threads : StartRun(r, t)
        BY <2>1
      <3>2. PICK p \in {"starting", "rejected"} : runs' = [runs EXCEPT ![r].phase = p, ![r].thread = t]
        BY <3>1 DEF StartRun
      <3>3. runs' = [runs EXCEPT ![r] = [@ EXCEPT !.phase = p, !.thread = t]]
        BY <3>2, RunShape DEF Shape, Inv, RunsInv
      <3> QED BY <3>3
    <2>2. CASE TurnStartSettles(r) \/ StartFails(r)
      <3>1. PICK p \in {"responded", "rejected", "refused"} : runs' = [runs EXCEPT ![r].phase = p]
        BY <2>2 DEF TurnStartSettles, StartFails
      <3>2. runs' = [runs EXCEPT ![r] = [@ EXCEPT !.phase = p, !.thread = runs[r].thread]]
        BY <3>1, RunShape DEF Shape, Inv, RunsInv
      <3>3. runs[r].thread \in Threads \cup {NoThread}
        BY RunShape DEF Shape
      <3> QED BY <3>2, <3>3
    <2> QED BY <2>1, <2>2
  <1> DEFINE new == [runs[r] EXCEPT !.phase = p, !.thread = t]
  <1>2. runs' = [runs EXCEPT ![r] = new]
    BY <1>1 DEF Inv, RunsInv
  <1>3. /\ new \in Shape /\ new.phase = p /\ new.overflow = runs[r].overflow
        /\ new.requested = runs[r].requested /\ new.resolved = runs[r].resolved
        /\ new.queued = runs[r].queued /\ new.waiting = runs[r].waiting
    BY RunShape DEF Shape, Phases
  <1>4. runs[r].phase \in {"idle", "starting", "rejected"}
    BY DEF StartRun, TurnStartSettles, StartFails
  <1>5. UNCHANGED <<closed, activeByTurn, interVars, pump, transport, inbound>>
    BY DEF StartRun, TurnStartSettles, StartFails
  <1> HIDE DEF new
  <1>6. Extends(runs[r], new)
    BY <1>3, <1>4, RunShape, SaysNoMore DEF RunStatusOf, Terminals
  <1> QED BY <1>2, <1>3, <1>5, <1>6, OneKept

(* startRun returns: the one step that begins a Run. *)
LEMMA RunStartsKeeps ==
  ASSUME Inv, NEW r \in Runs, RunStarts(r)
  PROVE  Moves /\ Inv'
  <1> DEFINE mid == [runs[r] EXCEPT !.phase = "active"]
             new == Emit(mid)
  <1>1. /\ mid \in Shape /\ mid.phase = "active" /\ mid.queued = 0 /\ mid.overflow = FALSE
        /\ mid.requested = runs[r].requested /\ mid.resolved = runs[r].resolved /\ runs[r].phase = "responded"
    BY RunShape, TerminalsApart DEF RunStarts, Shape, Phases, Sound, Fresh
  <1>2. runs' = [runs EXCEPT ![r] = new]
    BY DEF RunStarts
  <1> HIDE DEF mid
  <1>3. new = Enqueue(mid, 1)
    BY <1>1, CapacityAssumption DEF Emit, Room, CapacityAssumption
  <1>4. /\ new \in Shape /\ new.phase = "active" /\ new.overflow = FALSE
        /\ new.requested = runs[r].requested /\ new.resolved = runs[r].resolved
    BY <1>1, <1>3, EnqueueKeeps
  <1> HIDE DEF new
  <1>5. Begins(runs[r], new)
    BY <1>1, <1>4, RunShape DEF Begins, Sound
  <1>6. \A q \in Runs : runs'[q] = IF q = r THEN new ELSE runs[q]
    BY <1>2 DEF Inv, RunsInv
  <1>7. Moves
    BY <1>2, <1>4, <1>5, <1>6, ExtendsItself DEF Moves, Inv, RunsInv
  <1>8. /\ UNCHANGED <<closed, interactions, pendingByLocalId, pendingByWireKey, answering, pump, transport,
                       inbound>>
        /\ activeByTurn' = activeByTurn \cup {r}
    BY DEF RunStarts, interVars
  <1>9. FullInv'
    BY <1>4, <1>6, <1>8 DEF FullInv, Inv, Active
  <1>10. PumpInv'
    BY <1>7, <1>8, PumpKept DEF Inv, PumpInv
  <1>11. \A q \in activeByTurn' : Begun(q)'
    BY <1>4, <1>6, <1>7, <1>8, MovesKeep DEF Inv, TablesInv, Begun
  <1>12. TablesInv' /\ pendingByLocalId' \subseteq pendingByLocalId
    BY <1>7, <1>8, <1>11, TablesKept DEF Inv, TablesInv, Forgets
  <1>13. ReportedInv'
    BY <1>7, <1>8, <1>12, ReportedKept
  <1> QED BY <1>7, <1>9, <1>10, <1>12, <1>13, MovesKeep DEF Inv

(* turn/started. *)
LEMMA PumpStartedKeeps ==
  ASSUME Inv, PumpStarted
  PROVE  Moves /\ Inv'
  <1> DEFINE r == pump.run
  <1>1. r \in Runs /\ Begun(r)
    BY DEF PumpStarted, Handles, Inv, PumpInv
  <1>2. PICK p \in {"unknown", "yes", "no"} : runs' = [runs EXCEPT ![r].providerStart = p]
    BY <1>1, RunShape DEF PumpStarted, Shape
  <1> DEFINE new == [runs[r] EXCEPT !.providerStart = p]
  <1>3. runs' = [runs EXCEPT ![r] = new]
    BY <1>1, <1>2 DEF Inv, RunsInv
  <1>4. /\ new \in Shape /\ new.phase = runs[r].phase /\ new.overflow = runs[r].overflow
        /\ new.requested = runs[r].requested /\ new.resolved = runs[r].resolved
    BY <1>1, RunShape DEF Shape
  <1> HIDE DEF new
  <1>5. Extends(runs[r], new)
    BY <1>1, <1>4, RunShape, SaysNoMore DEF RunStatusOf, Begun
  <1>6. /\ UNCHANGED <<closed, activeByTurn, interactions, pendingByLocalId, pendingByWireKey, answering,
                       transport, inbound>>
        /\ pump' = [state |-> "next"] /\ pump.state = "routed"
    BY DEF PumpStarted, interVars, PumpDone, Handles
  <1> HIDE DEF r
  <1>7. Moves /\ FullInv'
    BY <1>1, <1>3, <1>4, <1>5, <1>6, OneMoves DEF Inv, FullInv, Active
  <1>8. PumpInv'
    BY <1>6, PumpIdle DEF Inv, PumpInv
  <1> QED BY <1>6, <1>7, <1>8, RestKept DEF Forgets

-------------------------------------------------------------------------------
(* The end of the connection. *)

LEMMA TransportFailsKeeps ==
  ASSUME Inv, TransportFails
  PROVE  Moves /\ Inv'
  <1>1. /\ UNCHANGED <<closed, activeByTurn, interactions, pendingByLocalId, pendingByWireKey, answering, pump>>
        /\ transport' = "failed" /\ inbound' = <<>>
    BY DEF TransportFails, EndTransport, interVars
  <1>2. \A r \in Runs : runs'[r] = RejectStarting(runs[r]) /\ Extends(runs[r], runs'[r])
    BY RunShape, RejectStartingExtends DEF TransportFails
  <1>3. Moves
    BY <1>2 DEF TransportFails, Moves, Extends, Sound
  <1>4. FullInv'
    BY <1>2, RunShape, <1>1 DEF RejectStarting, Shape, FullInv, Inv, Active
  <1>5. PumpInv'
    BY <1>1, <1>3, PumpKept DEF Inv, PumpInv
  <1> QED BY <1>1, <1>3, <1>4, <1>5, RestKept DEF Forgets

LEMMA AbortSteps ==
  ASSUME Inv,
         \/ Close \/ PumpThrows
         \/ \E t \in Threads : ForkUncertain(t)
         \/ \E r \in Runs : Watchdog(r)
  PROVE  Moves /\ Inv'
  <1>1. AbortConnection(runs, pendingByLocalId) /\ UNCHANGED <<interactions, answering>>
    BY DEF Close, PumpThrows, ForkUncertain, Watchdog, CancelVars, ForkVars
  <1>2. UNCHANGED pump \/ pump'.state \in {"next", "stopped"}
    BY DEF Close, PumpThrows, ForkUncertain, Watchdog, CancelVars, ForkVars
  <1>3. runs \in [Runs -> Shape] /\ \A r \in Runs : Extends(runs[r], runs[r])
    BY ExtendsItself DEF Inv, RunsInv
  <1> QED BY <1>1, <1>2, <1>3, AbortKeeps

(* An abort of a client one of whose Runs a step has moved. *)
LEMMA AbortAfter ==
  ASSUME Inv, NEW r \in Runs, NEW new, Extends(runs[r], new),
         NEW pending \in SUBSET pendingByLocalId, AbortConnection([runs EXCEPT ![r] = new], pending),
         interactions' = interactions, answering' \subseteq answering,
         UNCHANGED pump \/ pump'.state \in {"next", "stopped"}
  PROVE  Moves /\ Inv'
  <1> DEFINE now == [runs EXCEPT ![r] = new]
  <1>1. now \in [Runs -> Shape] /\ \A q \in Runs : Extends(runs[q], now[q])
    BY ExtendsItself DEF Extends, Sound, Inv, RunsInv
  <1> HIDE DEF now
  <1>2. AbortConnection(now, pending)
    BY DEF now
  <1> QED BY <1>1, <1>2, AbortKeeps

LEMMA ReusedTurnKeeps ==
  ASSUME Inv, NEW r \in Runs, ReusedTurn(r)
  PROVE  Moves /\ Inv'
  <1> DEFINE new == [runs[r] EXCEPT !.phase = "refused"]
  <1>1. /\ new \in Shape /\ new.phase = "refused" /\ new.overflow = runs[r].overflow
        /\ new.requested = runs[r].requested /\ new.resolved = runs[r].resolved
        /\ new.queued = runs[r].queued /\ new.waiting = runs[r].waiting
    BY RunShape DEF Shape, Phases
  <1>2. [runs EXCEPT ![r].phase = "refused"] = [runs EXCEPT ![r] = new]
    BY DEF Inv, RunsInv
  <1>3. /\ AbortConnection([runs EXCEPT ![r] = new], pendingByLocalId)
        /\ UNCHANGED <<interactions, answering, pump>> /\ runs[r].phase = "responded"
    BY <1>2 DEF ReusedTurn
  <1> HIDE DEF new
  <1>4. Extends(runs[r], new)
    BY <1>1, <1>3, RunShape, SaysNoMore DEF RunStatusOf, Terminals
  <1> QED BY <1>3, <1>4, AbortAfter

LEMMA RunTimeoutKeeps ==
  ASSUME Inv, NEW r \in Runs, RunTimeout(r)
  PROVE  Moves /\ Inv'
  <1> DEFINE c == IF runs[r].cancel = "none" THEN "waitStart" ELSE runs[r].cancel
             new == [runs[r] EXCEPT !.timedOut = TRUE, !.cancel = c]
  <1>1. c \in {"none", "native", "connection_aborted", "already_terminal", "error"} \cup CancelWaits
    BY RunShape DEF Shape, CancelWaits
  <1>2. [runs EXCEPT ![r].timedOut = TRUE, ![r].cancel = IF @ = "none" THEN "waitStart" ELSE @]
          = [runs EXCEPT ![r] = new]
    BY RunShape DEF Shape, Inv, RunsInv
  <1>3. [runs EXCEPT ![r] = new] = [runs EXCEPT ![r] = [@ EXCEPT !.timedOut = TRUE, !.cancel = c]]
    BY DEF Inv, RunsInv
  <1>4. Extends(runs[r], new)
    BY <1>1, CancelMoves
  <1> HIDE DEF new, c
  <1>5. CASE runs[r].cancel = "error"
    BY <1>2, <1>4, <1>5, AbortAfter DEF RunTimeout, CancelVars
  <1>6. CASE runs[r].cancel # "error"
    <2>1. runs' = [runs EXCEPT ![r] = new] /\ OnlyRuns
      BY <1>2, <1>6 DEF RunTimeout
    <2>2. runs' = [runs EXCEPT ![r] = [@ EXCEPT !.timedOut = TRUE, !.cancel = c]]
      BY <1>3, <2>1
    <2> QED BY <1>1, <2>1, <2>2, CancelKeeps
  <1> QED BY <1>5, <1>6

LEMMA InterruptFailsKeeps ==
  ASSUME Inv, NEW r \in Runs, InterruptFails(r)
  PROVE  Moves /\ Inv'
  <1>1. PICK c \in {"connection_aborted", "error"} :
          \/ AbortConnection([runs EXCEPT ![r].cancel = c], pendingByLocalId) /\ UNCHANGED CancelVars
          \/ runs' = [runs EXCEPT ![r].cancel = c] /\ OnlyRuns
    BY DEF InterruptFails
  <1> DEFINE new == [runs[r] EXCEPT !.timedOut = runs[r].timedOut, !.cancel = c]
  <1>2. runs[r].timedOut \in BOOLEAN
    BY RunShape DEF Shape
  <1>3. Extends(runs[r], new)
    BY <1>2, CancelMoves
  <1>4. /\ [runs EXCEPT ![r].cancel = c] = [runs EXCEPT ![r] = new]
        /\ [runs EXCEPT ![r].cancel = c]
             = [runs EXCEPT ![r] = [@ EXCEPT !.timedOut = runs[r].timedOut, !.cancel = c]]
    BY RunShape DEF Shape, Inv, RunsInv
  <1> HIDE DEF new
  <1>5. CASE AbortConnection([runs EXCEPT ![r].cancel = c], pendingByLocalId) /\ UNCHANGED CancelVars
    BY <1>3, <1>4, <1>5, AbortAfter DEF CancelVars
  <1>6. CASE runs' = [runs EXCEPT ![r].cancel = c] /\ OnlyRuns
    BY <1>2, <1>4, <1>6, CancelKeeps
  <1> QED BY <1>1, <1>5, <1>6

-------------------------------------------------------------------------------
(* Events and interactions: the queue of the Run takes them, or the connection ends. *)

LEMMA NotFull ==
  ASSUME Inv, NEW r \in Runs, NEW new, Extends(runs[r], new), ~(new.overflow /\ ~runs[r].overflow /\ ~closed)
  PROVE  (new.phase = "active" /\ new.overflow) => closed
  BY DEF Inv, FullInv, Extends, RunStatusOf, Active, Terminals

(* What the pump and respond() do to one Run and its interactions, with room for it or not. *)
LEMMA OneForgets ==
  ASSUME Inv, NEW r \in Runs, NEW new, Extends(runs[r], new), Forgets,
         runs' = [runs EXCEPT ![r] = new], ~(new.overflow /\ ~runs[r].overflow /\ ~closed),
         UNCHANGED <<closed, interactions, activeByTurn, transport, inbound>>,
         answering' \subseteq answering,
         UNCHANGED pump \/ (pump'.state = "next" /\ pump.state \notin {"next", "stopped"})
  PROVE  Moves /\ Inv'
  <1>1. Moves /\ FullInv'
    BY NotFull, OneMoves
  <1>2. PumpInv'
    BY <1>1, PumpKept, PumpIdle DEF Inv, PumpInv
  <1> QED BY <1>1, <1>2, RestKept

LEMMA PumpUpdateKeeps ==
  ASSUME Inv, PumpUpdate
  PROVE  Moves /\ Inv'
  <1> DEFINE r   == pump.run
             new == Emit(runs[r])
             now == [runs EXCEPT ![r] = Emit(@)]
  <1>1. r \in Runs /\ pump.state = "routed"
    BY DEF PumpUpdate, Handles, Inv, PumpInv
  <1>2. now = [runs EXCEPT ![r] = new] /\ now[r] = new
    BY <1>1 DEF Inv, RunsInv
  <1>3. Extends(runs[r], new)
    BY <1>1, RunShape, EmitExtends
  <1>4. pump'.state = "next" /\ UNCHANGED <<interactions, answering>>
    BY DEF PumpUpdate, PumpDone
  <1>5. \/ AbortConnection(now, pendingByLocalId)
        \/ /\ ~(now[r].overflow /\ ~runs[r].overflow /\ ~closed) /\ runs' = now
           /\ UNCHANGED <<closed, activeByTurn, pendingByLocalId, pendingByWireKey, transport, inbound>>
    BY DEF PumpUpdate, UnlessFull
  <1> HIDE DEF r, new, now
  <1> QED BY <1>1, <1>2, <1>3, <1>4, <1>5, AbortAfter, OneForgets DEF Forgets

(* One interaction is resolved: by serverRequest/resolved or by the answer of the host. *)
LEMMA ResolvedOne ==
  ASSUME Inv, NEW s \in pendingByLocalId,
         ~closed \/ pump.state \notin {"next", "stopped"} \/ s \in answering
  PROVE  LET r == interactions[s].run IN r \in Runs /\ Extends(runs[r], EmitResolved(runs[r], {s}))
  <1> DEFINE r == interactions[s].run
  <1>1. interactions \in Seq([wire : WireIds, run : Runs]) /\ s \in 1..Len(interactions)
    BY DEF Inv, TablesInv
  <1>2. interactions[s] \in [wire : WireIds, run : Runs]
    BY <1>1, ElementOfSeq
  <1>3. r \in Runs /\ s \in Nat
    BY <1>1, <1>2, LenProperties
  <1>4. runs[r].phase = "active" => {s} \subseteq runs[r].requested
    BY <1>3 DEF Inv, ReportedInv, Active, Lost
  <1>5. {s} \in SUBSET Nat /\ IsFiniteSet({s})
    BY <1>3, FS_Singleton
  <1> HIDE DEF r
  <1>6. Extends(runs[r], EmitResolved(runs[r], {s}))
    BY <1>3, <1>4, <1>5, RunShape, EmitResolvedExtends
  <1> QED BY <1>3, <1>6 DEF r

LEMMA PumpResolvedKeeps ==
  ASSUME Inv, PumpResolved
  PROVE  Moves /\ Inv'
  <1> DEFINE s   == pendingByWireKey[pump.message.wire]
             r   == interactions[s].run
             new == EmitResolved(runs[r], {s})
             now == [runs EXCEPT ![r] = EmitResolved(@, {s})]
  <1>1. pump'.state = "next" /\ pump.state = "taken" /\ UNCHANGED <<interactions, answering>>
    BY DEF PumpResolved, Takes, PumpDone
  <1>2. pump.message.wire \in WireIds
    BY MessageWire DEF PumpResolved, Takes, Inv, PumpInv
  <1>3. CASE s = 0
    BY <1>3, NoneMoves, <1>1, PumpIdle, RestKept DEF PumpResolved, Inv, PumpInv, Forgets
  <1>4. CASE s # 0
    <2>1. s \in pendingByLocalId
      BY <1>2, <1>4 DEF Inv, TablesInv
    <2>2. r \in Runs /\ Extends(runs[r], new)
      BY <1>1, <2>1, ResolvedOne
    <2>3. now = [runs EXCEPT ![r] = new] /\ now[r] = new
      BY <2>2 DEF Inv, RunsInv
    <2>4. \/ AbortConnection(now, pendingByLocalId \ {s})
          \/ /\ ~(now[r].overflow /\ ~runs[r].overflow /\ ~closed) /\ runs' = now
             /\ ForgetPending({s}) /\ UNCHANGED <<closed, activeByTurn, transport, inbound>>
      BY <1>4 DEF PumpResolved, UnlessFull
    <2> HIDE DEF s, r, new, now
    <2>5. ForgetPending({s}) => Forgets
      BY <2>1 DEF Forgets
    <2> QED BY <1>1, <2>2, <2>3, <2>4, <2>5, AbortAfter, OneForgets
  <1> QED BY <1>3, <1>4

LEMMA RespondedKeeps ==
  ASSUME Inv, NEW s \in answering, Responded(s)
  PROVE  Moves /\ Inv'
  <1> DEFINE r   == interactions[s].run
             new == EmitResolved(runs[r], {s})
             now == [runs EXCEPT ![r] = EmitResolved(@, {s})]
  <1>1. UNCHANGED <<interactions, pump>> /\ answering' \subseteq answering
    BY DEF Responded
  <1>2. CASE s \notin pendingByLocalId
    BY <1>2, NoneMoves, <1>1, PumpKept, RestKept DEF Responded, Inv, PumpInv, Forgets
  <1>3. CASE s \in pendingByLocalId
    <2>1. r \in Runs /\ Extends(runs[r], new)
      BY <1>3, ResolvedOne
    <2>2. now = [runs EXCEPT ![r] = new] /\ now[r] = new
      BY <2>1 DEF Inv, RunsInv
    <2>3. \/ AbortConnection(now, pendingByLocalId \ {s})
          \/ /\ ~(now[r].overflow /\ ~runs[r].overflow /\ ~closed) /\ runs' = now
             /\ ForgetPending({s}) /\ UNCHANGED <<closed, activeByTurn, transport, inbound>>
      BY <1>3 DEF Responded, UnlessFull
    <2> HIDE DEF r, new, now
    <2>4. ForgetPending({s}) => Forgets
      BY <1>3 DEF Forgets
    <2>5. CASE AbortConnection(now, pendingByLocalId \ {s})
      BY <1>1, <2>1, <2>2, <2>5, AbortAfter
    <2>6. CASE ~AbortConnection(now, pendingByLocalId \ {s})
      BY <1>1, <2>2, <2>3, <2>4, <2>6, <2>1, OneForgets
    <2> QED BY <2>5, <2>6
  <1> QED BY <1>2, <1>3

(* turn/completed: the interactions of the Run, what is not understood, then its end. *)
LEMMA PumpTerminalKeeps ==
  ASSUME Inv, PumpTerminal
  PROVE  Moves /\ Inv'
  <1> DEFINE r     == pump.run
             type  == pump.message.type
             S     == PendingOf(r, pendingByLocalId)
             said  == EmitResolved(runs[r], S)
             new   == IF type \in MappedToEvents THEN Emit(said) ELSE said
             now   == [runs EXCEPT ![r] = new]
             over  == Finish(new, MapTerminal[type])
  <1>1. r \in Runs /\ pump.state = "routed" /\ type \in TerminalMessages
    BY DEF PumpTerminal, Handles, Inv, PumpInv
  <1>2. /\ S \in SUBSET Nat /\ IsFiniteSet(S) /\ S \subseteq pendingByLocalId
        /\ runs[r].phase = "active" => S \subseteq runs[r].requested
    BY <1>1, PendingReported DEF Active
  <1>3. runs[r] \in Shape /\ Sound(runs[r])
    BY <1>1, RunShape
  <1>4. Extends(runs[r], said)
    BY <1>2, <1>3, EmitResolvedExtends
  <1>5. said \in Shape /\ Sound(said)
    BY <1>4 DEF Extends, Sound
  <1>6. Extends(said, new)
    BY <1>5, EmitExtends, ExtendsItself
  <1>7. new \in Shape /\ Sound(new)
    BY <1>6 DEF Extends, Sound
  <1>8. Extends(runs[r], new)
    BY <1>3, <1>4, <1>5, <1>6, ExtendsFurther
  <1>9. MapTerminal[type] \in Terminals
    BY <1>1 DEF TerminalMessages, MapTerminal, Terminals
  <1>10. Extends(new, over)
    BY <1>7, <1>9, FinishExtends
  <1>11. Extends(runs[r], over)
    BY <1>3, <1>7, <1>8, <1>10, ExtendsFurther
  <1>12. over.phase # "active"
    BY <1>7, <1>9, TerminalsApart DEF Finish, Shape
  <1>13. now[r] = new /\ [now EXCEPT ![r] = over] = [runs EXCEPT ![r] = over]
    BY <1>1 DEF Inv, RunsInv
  <1>14. pump'.state = "next" /\ UNCHANGED <<interactions, answering>>
    BY DEF PumpTerminal, PumpDone
  <1>15. \/ AbortConnection(now, pendingByLocalId \ S)
         \/ /\ runs' = [now EXCEPT ![r] = Finish(@, MapTerminal[type])]
            /\ activeByTurn' = activeByTurn \ {r}
            /\ ForgetPending(S) /\ UNCHANGED <<closed, transport, inbound>>
    BY DEF PumpTerminal
  <1>16. [now EXCEPT ![r] = Finish(@, MapTerminal[type])] = [now EXCEPT ![r] = over]
    BY <1>1, <1>13 DEF Inv, RunsInv
  <1> HIDE DEF r, type, S, said, new, over
  <1>17. CASE AbortConnection(now, pendingByLocalId \ S)
    BY <1>17, <1>1, <1>8, <1>14, AbortAfter
  <1> HIDE DEF now
  <1>18. CASE /\ runs' = [now EXCEPT ![r] = Finish(@, MapTerminal[type])]
              /\ activeByTurn' = activeByTurn \ {r}
              /\ ForgetPending(S) /\ UNCHANGED <<closed, transport, inbound>>
    <2>1. runs' = [runs EXCEPT ![r] = over]
      BY <1>13, <1>16, <1>18
    <2>2. Moves /\ FullInv'
      BY <1>1, <1>11, <1>12, <1>18, <2>1, OneMoves
    <2>3. PumpInv'
      BY <1>14, <1>18, PumpIdle DEF Inv, PumpInv
    <2>4. \A q \in activeByTurn' : Begun(q)'
      BY <1>18, <2>2, MovesKeep DEF Inv, TablesInv
    <2>5. Forgets
      BY <1>2, <1>18 DEF Forgets
    <2>6. TablesInv' /\ pendingByLocalId' \subseteq pendingByLocalId
      BY <1>14, <1>18, <2>2, <2>4, <2>5, TablesKept DEF Inv, TablesInv
    <2>7. ReportedInv'
      BY <1>14, <1>18, <2>2, <2>6, ReportedKept
    <2> QED BY <2>2, <2>3, <2>6, <2>7, MovesKeep DEF Inv
  <1> QED BY <1>15, <1>17, <1>18

(* A request begins an interaction, whether or not its report finds room. *)
LEMMA PumpRequestKeeps ==
  ASSUME Inv, PumpRequest
  PROVE  Moves /\ Inv'
  <1>0. PICK s \in Nat : s = Len(interactions) + 1
    BY LenProperties DEF Inv, TablesInv
  <1> DEFINE r   == pump.run
             w   == pump.message.wire
             i   == [wire |-> w, run |-> r]
             new == EmitRequested(runs[r], s)
             now == [runs EXCEPT ![r] = EmitRequested(@, s)]
  <1>1. r \in Runs /\ Begun(r) /\ pump.state = "routed" /\ pump'.state = "next"
    BY DEF PumpRequest, Handles, Inv, PumpInv, PumpDone
  <1>2. w \in WireIds
    BY MessageWire DEF PumpRequest, Handles, Inv, PumpInv
  <1>3. interactions \in Seq([wire : WireIds, run : Runs]) /\ i \in [wire : WireIds, run : Runs]
    BY <1>1, <1>2 DEF Inv, TablesInv
  <1>4. interactions' = Append(interactions, i) /\ answering' = answering
    BY DEF PumpRequest
  <1>5. /\ interactions' \in Seq([wire : WireIds, run : Runs]) /\ Len(interactions) \in Nat
        /\ Len(interactions') = s /\ interactions'[s] = i
        /\ \A n \in 1..Len(interactions) : interactions'[n] = interactions[n]
    BY <1>0, <1>3, <1>4, AppendProperties, LenProperties
  <1>6. s \in Nat /\ s # 0 /\ i.wire = w
    BY <1>0, <1>5
  <1>7. /\ Extends(runs[r], new) /\ new.phase = runs[r].phase
        /\ \/ runs[r].phase # "active" \/ s \in new.requested \/ new.overflow
    BY <1>1, <1>6, RunShape, EmitRequestedExtends
  <1>8. now = [runs EXCEPT ![r] = new] /\ now[r] = new
    BY <1>1 DEF Inv, RunsInv
  <1>9. \/ AbortConnection(now, pendingByLocalId)
        \/ /\ ~(new.overflow /\ ~runs[r].overflow /\ ~closed) /\ runs' = [runs EXCEPT ![r] = new]
           /\ pendingByLocalId' = pendingByLocalId \cup {s}
           /\ pendingByWireKey' = [pendingByWireKey EXCEPT ![w] = s]
           /\ UNCHANGED <<closed, activeByTurn, transport, inbound>>
    BY <1>0, <1>8 DEF PumpRequest, UnlessFull
  <1> HIDE DEF r, w, new, now, i
  <1>10. \A n \in 1..Len(interactions') :
           (n \in 1..Len(interactions) /\ interactions'[n] = interactions[n]) \/ (n = s /\ interactions'[n] = i)
    BY <1>0, <1>5, <1>6
  <1>11. \A n \in 1..Len(interactions) : interactions[n] \in [wire : WireIds, run : Runs]
    BY <1>3, ElementOfSeq
  <1>12. ASSUME Moves
         PROVE  \A n \in 1..Len(interactions') : runs'[interactions'[n].run].phase \in {"active"} \cup Terminals
    BY <1>12, MovesKeep, <1>1, <1>10, <1>11 DEF Begun, Inv, TablesInv, i
  <1>13. 1..Len(interactions) \subseteq 1..Len(interactions') /\ s \in 1..Len(interactions')
    BY <1>0, <1>5, <1>6
  <1>14. CASE AbortConnection(now, pendingByLocalId)
    <2>1. now \in [Runs -> Shape] /\ \A q \in Runs : Extends(runs[q], now[q])
      BY <1>1, <1>7, <1>8, ExtendsItself DEF Extends, Sound, Inv, RunsInv
    <2>2. /\ Moves /\ FullInv' /\ closed' = TRUE /\ activeByTurn' \subseteq activeByTurn
          /\ inbound' = <<>> /\ transport' # "open"
          /\ \/ closed /\ UNCHANGED <<pendingByLocalId, pendingByWireKey>>
             \/ pendingByLocalId' = {} /\ pendingByWireKey' = [v \in WireIds |-> 0]
      BY <1>14, <2>1, AbortMoves
    <2>3. PumpInv'
      BY <1>1, <2>2, PumpIdle
    <2>4. \A q \in activeByTurn' : runs'[q].phase \in {"active"} \cup Terminals
      BY <2>2, MovesKeep DEF Inv, TablesInv, Begun
    <2>5. /\ pendingByLocalId' \subseteq pendingByLocalId /\ pendingByWireKey' \in [WireIds -> Nat]
          /\ \A v \in WireIds : pendingByWireKey'[v] # 0 => /\ pendingByWireKey'[v] \in pendingByLocalId'
                                                            /\ interactions'[pendingByWireKey'[v]].wire = v
      BY <1>5, <2>2 DEF Inv, TablesInv
    <2>6. TablesInv'
      BY <1>4, <1>5, <1>12, <1>13, <2>2, <2>4, <2>5 DEF Inv, TablesInv, Begun
    <2>7. ReportedInv'
      BY <1>1, <1>11, <2>2, MovesKeep, <1>5, <2>5 DEF Inv, TablesInv, ReportedInv, Lost, Active
    <2> QED BY <2>2, <2>3, <2>6, <2>7, MovesKeep DEF Inv
  <1>15. CASE /\ ~(new.overflow /\ ~runs[r].overflow /\ ~closed) /\ runs' = [runs EXCEPT ![r] = new]
              /\ pendingByLocalId' = pendingByLocalId \cup {s}
              /\ pendingByWireKey' = [pendingByWireKey EXCEPT ![w] = s]
              /\ UNCHANGED <<closed, activeByTurn, transport, inbound>>
    <2>1. Moves /\ FullInv'
      BY <1>1, <1>7, <1>15, NotFull, OneMoves
    <2>2. PumpInv'
      BY <1>1, <1>15, PumpIdle DEF Inv, PumpInv
    <2>3. \A q \in activeByTurn' : runs'[q].phase \in {"active"} \cup Terminals
      BY <1>15, <2>1, MovesKeep DEF Inv, TablesInv, Begun
    <2>4. /\ pendingByWireKey' \in [WireIds -> Nat]
          /\ \A v \in WireIds : pendingByWireKey'[v] # 0 => /\ pendingByWireKey'[v] \in pendingByLocalId'
                                                            /\ interactions'[pendingByWireKey'[v]].wire = v
      BY <1>2, <1>6, <1>15, <1>5 DEF Inv, TablesInv
    <2>5. pendingByLocalId' \subseteq 1..Len(interactions') /\ answering' \subseteq 1..Len(interactions')
      BY <1>4, <1>13, <1>15 DEF Inv, TablesInv
    <2>6. TablesInv'
      BY <1>5, <1>12, <1>15, <2>1, <2>3, <2>4, <2>5 DEF Inv, TablesInv, Begun
    <2>7. ReportedInv'
      <3>1. ASSUME NEW n \in pendingByLocalId, runs'[interactions[n].run].phase = "active"
            PROVE  n \in runs'[interactions[n].run].requested
        BY <1>1, <1>11, <2>1, <3>1, MovesKeep DEF Inv, TablesInv, ReportedInv, Lost, Active
      <3>2. runs'[r].phase = "active" => (s \in runs'[r].requested \/ Lost(s)')
        BY <1>1, <1>15, <1>0, <1>5, <1>7, NotFull, <1>4 DEF Inv, RunsInv, TablesInv, Lost
      <3>3. \A n \in pendingByLocalId : interactions'[n] = interactions[n]
        BY <1>5 DEF Inv, TablesInv
      <3>4. interactions'[s].run = r
        BY <1>5 DEF i
      <3> QED BY <1>15, <3>1, <3>2, <3>3, <3>4 DEF ReportedInv, Active
    <2> QED BY <2>1, <2>2, <2>6, <2>7, MovesKeep DEF Inv
  <1> QED BY <1>9, <1>14, <1>15

-------------------------------------------------------------------------------
LEMMA StepKeeps == ASSUME Inv, [Next]_vars PROVE (UNCHANGED vars \/ Moves) /\ Inv'
  <1>1. CASE UNCHANGED vars
    BY <1>1, NoneMoves, PumpKept, RestKept DEF vars, runVars, interVars, Inv, PumpInv, Forgets
  <1>2. CASE HostStep
    BY AbortSteps, StartKeeps, CancelSteps, ReadKeeps, StillSteps, RespondKeeps, <1>2 DEF Fork, runVars, HostStep
  <1>3. CASE ProviderStep
    BY TransportFailsKeeps, SendKeeps, StartKeeps, CancelSteps, StillSteps, <1>3 DEF ForkRequested, runVars, ProviderStep
  <1>4. CASE LoopStep
    <2>1. ASSUME NEW r \in Runs, RunContinues(r) PROVE Moves /\ Inv'
      BY <2>1, RunStartsKeeps, ReusedTurnKeeps, StartKeeps, CancelSteps DEF RunContinues
    <2>2. ASSUME NEW t \in Threads, ForkEnds(t) PROVE Moves /\ Inv'
      BY <2>2, StillSteps DEF ForkEnds, runVars
    <2>3. ASSUME NEW t \in Threads, ForkUncertain(t) PROVE Moves /\ Inv'
      BY <2>3, AbortSteps
    <2>4. ASSUME NEW r \in Runs, InterruptFails(r) \/ RunTimeout(r) \/ Watchdog(r) PROVE Moves /\ Inv'
      BY <2>4, InterruptFailsKeeps, RunTimeoutKeeps, AbortSteps
    <2>5. ASSUME NEW s \in answering, Responded(s) PROVE Moves /\ Inv'
      BY <2>5, RespondedKeeps
    <2>6. ASSUME NEW s \in answering, RespondFails(s) PROVE Moves /\ Inv'
      BY <2>6, StillSteps DEF RespondFails, runVars
    <2>7. CASE PumpStep
      <3>1. CASE PumpRefusalFails
        BY <3>1, AbortSteps DEF PumpRefusalFails
      <3>2. CASE PumpEnds
        BY AbortSteps, <3>2, NoneMoves, PumpIdle, RestKept DEF PumpEnds, runVars, interVars, Inv, PumpInv, Forgets
      <3> QED BY <2>7, <3>1, <3>2, PumpMoves, PumpResolvedKeeps, PumpStartedKeeps, PumpUpdateKeeps,
                 PumpRequestKeeps, PumpTerminalKeeps DEF PumpStep
    <2> QED BY <1>4, <2>1, <2>2, <2>3, <2>4, <2>5, <2>6, <2>7 DEF LoopStep, LaterStep
  <1> QED BY <1>1, <1>2, <1>3, <1>4 DEF Next

LEMMA InitHolds == Init => Inv
  <1> SUFFICES ASSUME Init PROVE Inv
    OBVIOUS
  <1>1. RunsInv
    BY DEF Init, RunsInv, Shape, Phases, Sound, Fresh, CancelWaits, Terminals
  <1>2. TablesInv
    BY EmptySeq DEF Init, TablesInv
  <1>3. PumpInv
    BY EmptySeq DEF Init, PumpInv
  <1> QED BY <1>1, <1>2, <1>3 DEF Init, Inv, FullInv, ReportedInv, Active

(* The adapter implements RunContract for any number of Threads, Runs and messages and every queue   *)
(* capacity that keeps a place for the terminal event: a Run starts once, ends once, says nothing    *)
(* afterwards and resolves only interactions that its stream has reported, whatever the Provider     *)
(* sends, however answers, abandoned interactions and the end of the connection cross, and when      *)
(* queues are full.                                                                                 *)
THEOREM CodexImplementsRunContract == Spec => ImplementsRunContract
  <1>1. Init => Contract!Init
    BY DEF Init, Contract!Init, RunStatusOf, Terminals
  <1>2. Inv /\ [Next]_vars => [Contract!Next]_(Contract!runVars)
    <2> SUFFICES ASSUME Inv, [Next]_vars, ~UNCHANGED Contract!runVars PROVE Contract!Next
      OBVIOUS
    <2>1. ~UNCHANGED vars
      BY DEF vars, runVars, Contract!runVars
    <2>2. Moves /\ RunsInv'
      BY <2>1, StepKeeps DEF Inv
    <2>3. ASSUME NEW r \in Runs
          PROVE  /\ \/ /\ RunStatusOf(runs'[r]) = RunStatusOf(runs[r])
                       /\ runs'[r].requested = runs[r].requested /\ runs'[r].resolved = runs[r].resolved
                    \/ /\ RunStatusOf(runs[r]) = "active"
                       /\ RunStatusOf(runs'[r]) \in {"active"} \cup Terminals
                       /\ runs[r].requested \subseteq runs'[r].requested
                       /\ runs[r].resolved \subseteq runs'[r].resolved
                    \/ /\ RunStatusOf(runs[r]) = "none" /\ RunStatusOf(runs'[r]) = "active"
                       /\ runs[r].requested = runs'[r].requested /\ runs[r].resolved = runs'[r].resolved
                 /\ runs'[r].resolved \subseteq runs'[r].requested
                 /\ RunStatusOf(runs'[r]) \in {"none", "active"} \cup Terminals
                 /\ runs'[r].requested \in SUBSET Nat /\ runs'[r].resolved \in SUBSET Nat
      BY <2>2, TerminalsApart DEF Moves, Extends, Begins, RunStatusOf, RunsInv, Sound, Shape
    <2> QED BY <2>3 DEF Contract!Next, Contract!RunStep, Contract!Start, Contract!Progress, Contract!Settle,
                        Contract!Rest, Contract!Reports, Contract!Silent, Contract!RunStatus, Terminals
  <1>3. Inv /\ [Next]_vars => Inv'
    BY StepKeeps
  <1> QED BY <1>1, <1>2, <1>3, InitHolds, PTL DEF Spec, ImplementsRunContract, Contract!Spec

-------------------------------------------------------------------------------
(* A Run by itself: its queue keeps a place for the terminal event, a read waits at an empty queue   *)
(* of a Run that goes on, and the result of cancel() is what became of the Run.                     *)
QueueFits(run) ==
  /\ run.queued \in Nat /\ run.queued <= MaxRunEvents
  /\ run.phase = "active" => run.queued < MaxRunEvents
  /\ run.waiting => run.phase = "active" /\ run.queued = 0

CancelTrue(run) ==
  /\ run.cancel = "native" => run.phase = "cancelled"
  /\ run.cancel = "connection_aborted" => run.phase = "connection_aborted"
  /\ run.cancel = "already_terminal" => run.phase \in Terminals

Unheard(run) == run.phase \notin {"active"} \cup Terminals => run.requested = {}

Tidy(run) == QueueFits(run) /\ CancelTrue(run) /\ Unheard(run)

TidyInv == \A r \in Runs : Tidy(runs[r])

(* A startRun call that holds its Thread. *)
Waits(run) == run.phase \in {"starting", "responded", "rejected"}

(* Runs and Threads: who is registered is what the Runs say, and one of three has a Thread. *)
Registered(rs, byThread, byTurn, starting) ==
  /\ \A r \in Runs : rs[r].phase = "active" <=> r \in byTurn
  /\ \A r \in byTurn : rs[r].thread \in Threads /\ byThread[rs[r].thread] = r
  /\ \A r \in Runs : Waits(rs[r]) => rs[r].thread \in Threads /\ starting[rs[r].thread] = r
  /\ \A t \in Threads : byThread[t] # NoRun => byThread[t] \in byTurn /\ rs[byThread[t]].thread = t
  /\ \A t \in Threads :
       starting[t] # NoRun => Waits(rs[starting[t]]) /\ rs[starting[t]].thread = t

OneHolds(byThread, starting, fk) ==
  \A t \in Threads : /\ byThread[t] = NoRun \/ starting[t] = NoRun
                     /\ fk[t] # "none" => byThread[t] = NoRun /\ starting[t] = NoRun

ThreadTypes ==
  /\ activeByThread \in [Threads -> Runs \cup {NoRun}] /\ activeByTurn \subseteq Runs
  /\ startingByThread \in [Threads -> Runs \cup {NoRun}]
  /\ forks \in [Threads -> {"none", "read", "fork"}]

ThreadInv ==
  /\ ThreadTypes
  /\ Registered(runs, activeByThread, activeByTurn, startingByThread)
  /\ OneHolds(activeByThread, startingByThread, forks)

(* Runs and interactions: what a Run has reported and not resolved is pending, unless its queue was  *)
(* full.                                                                                            *)
Accounts(run, S) ==
  ~run.overflow => /\ run.phase = "active" => run.requested = run.resolved \cup S
                   /\ run.phase \in Terminals => run.requested = run.resolved

AccountInv == \A r \in Runs : Accounts(runs[r], PendingOf(r, pendingByLocalId))

(* Interactions and the wire. *)
WireTypes ==
  /\ wirePending \subseteq WireIds /\ wireResponding \subseteq WireIds /\ wireAbandoning \subseteq WireIds
  /\ transport \in {"open", "failed", "closed"}
  /\ transport # "open" =>
       inbound = <<>> /\ wirePending = {} /\ wireResponding = {} /\ wireAbandoning = {}

(* Pending interactions belong to active Runs and are found by their wire id. *)
RouteInv ==
  ~closed =>
    /\ \A s \in pendingByLocalId : /\ Active(interactions[s].run)
                                   /\ pendingByWireKey[interactions[s].wire] = s
    /\ pump.state = "routed" /\ pump.run # NoRun => Active(pump.run)

(* A request on its way to the adapter is the only holder of its wire id. *)
Queued(w)   == \E i \in 1..Len(inbound) : inbound[i].type = "request" /\ inbound[i].wire = w
InHand(w)   == pump.state \in {"taken", "routing", "routed"} /\ pump.message.type = "request"
                 /\ pump.message.wire = w
Refusing(w) == pump.state = "refusing" /\ pump.wire = w

CarriedInv ==
  ~closed =>
    /\ \A w \in WireIds : Queued(w) \/ InHand(w) \/ Refusing(w) => pendingByWireKey[w] = 0
    /\ \A w \in WireIds : Queued(w) => ~InHand(w)
    /\ \A i, j \in 1..Len(inbound) :
         inbound[i].type = "request" /\ inbound[j].type = "request" /\ inbound[i].wire = inbound[j].wire
           => i = j
    /\ transport = "open" =>
         \A w \in WireIds : Queued(w) \/ InHand(w) => w \in wirePending /\ w \notin wireResponding

(* Every reservation has a holder, and one answer at a time. *)
Answering(w) == \E s \in answering : interactions[s].wire = w

HeldInv ==
  ~closed /\ transport = "open" =>
    /\ \A w \in wirePending : Queued(w) \/ InHand(w) \/ pendingByWireKey[w] # 0 \/ w \in wireResponding
    /\ \A w \in WireIds : pendingByWireKey[w] # 0 => w \in wirePending
    /\ wireResponding \subseteq wirePending /\ wireAbandoning \subseteq wireResponding
    /\ \A w \in WireIds : w \in wireResponding <=> Answering(w) \/ Refusing(w)
    /\ \A w \in WireIds : Refusing(w) => ~Answering(w) /\ w \notin wireAbandoning
    /\ \A s, q \in answering : interactions[s].wire = interactions[q].wire => s = q
    /\ \A s \in answering : interactions[s].wire \in wireAbandoning <=> s \notin pendingByLocalId
    /\ \A s \in pendingByLocalId : interactions[s].wire \in wireResponding => s \in answering

Whole == TidyInv /\ ThreadInv /\ AccountInv /\ WireTypes /\ RouteInv /\ CarriedInv /\ HeldInv

-------------------------------------------------------------------------------
(* Runs by themselves. *)

(* As many resolutions are accepted as the queue has room for: of the first ones, the last is        *)
(* preceded by fewer than there is room for.                                                        *)
LEMMA FitBound ==
  ASSUME NEW N \in Nat, NEW S \in SUBSET (1..N), NEW n \in Int
  PROVE  LET fit == {s \in S : Cardinality({t \in S : t < s}) < n} IN
           /\ Cardinality(fit) \in Nat
           /\ fit = {} \/ Cardinality(fit) <= n
           /\ fit = {} <=> Cardinality(fit) = 0
  <1> DEFINE Before(s) == {t \in S : t < s}
             fit == {s \in S : Cardinality(Before(s)) < n}
  <1>1. IsFiniteSet(S)
    <2>1. IsFiniteSet(1..N)
      BY FS_Interval
    <2> QED BY <2>1, FS_Subset
  <1>2. /\ fit \subseteq S /\ IsFiniteSet(fit) /\ Cardinality(fit) \in Nat
        /\ fit = {} <=> Cardinality(fit) = 0
    <2>1. fit \in SUBSET S
      OBVIOUS
    <2> HIDE DEF fit
    <2> QED BY <1>1, <2>1, FS_Subset, FS_CardinalityType, FS_EmptySet
  <1>3. ASSUME fit # {} PROVE Cardinality(fit) <= n
    <2> DEFINE R == OpToRel(<, Nat)
               T == {N - s : s \in fit}
    <2>1. T \subseteq Nat /\ T # {}
      <3>1. \A s \in fit : N - s \in Nat
        BY <1>2
      <3> HIDE DEF fit
      <3> QED BY <1>3, <3>1
    <2>2. PICK x \in T : \A y \in T : ~(<<y, x>> \in R)
      <3>1. IsWellFoundedOn(R, Nat)
        BY NatLessThanWellFounded
      <3> HIDE DEF T, R
      <3> QED BY <2>1, <3>1, WFMin
    <2>3. PICK m \in fit : x = N - m
      BY <2>2
    <2>4. \A s \in fit : s <= m
      <3> SUFFICES ASSUME NEW s \in fit, ~(s <= m) PROVE FALSE
        OBVIOUS
      <3>1. s \in Nat /\ m \in Nat /\ N - s \in T /\ N - s \in Nat /\ N - m \in Nat
        BY <1>2
      <3>2. <<N - s, x>> \in R
        BY <2>3, <3>1 DEF OpToRel
      <3> QED BY <2>2, <3>1, <3>2
    <2>5. Cardinality(Before(m)) < n /\ Before(m) \subseteq S
      OBVIOUS
    <2>6. IsFiniteSet(Before(m)) /\ Cardinality(Before(m)) \in Nat
      BY <1>1, <2>5, FS_Subset, FS_CardinalityType
    <2>7. fit \ {m} \in SUBSET Before(m)
      <3>1. \A s \in fit : s \in S /\ s \in Nat
        BY <1>2
      <3>2. \A s \in fit : s # m => s < m
        BY <2>4, <3>1
      <3> HIDE DEF fit
      <3> QED BY <3>1, <3>2
    <2> HIDE DEF fit, Before
    <2>8. Cardinality(fit \ {m}) = Cardinality(fit) - 1
      BY <1>2, <2>3, FS_RemoveElement
    <2>9. Cardinality(fit \ {m}) <= Cardinality(Before(m))
      <3>1. PICK B, F : B = Before(m) /\ F = fit \ {m}
        OBVIOUS
      <3>2. IsFiniteSet(B) /\ F \in SUBSET B
        BY <2>6, <2>7, <3>1
      <3>3. Cardinality(F) <= Cardinality(B)
        BY <3>2, FS_Subset
      <3> QED BY <3>1, <3>3
    <2> QED BY <1>2, <2>5, <2>6, <2>8, <2>9
  <1> QED BY <1>2, <1>3

(* What an event does not touch. *)
Beside(run, new) ==
  /\ new \in Shape /\ Tidy(new)
  /\ new.phase = run.phase /\ new.thread = run.thread

LEMMA BesideItself == ASSUME NEW run \in Shape, Tidy(run) PROVE Beside(run, run)
  BY DEF Beside

LEMMA EnqueueTidy ==
  ASSUME NEW run \in Shape, Tidy(run), run.phase = "active", NEW n \in Nat, n = 0 \/ n <= Room(run)
  PROVE  LET new == Enqueue(run, n) IN
           /\ Beside(run, new) /\ new.cancel = run.cancel /\ new.overflow = run.overflow
           /\ new.requested = run.requested /\ new.resolved = run.resolved
  <1> DEFINE q == run.queued + n - (IF run.waiting /\ n > 0 THEN 1 ELSE 0)
             b == run.waiting /\ n = 0
  <1>1. q \in Nat /\ q < MaxRunEvents /\ (b => q = 0) /\ b \in BOOLEAN
    BY CapacityAssumption DEF CapacityAssumption, Tidy, QueueFits, Room, Shape
  <1>2. Enqueue(run, n) = [run EXCEPT !.queued = q, !.waiting = b]
    BY DEF Enqueue, Shape
  <1> HIDE DEF q, b
  <1> DEFINE new == [run EXCEPT !.queued = q, !.waiting = b]
  <1>3. /\ new \in Shape /\ new.queued = q /\ new.waiting = b /\ new.phase = run.phase
        /\ new.thread = run.thread /\ new.cancel = run.cancel /\ new.overflow = run.overflow
        /\ new.requested = run.requested /\ new.resolved = run.resolved
    <2>1. b \in BOOLEAN /\ q \in Int
      BY <1>1
    <2> QED BY <2>1 DEF Shape
  <1> HIDE DEF new
  <1>4. Tidy(new)
    BY <1>1, <1>3, CapacityAssumption DEF CapacityAssumption, Tidy, QueueFits, CancelTrue, Unheard
  <1> QED BY <1>2, <1>3, <1>4 DEF Beside, new

LEMMA OverflowTidy ==
  ASSUME NEW run \in Shape, Tidy(run)
  PROVE  LET new == [run EXCEPT !.overflow = TRUE] IN
           /\ Beside(run, new) /\ new.overflow
           /\ new.requested = run.requested /\ new.resolved = run.resolved
  <1> DEFINE new == [run EXCEPT !.overflow = TRUE]
  <1>1. /\ new \in Shape /\ new.queued = run.queued /\ new.waiting = run.waiting /\ new.phase = run.phase
        /\ new.thread = run.thread /\ new.cancel = run.cancel /\ new.overflow = TRUE
        /\ new.requested = run.requested /\ new.resolved = run.resolved
    BY DEF Shape
  <1> HIDE DEF new
  <1>2. Tidy(new)
    BY <1>1 DEF Tidy, QueueFits, CancelTrue, Unheard
  <1> QED BY <1>1, <1>2 DEF Beside, new

LEMMA EmitTidy ==
  ASSUME NEW run \in Shape, Tidy(run)
  PROVE  LET new == Emit(run) IN
           /\ Beside(run, new)
           /\ run.overflow => new.overflow
           /\ new.requested = run.requested /\ new.resolved = run.resolved
  <1>1. Room(run) > 0 => 1 <= Room(run)
    BY CapacityAssumption DEF CapacityAssumption, Tidy, QueueFits, Room
  <1> QED BY <1>1, BesideItself, EnqueueTidy, OverflowTidy DEF Emit

LEMMA EmitRequestedTidy ==
  ASSUME NEW run \in Shape, Tidy(run), NEW s \in Nat
  PROVE  LET new == EmitRequested(run, s) IN
           /\ Beside(run, new)
           /\ run.overflow => new.overflow
           /\ new.resolved = run.resolved
           /\ IF run.phase # "active" THEN new = run
              ELSE new.overflow \/ new.requested = run.requested \cup {s}
  <1>1. CASE run.phase # "active"
    BY <1>1, BesideItself DEF EmitRequested
  <1>2. CASE run.phase = "active" /\ ~(Room(run) > 0)
    BY <1>2, OverflowTidy DEF EmitRequested
  <1>3. CASE run.phase = "active" /\ Room(run) > 0
    <2>1. PICK mid : mid = Enqueue(run, 1)
      OBVIOUS
    <2>2. 1 <= Room(run)
      BY <1>3, CapacityAssumption DEF CapacityAssumption, Tidy, QueueFits, Room
    <2>3. /\ Beside(run, mid) /\ mid.overflow = run.overflow
          /\ mid.requested = run.requested /\ mid.resolved = run.resolved
      BY <1>3, <2>1, <2>2, EnqueueTidy
    <2> DEFINE new == [mid EXCEPT !.requested = @ \cup {s}]
    <2>4. /\ new \in Shape /\ new.queued = mid.queued /\ new.waiting = mid.waiting /\ new.phase = mid.phase
          /\ new.thread = mid.thread /\ new.cancel = mid.cancel /\ new.overflow = mid.overflow
          /\ new.requested = mid.requested \cup {s} /\ new.resolved = mid.resolved
      BY <2>3 DEF Shape, Beside
    <2>5. EmitRequested(run, s) = new
      BY <1>3, <2>1 DEF EmitRequested
    <2> HIDE DEF new
    <2>6. Tidy(new)
      BY <1>3, <2>3, <2>4 DEF Beside, Tidy, QueueFits, CancelTrue, Unheard
    <2> QED BY <1>3, <2>3, <2>4, <2>5, <2>6 DEF Beside
  <1> QED BY <1>1, <1>2, <1>3

LEMMA EmitResolvedTidy ==
  ASSUME NEW run \in Shape, Tidy(run), NEW N \in Nat, NEW S \in SUBSET (1..N)
  PROVE  LET new == EmitResolved(run, S) IN
           /\ Beside(run, new)
           /\ run.overflow => new.overflow
           /\ new.requested = run.requested
           /\ IF run.phase # "active" THEN new = run
              ELSE new.overflow \/ new.resolved = run.resolved \cup S
  <1> DEFINE fit == {s \in S : Cardinality({t \in S : t < s}) < Room(run)}
  <1>1. CASE run.phase # "active"
    BY <1>1, BesideItself DEF EmitResolved
  <1>2. CASE run.phase = "active"
    <2>1. Room(run) \in Int
      BY CapacityAssumption DEF CapacityAssumption, Tidy, QueueFits, Room
    <2>2. Cardinality(fit) \in Nat /\ (Cardinality(fit) = 0 \/ Cardinality(fit) <= Room(run))
      BY <2>1, FitBound
    <2>3. fit \subseteq S
      OBVIOUS
    <2>4. PICK mid : mid = Enqueue(run, Cardinality(fit))
      OBVIOUS
    <2>5. EmitResolved(run, S) = [mid EXCEPT !.resolved = @ \cup fit, !.overflow = @ \/ fit # S]
      BY <1>2, <2>4 DEF EmitResolved
    <2> HIDE DEF fit
    <2>6. /\ Beside(run, mid) /\ mid.overflow = run.overflow
          /\ mid.requested = run.requested /\ mid.resolved = run.resolved
      BY <1>2, <2>2, <2>4, EnqueueTidy
    <2> DEFINE full == mid.overflow \/ fit # S
               new  == [mid EXCEPT !.resolved = @ \cup fit, !.overflow = @ \/ fit # S]
    <2>7. mid.resolved \cup fit \in SUBSET Nat /\ full \in BOOLEAN /\ new = [mid EXCEPT !.resolved = mid.resolved \cup fit, !.overflow = full]
      BY <2>3, <2>6 DEF Beside, Shape
    <2> HIDE DEF full
    <2>8. /\ new \in Shape /\ new.queued = mid.queued /\ new.waiting = mid.waiting /\ new.phase = mid.phase
          /\ new.thread = mid.thread /\ new.cancel = mid.cancel /\ new.overflow = full
          /\ new.requested = mid.requested /\ new.resolved = mid.resolved \cup fit
      BY <2>6, <2>7 DEF Shape, Beside
    <2> HIDE DEF new
    <2>9. Tidy(new)
      BY <1>2, <2>6, <2>8 DEF Beside, Tidy, QueueFits, CancelTrue, Unheard
    <2> QED BY <1>2, <2>5, <2>6, <2>8, <2>9 DEF Beside, full, new
  <1> QED BY <1>1, <1>2

LEMMA FinishTidy ==
  ASSUME NEW run \in Shape, Tidy(run), NEW result \in Terminals
  PROVE  LET new == Finish(run, result) IN
           /\ new \in Shape /\ Tidy(new) /\ new.thread = run.thread
           /\ new.requested = run.requested /\ new.resolved = run.resolved /\ new.overflow = run.overflow
           /\ IF run.phase # "active" THEN new = run ELSE new.phase = result
  <1> DEFINE started == IF run.providerStart = "unknown" THEN "no" ELSE run.providerStart
             q       == run.queued + (IF run.waiting THEN 0 ELSE 1)
             new     == [run EXCEPT !.phase = result, !.providerStart = started, !.queued = q, !.waiting = FALSE]
  <1>1. started \in {"unknown", "yes", "no"} /\ q \in Int /\ result \in Phases
    BY DEF Shape, Phases
  <1>2. CASE run.phase # "active"
    BY <1>2 DEF Finish
  <1>3. CASE run.phase = "active"
    <2>1. Finish(run, result) = new
      BY <1>3 DEF Finish, Shape
    <2>2. q \in Nat /\ q <= MaxRunEvents
      BY <1>3, CapacityAssumption DEF CapacityAssumption, Tidy, QueueFits, Shape
    <2> HIDE DEF started, q
    <2>3. /\ new \in Shape /\ new.queued = q /\ new.waiting = FALSE /\ new.phase = result
          /\ new.thread = run.thread /\ new.cancel = run.cancel /\ new.overflow = run.overflow
          /\ new.requested = run.requested /\ new.resolved = run.resolved
      BY <1>1 DEF Shape
    <2> HIDE DEF new
    <2>4. run.cancel \notin {"native", "connection_aborted", "already_terminal"}
      BY <1>3, TerminalsApart DEF Tidy, CancelTrue
    <2>5. Tidy(new)
      BY <2>2, <2>3, <2>4, TerminalsApart DEF Tidy, QueueFits, CancelTrue, Unheard
    <2> QED BY <1>3, <2>1, <2>3, <2>5
  <1> QED BY <1>2, <1>3

LEMMA RejectStartingTidy ==
  ASSUME NEW run \in Shape, Tidy(run)
  PROVE  LET new == RejectStarting(run) IN
           /\ new \in Shape /\ Tidy(new) /\ new.thread = run.thread
           /\ IF run.phase = "starting" THEN new.phase = "rejected" ELSE new = run
  <1> DEFINE new == [run EXCEPT !.phase = "rejected"]
  <1>1. /\ new \in Shape /\ new.queued = run.queued /\ new.waiting = run.waiting /\ new.phase = "rejected"
        /\ new.thread = run.thread /\ new.cancel = run.cancel /\ new.requested = run.requested
    BY DEF Shape, Phases
  <1> HIDE DEF new
  <1>2. CASE run.phase = "starting"
    BY <1>1, <1>2 DEF Tidy, QueueFits, CancelTrue, Unheard, Terminals, RejectStarting, new
  <1> QED BY <1>2 DEF RejectStarting

(* What a Run is after the end of the connection. *)
Aborted(run, new) ==
  /\ new \in Shape /\ Tidy(new) /\ new.thread = run.thread
  /\ new.phase # "active"
  /\ Waits(new) <=> Waits(run)
  /\ new.phase \in Terminals /\ ~new.overflow => new.requested = new.resolved

(* A startRun call whose request is rejected. *)
LEMMA RejectedRun ==
  ASSUME NEW run \in Shape, Tidy(run), run.phase # "active",
         run.phase \in Terminals /\ ~run.overflow => run.requested = run.resolved
  PROVE  Aborted(run, RejectStarting(run))
  <1>1. PICK new : new = RejectStarting(run)
    OBVIOUS
  <1>2. /\ new \in Shape /\ Tidy(new) /\ new.thread = run.thread
        /\ IF run.phase = "starting" THEN new.phase = "rejected" ELSE new = run
    BY <1>1, RejectStartingTidy
  <1>3. Aborted(run, new)
    BY <1>2 DEF Aborted, Waits, Terminals
  <1> QED BY <1>1, <1>3

(* A Run that the end of the connection aborts. *)
LEMMA AbortedRun ==
  ASSUME NEW run \in Shape, Tidy(run), NEW N \in Nat, NEW S \in SUBSET (1..N), Accounts(run, S)
  PROVE  Aborted(run, RejectStarting(Finish(EmitResolved(run, S), "connection_aborted")))
  <1>1. PICK said : said = EmitResolved(run, S)
    OBVIOUS
  <1>2. PICK done : done = Finish(said, "connection_aborted")
    OBVIOUS
  <1>3. /\ Beside(run, said) /\ said.requested = run.requested
        /\ run.overflow => said.overflow
        /\ IF run.phase # "active" THEN said = run
           ELSE said.overflow \/ said.resolved = run.resolved \cup S
    BY <1>1, EmitResolvedTidy
  <1>4. /\ done \in Shape /\ Tidy(done) /\ done.thread = said.thread
        /\ done.requested = said.requested /\ done.resolved = said.resolved /\ done.overflow = said.overflow
        /\ IF said.phase # "active" THEN done = said ELSE done.phase = "connection_aborted"
    BY <1>2, <1>3, FinishTidy DEF Beside, Terminals
  <1>5. /\ done.phase # "active" /\ done.thread = run.thread
        /\ done.phase \in Terminals /\ ~done.overflow => done.requested = done.resolved
    BY <1>3, <1>4 DEF Beside, Accounts
  <1>6. Aborted(done, RejectStarting(done))
    BY <1>4, <1>5, RejectedRun
  <1>7. Waits(done) <=> Waits(run)
    BY <1>3, <1>4 DEF Beside, Waits
  <1>8. Aborted(run, RejectStarting(done))
    BY <1>5, <1>6, <1>7 DEF Aborted
  <1> QED BY <1>1, <1>2, <1>8

LEMMA PendingRange ==
  ASSUME Inv, NEW P \in SUBSET pendingByLocalId, NEW r
  PROVE  Len(interactions) \in Nat /\ PendingOf(r, P) \in SUBSET (1..Len(interactions))
  BY LenProperties DEF Inv, TablesInv, PendingOf

LEMMA PendingRuns ==
  ASSUME Inv, NEW s \in 1..Len(interactions)
  PROVE  interactions[s].run \in Runs /\ interactions[s].wire \in WireIds /\ s # 0
  <1>1. interactions[s] \in [wire : WireIds, run : Runs]
    BY ElementOfSeq DEF Inv, TablesInv
  <1> QED BY <1>1

LEMMA PendingKept ==
  ASSUME NEW P, \A s \in P : interactions'[s] = interactions[s], pendingByLocalId' = P
  PROVE  \A r : PendingOf(r, pendingByLocalId)' = PendingOf(r, P)
  BY DEF PendingOf

-------------------------------------------------------------------------------
(* The end of the connection, from Runs `now` that a step has moved. *)

LEMMA AbortRegistered ==
  ASSUME NEW now, NEW P, ~closed, AbortConnection(now, P), ThreadTypes, NullAssumption, NEW st,
         Registered(now, activeByThread, activeByTurn, st),
         \A r \in Runs : /\ runs'[r].phase # "active" /\ runs'[r].thread = now[r].thread
                         /\ Waits(runs'[r]) <=> Waits(now[r]),
         \A t \in Threads : st[t] \in Runs \cup {NoRun}
  PROVE  /\ Registered(runs', activeByThread', activeByTurn', st)
         /\ activeByThread' = [t \in Threads |-> NoRun] /\ activeByTurn' = {}
  <1>1. /\ activeByTurn' = {}
        /\ activeByThread' = [t \in Threads |-> IF activeByThread[t] \in activeByTurn
                                                THEN NoRun ELSE activeByThread[t]]
    BY DEF AbortConnection
  <1>2. \A t \in Threads : activeByThread[t] # NoRun => activeByThread[t] \in activeByTurn
    BY DEF Registered
  <1>3. activeByThread' = [t \in Threads |-> NoRun]
    BY <1>1, <1>2
  <1>4. \A t \in Threads : st[t] # NoRun => Waits(runs'[st[t]]) /\ runs'[st[t]].thread = t
    BY DEF Registered
  <1>5. \A r \in Runs : Waits(runs'[r]) => runs'[r].thread \in Threads /\ st[runs'[r].thread] = r
    BY DEF Registered
  <1> QED BY <1>1, <1>3, <1>4, <1>5 DEF Registered

(* Every step that aborts the connection goes through this lemma. *)
LEMMA AbortWhole ==
  ASSUME Inv, Whole, NEW now \in [Runs -> Shape], \A r \in Runs : Tidy(now[r]),
         NEW P \in SUBSET pendingByLocalId, closed => P = pendingByLocalId,
         \A r \in Runs : Accounts(now[r], PendingOf(r, P)),
         AbortConnection(now, P),
         startingByThread' \in [Threads -> Runs \cup {NoRun}],
         Registered(now, activeByThread, activeByTurn, startingByThread'),
         forks' \in [Threads -> {"none", "read", "fork"}],
         OneHolds(activeByThread, startingByThread', forks'),
         \A s \in pendingByLocalId : interactions'[s] = interactions[s]
  PROVE  Whole'
  <1>1. CASE closed
    <2>1. /\ runs' = now /\ closed'
          /\ UNCHANGED <<activeByThread, activeByTurn, pendingByLocalId, transport, inbound, wireVars>>
      BY <1>1 DEF AbortConnection
    <2>2. TidyInv' /\ ThreadInv' /\ WireTypes'
      BY <2>1 DEF Whole, TidyInv, ThreadInv, ThreadTypes, WireTypes, wireVars
    <2>3. AccountInv'
      BY <1>1, <2>1, PendingKept DEF AccountInv
    <2> QED BY <2>1, <2>2, <2>3 DEF Whole, RouteInv, CarriedInv, HeldInv
  <1>2. CASE ~closed
    <2>1. /\ runs' = AbortRuns(now, P) /\ closed' /\ pendingByLocalId' = {} /\ EndTransport("closed")
      BY <1>2 DEF AbortConnection
    <2>2. ASSUME NEW r \in Runs
          PROVE  /\ Tidy(runs'[r]) /\ \A T : Accounts(runs'[r], T)
                 /\ runs'[r].phase # "active" /\ runs'[r].thread = now[r].thread
                 /\ Waits(runs'[r]) <=> Waits(now[r])
      <3>1. now[r] \in Shape /\ Tidy(now[r]) /\ Accounts(now[r], PendingOf(r, P))
        OBVIOUS
      <3>2. Aborted(now[r], runs'[r])
        <4>1. CASE r \in activeByTurn
          <5>1. runs'[r] = RejectStarting(Finish(EmitResolved(now[r], PendingOf(r, P)), "connection_aborted"))
            BY <2>1, <4>1 DEF AbortRuns
          <5>2. PICK N, S : N \in Nat /\ S \in SUBSET (1..N) /\ S = PendingOf(r, P)
            BY PendingRange
          <5>3. Aborted(now[r], RejectStarting(Finish(EmitResolved(now[r], S), "connection_aborted")))
            BY <3>1, <5>2, AbortedRun
          <5> QED BY <5>1, <5>2, <5>3
        <4>2. CASE r \notin activeByTurn
          BY <2>1, <4>2, <3>1, RejectedRun DEF AbortRuns, Registered, Accounts
        <4> QED BY <4>1, <4>2
      <3> QED BY <3>2 DEF Aborted, Accounts
    <2>3. /\ Registered(runs', activeByThread', activeByTurn', startingByThread')
          /\ activeByThread' = [t \in Threads |-> NoRun] /\ activeByTurn' = {}
      BY <1>2, <2>2, AbortRegistered, NullAssumption DEF Whole, ThreadInv
    <2>4. ThreadInv'
      BY <2>3 DEF ThreadInv, ThreadTypes, OneHolds
    <2>5. WireTypes'
      BY <2>1 DEF Whole, WireTypes, EndTransport
    <2>6. TidyInv' /\ AccountInv'
      BY <2>2 DEF TidyInv, AccountInv
    <2> QED BY <2>1, <2>4, <2>5, <2>6 DEF Whole, RouteInv, CarriedInv, HeldInv
  <1> QED BY <1>1, <1>2

LEMMA AbortStill ==
  ASSUME Inv, Whole, AbortConnection(runs, pendingByLocalId), UNCHANGED <<startingByThread, interactions>>,
         forks' \in [Threads -> {"none", "read", "fork"}],
         \A t \in Threads : forks'[t] = "none" \/ forks'[t] = forks[t]
  PROVE  Whole'
  <1>1. runs \in [Runs -> Shape] /\ \A r \in Runs : Tidy(runs[r])
    BY DEF Inv, RunsInv, Whole, TidyInv
  <1>2. \A r \in Runs : Accounts(runs[r], PendingOf(r, pendingByLocalId))
    BY DEF Whole, AccountInv
  <1>3. /\ startingByThread' \in [Threads -> Runs \cup {NoRun}]
        /\ Registered(runs, activeByThread, activeByTurn, startingByThread')
        /\ OneHolds(activeByThread, startingByThread', forks')
    BY DEF Whole, ThreadInv, ThreadTypes, OneHolds
  <1> QED BY <1>1, <1>2, <1>3, AbortWhole

(* Registered looks at the phase and the Thread of a Run only. *)
LEMMA RegisteredBeside ==
  ASSUME NEW rs \in [Runs -> Shape], NEW r \in Runs, NEW new, Beside(rs[r], new),
         NEW byThread, NEW byTurn, NEW st, Registered(rs, byThread, byTurn, st),
         byTurn \subseteq Runs, \A t \in Threads : st[t] \in Runs \cup {NoRun}
  PROVE  Registered([rs EXCEPT ![r] = new], byThread, byTurn, st)
  <1>1. PICK now : now = [rs EXCEPT ![r] = new]
    OBVIOUS
  <1>2. \A q \in Runs : now[q].phase = rs[q].phase /\ now[q].thread = rs[q].thread
    BY <1>1 DEF Beside
  <1>3. Registered(now, byThread, byTurn, st)
    BY <1>2 DEF Registered, Waits
  <1> QED BY <1>1, <1>3

(* The others keep their accounts when a step moves one Run and forgets interactions of it. *)
LEMMA AbortOne ==
  ASSUME Inv, Whole, NEW r \in Runs, NEW new, Beside(runs[r], new),
         NEW P \in SUBSET pendingByLocalId, closed => P = pendingByLocalId,
         \A q \in Runs \ {r} : PendingOf(q, P) = PendingOf(q, pendingByLocalId),
         Accounts(new, PendingOf(r, P)), AbortConnection([runs EXCEPT ![r] = new], P),
         UNCHANGED <<startingByThread, forks>>, \A s \in pendingByLocalId : interactions'[s] = interactions[s]
  PROVE  Whole'
  <1>1. PICK now : now = [runs EXCEPT ![r] = new]
    OBVIOUS
  <1>2. runs \in [Runs -> Shape] /\ now \in [Runs -> Shape]
    BY <1>1 DEF Inv, RunsInv, Beside
  <1>3. \A q \in Runs : now[q] = IF q = r THEN new ELSE runs[q]
    BY <1>1, <1>2
  <1>4. \A q \in Runs : Tidy(now[q]) /\ Accounts(now[q], PendingOf(q, P))
    BY <1>3 DEF Whole, TidyInv, AccountInv, Beside
  <1>5. /\ startingByThread' \in [Threads -> Runs \cup {NoRun}]
        /\ Registered(runs, activeByThread, activeByTurn, startingByThread')
        /\ activeByTurn \subseteq Runs
        /\ forks' \in [Threads -> {"none", "read", "fork"}]
        /\ OneHolds(activeByThread, startingByThread', forks')
    BY DEF Whole, ThreadInv, ThreadTypes
  <1>6. Registered(now, activeByThread, activeByTurn, startingByThread')
    BY <1>1, <1>2, <1>5, RegisteredBeside
  <1> QED BY <1>1, <1>2, <1>4, <1>5, <1>6, AbortWhole

-------------------------------------------------------------------------------
(* Runs, Threads and accounts in the steps that do not end the connection. *)

RunsWhole == TidyInv /\ ThreadInv /\ AccountInv

threadVars == <<activeByThread, activeByTurn, startingByThread>>

LEMMA SamePending ==
  ASSUME UNCHANGED pendingByLocalId, \A s \in pendingByLocalId : interactions'[s] = interactions[s]
  PROVE  \A r : PendingOf(r, pendingByLocalId)' = PendingOf(r, pendingByLocalId)
  BY DEF PendingOf

(* A step that moves no Run. *)
LEMMA NoneWhole ==
  ASSUME Whole, UNCHANGED <<runs, threadVars, pendingByLocalId, interactions>>,
         forks' \in [Threads -> {"none", "read", "fork"}], OneHolds(activeByThread, startingByThread, forks')
  PROVE  RunsWhole'
  <1>1. AccountInv'
    BY SamePending DEF Whole, AccountInv
  <1> QED BY <1>1 DEF Whole, RunsWhole, TidyInv, ThreadInv, ThreadTypes, threadVars, OneHolds

LEMMA StillWhole ==
  ASSUME Whole, UNCHANGED <<runs, threadVars, forks, pendingByLocalId, interactions>>
  PROVE  RunsWhole'
  BY NoneWhole DEF Whole, ThreadInv, ThreadTypes

(* A step that gives one Run an event or changes what it waits for. *)
LEMMA OneWhole ==
  ASSUME Inv, Whole, NEW r \in Runs, NEW new, Beside(runs[r], new), runs' = [runs EXCEPT ![r] = new],
         \A q \in Runs \ {r} : PendingOf(q, pendingByLocalId)' = PendingOf(q, pendingByLocalId),
         Accounts(new, PendingOf(r, pendingByLocalId)'), UNCHANGED <<threadVars, forks>>
  PROVE  RunsWhole'
  <1>1. \A q \in Runs : runs'[q] = IF q = r THEN new ELSE runs[q]
    BY DEF Inv, RunsInv
  <1>2. TidyInv' /\ AccountInv'
    BY <1>1 DEF Whole, TidyInv, AccountInv, Beside
  <1>3. Registered(runs', activeByThread, activeByTurn, startingByThread)
    BY RegisteredBeside DEF Inv, RunsInv, Whole, ThreadInv, ThreadTypes
  <1> QED BY <1>2, <1>3 DEF Whole, RunsWhole, ThreadInv, ThreadTypes, OneHolds, threadVars

(* A state or result of cancel() that is true of a Run. *)
CancelFits(run, c) ==
  /\ c \in {"none", "native", "connection_aborted", "already_terminal", "error"} \cup CancelWaits
  /\ c = "native" => run.phase = "cancelled"
  /\ c = "connection_aborted" => run.phase = "connection_aborted"
  /\ c = "already_terminal" => run.phase \in Terminals

LEMMA TidyRun == ASSUME Inv, Whole, NEW r \in Runs
                 PROVE  /\ runs[r] \in Shape /\ Tidy(runs[r])
                        /\ Accounts(runs[r], PendingOf(r, pendingByLocalId))
  BY DEF Inv, RunsInv, Whole, TidyInv, AccountInv

(* cancel() and its continuations change what cancelOnce waits for. *)
LEMMA CancelTidy ==
  ASSUME Inv, Whole, NEW r \in Runs, NEW late \in BOOLEAN, NEW c, CancelFits(runs[r], c)
  PROVE  LET new == [runs[r] EXCEPT !.timedOut = late, !.cancel = c] IN
           Beside(runs[r], new) /\ Accounts(new, PendingOf(r, pendingByLocalId))
  <1> DEFINE new == [runs[r] EXCEPT !.timedOut = late, !.cancel = c]
  <1>1. PICK run \in Shape : run = runs[r] /\ Tidy(run) /\ Accounts(run, PendingOf(r, pendingByLocalId))
    BY TidyRun
  <1>2. /\ new \in Shape /\ new.queued = run.queued /\ new.waiting = run.waiting /\ new.phase = run.phase
        /\ new.thread = run.thread /\ new.cancel = c /\ new.overflow = run.overflow
        /\ new.requested = run.requested /\ new.resolved = run.resolved
    BY <1>1 DEF Shape, CancelFits
  <1> HIDE DEF new
  <1>3. Tidy(new)
    BY <1>1, <1>2 DEF Tidy, QueueFits, CancelTrue, Unheard, CancelFits
  <1>4. Beside(runs[r], new) /\ Accounts(new, PendingOf(r, pendingByLocalId))
    BY <1>1, <1>2, <1>3 DEF Beside, Accounts
  <1> QED BY <1>4 DEF new

LEMMA CancelWhole ==
  ASSUME Inv, Whole, NEW r \in Runs, OnlyRuns, NEW late \in BOOLEAN, NEW c, CancelFits(runs[r], c),
         runs' = [runs EXCEPT ![r] = [@ EXCEPT !.timedOut = late, !.cancel = c]]
  PROVE  RunsWhole'
  <1>1. PICK new : new = [runs[r] EXCEPT !.timedOut = late, !.cancel = c]
    OBVIOUS
  <1>2. runs' = [runs EXCEPT ![r] = new]
    BY <1>1 DEF Inv, RunsInv
  <1>3. Beside(runs[r], new)
    BY <1>1, CancelTidy
  <1>4. Accounts(new, PendingOf(r, pendingByLocalId))
    BY <1>1, CancelTidy
  <1>5. UNCHANGED <<threadVars, forks, pendingByLocalId, interactions>>
    BY DEF OnlyRuns, threadVars, interVars
  <1> QED BY <1>2, <1>3, <1>4, <1>5, SamePending, OneWhole

LEMMA CancelStepsWhole ==
  ASSUME Inv, Whole, NEW r \in Runs,
         Cancel(r) \/ CancelResumes(r) \/ InterruptAcknowledged(r) \/ CancelSettles(r)
  PROVE  RunsWhole'
  <1>1. runs[r].timedOut \in BOOLEAN
    BY TidyRun DEF Shape
  <1>2. PICK c : runs' = [runs EXCEPT ![r].cancel = c] /\ CancelFits(runs[r], c)
    BY DEF Cancel, CancelResumes, InterruptAcknowledged, CancelSettles, CancelResult, CancelWaits, Terminal, CancelFits
  <1>3. OnlyRuns
    BY DEF Cancel, CancelResumes, InterruptAcknowledged, CancelSettles
  <1>4. runs' = [runs EXCEPT ![r] = [@ EXCEPT !.timedOut = runs[r].timedOut, !.cancel = c]]
    BY <1>2, CancelOnly
  <1> QED BY <1>1, <1>2, <1>3, <1>4, CancelWhole

LEMMA RunTimeoutWhole ==
  ASSUME Inv, Whole, NEW r \in Runs, RunTimeout(r)
  PROVE  IF runs[r].cancel = "error" THEN Whole' ELSE RunsWhole' /\ OnlyRuns /\ (\A q \in Runs : Active(q)' <=> Active(q))
  <1>0. PICK c : c = IF runs[r].cancel = "none" THEN "waitStart" ELSE runs[r].cancel
    OBVIOUS
  <1>1. CancelFits(runs[r], c)
    BY <1>0, TidyRun DEF Shape, CancelWaits, Tidy, CancelTrue, CancelFits
  <1>2. PICK new : new = [runs[r] EXCEPT !.timedOut = TRUE, !.cancel = c]
    OBVIOUS
  <1>3. /\ [runs EXCEPT ![r].timedOut = TRUE, ![r].cancel = IF @ = "none" THEN "waitStart" ELSE @]
             = [runs EXCEPT ![r] = new]
        /\ [runs EXCEPT ![r] = new] = [runs EXCEPT ![r] = [@ EXCEPT !.timedOut = TRUE, !.cancel = c]]
    BY <1>0, <1>2, TidyRun DEF Shape, Inv, RunsInv
  <1>4. Beside(runs[r], new)
    BY <1>1, <1>2, CancelTidy
  <1>5. Accounts(new, PendingOf(r, pendingByLocalId))
    BY <1>1, <1>2, CancelTidy
  <1>6. CASE runs[r].cancel = "error"
    BY <1>3, <1>6, <1>4, <1>5, AbortOne DEF RunTimeout, CancelVars
  <1>7. CASE runs[r].cancel # "error"
    BY <1>3, <1>7, <1>1, CancelWhole, <1>4 DEF RunTimeout, Active, Beside, Inv, RunsInv
  <1> QED BY <1>6, <1>7

LEMMA InterruptFailsWhole ==
  ASSUME Inv, Whole, NEW r \in Runs, InterruptFails(r)
  PROVE  Whole' \/ (RunsWhole' /\ OnlyRuns /\ \A q \in Runs : Active(q)' <=> Active(q))
  <1>0. PICK c : c = IF runs[r].phase = "connection_aborted" THEN "connection_aborted" ELSE "error"
    OBVIOUS
  <1>1. /\ \/ AbortConnection([runs EXCEPT ![r].cancel = c], pendingByLocalId) /\ UNCHANGED CancelVars
           \/ runs' = [runs EXCEPT ![r].cancel = c] /\ OnlyRuns
        /\ CancelFits(runs[r], c)
    BY <1>0 DEF CancelFits, InterruptFails
  <1>2. PICK new : new = [runs[r] EXCEPT !.timedOut = runs[r].timedOut, !.cancel = c]
    OBVIOUS
  <1>3. runs[r].timedOut \in BOOLEAN
    BY TidyRun DEF Shape
  <1>4. Beside(runs[r], new)
    BY <1>1, <1>2, <1>3, CancelTidy
  <1>5. Accounts(new, PendingOf(r, pendingByLocalId))
    BY <1>1, <1>2, <1>3, CancelTidy
  <1>6. /\ [runs EXCEPT ![r].cancel = c] = [runs EXCEPT ![r] = new]
        /\ [runs EXCEPT ![r].cancel = c]
             = [runs EXCEPT ![r] = [@ EXCEPT !.timedOut = runs[r].timedOut, !.cancel = c]]
    BY <1>2, TidyRun DEF Shape, Inv, RunsInv
  <1>7. CASE AbortConnection([runs EXCEPT ![r].cancel = c], pendingByLocalId) /\ UNCHANGED CancelVars
    BY <1>4, <1>5, <1>6, <1>7, AbortOne DEF CancelVars
  <1>8. CASE runs' = [runs EXCEPT ![r].cancel = c] /\ OnlyRuns
    BY <1>1, <1>3, <1>6, <1>8, CancelWhole, <1>4 DEF Active, Beside, Inv, RunsInv
  <1> QED BY <1>1, <1>7, <1>8

LEMMA ReadWhole ==
  ASSUME Inv, Whole, NEW r \in Runs, ReadEvent(r)
  PROVE  RunsWhole' /\ OnlyRuns /\ \A q \in Runs : Active(q)' <=> Active(q)
  <1>1. PICK n \in Nat, w \in BOOLEAN :
          /\ runs' = [runs EXCEPT ![r] = [@ EXCEPT !.queued = n, !.waiting = w]]
          /\ n <= runs[r].queued /\ (w => runs[r].phase = "active" /\ n = 0)
    <2>1. CASE runs[r].queued > 0 /\ runs' = [runs EXCEPT ![r].queued = @ - 1]
      <3>1. runs[r].queued - 1 \in Nat /\ runs[r].waiting = FALSE
        BY <2>1, TidyRun DEF Tidy, QueueFits, ReadEvent, Shape
      <3>2. runs' = [runs EXCEPT ![r] = [@ EXCEPT !.queued = runs[r].queued - 1, !.waiting = FALSE]]
        BY <2>1, <3>1, TidyRun DEF Shape, Inv, RunsInv
      <3>3. runs[r].queued - 1 <= runs[r].queued
        BY <2>1, TidyRun DEF Tidy, QueueFits
      <3> QED BY <3>1, <3>2, <3>3
    <2>2. CASE runs[r].queued = 0 /\ Active(r) /\ runs' = [runs EXCEPT ![r].waiting = TRUE]
      <3>1. runs' = [runs EXCEPT ![r].waiting = TRUE]
        BY <2>2
      <3>2. runs' = [runs EXCEPT ![r] = [@ EXCEPT !.queued = runs[r].queued, !.waiting = TRUE]]
        BY <3>1, RunShape DEF Shape, Inv, RunsInv
      <3>3. runs[r].queued = 0 /\ 0 \in Nat /\ TRUE \in BOOLEAN /\ runs[r].phase = "active"
        BY <2>2 DEF Active
      <3>4. runs[r].queued \in Nat /\ runs[r].queued <= runs[r].queued
        BY <3>3
      <3> QED BY <3>2, <3>3, <3>4
    <2> QED BY <2>1, <2>2 DEF ReadEvent
  <1> DEFINE new == [runs[r] EXCEPT !.queued = n, !.waiting = w]
  <1>2. /\ new \in Shape /\ new.queued = n /\ new.waiting = w /\ new.phase = runs[r].phase
        /\ new.thread = runs[r].thread /\ new.cancel = runs[r].cancel /\ new.overflow = runs[r].overflow
        /\ new.requested = runs[r].requested /\ new.resolved = runs[r].resolved
    <2>1. runs[r] \in Shape /\ n \in Int
      BY TidyRun
    <2> QED BY <2>1 DEF Shape
  <1>3. runs' = [runs EXCEPT ![r] = new]
    BY <1>1 DEF Inv, RunsInv
  <1> HIDE DEF new
  <1>4. Tidy(new)
    BY <1>1, <1>2, TidyRun, CapacityAssumption DEF CapacityAssumption, Tidy, QueueFits, CancelTrue, Unheard
  <1>5. Beside(runs[r], new) /\ Accounts(new, PendingOf(r, pendingByLocalId))
    BY <1>2, <1>4, TidyRun DEF Beside, Accounts
  <1>6. OnlyRuns /\ UNCHANGED <<threadVars, forks, pendingByLocalId, interactions>>
    BY DEF ReadEvent, OnlyRuns, threadVars, interVars
  <1>7. RunsWhole'
    BY <1>3, <1>5, <1>6, SamePending, OneWhole
  <1>8. \A q \in Runs : Active(q)' <=> Active(q)
    BY <1>3, <1>5 DEF Active, Beside, Inv, RunsInv
  <1> QED BY <1>6, <1>7, <1>8

LEMMA ForkWhole ==
  ASSUME Inv, Whole, NEW t \in Threads, Fork(t) \/ ForkRequested(t) \/ ForkEnds(t)
  PROVE  RunsWhole'
  <1>1. UNCHANGED <<runs, threadVars, pendingByLocalId, interactions>>
    BY DEF Fork, ForkRequested, ForkEnds, runVars, interVars, threadVars
  <1>2. ThreadTypes /\ OneHolds(activeByThread, startingByThread, forks)
    BY DEF Whole, ThreadInv
  <1>3. PICK step \in {"none", "read", "fork"} :
          /\ forks' = [forks EXCEPT ![t] = step]
          /\ step = "none" \/ forks[t] # "none" \/ ~HasActiveRun(t)
    BY DEF Fork, ForkRequested, ForkEnds
  <1>4. forks' \in [Threads -> {"none", "read", "fork"}]
    BY <1>2, <1>3 DEF ThreadTypes
  <1>5. OneHolds(activeByThread, startingByThread, forks')
    BY <1>2, <1>3 DEF OneHolds, ThreadTypes, HasActiveRun
  <1> QED BY <1>1, <1>4, <1>5, NoneWhole

(* A startRun call that has not returned a Run. *)
Called(new) ==
  new \in Shape /\ Tidy(new) /\ new.phase \in {"starting", "responded", "rejected", "refused"}

CalledAs(new, p, t) == Called(new) /\ new.phase = p /\ new.thread = t

LEMMA CallTidy ==
  ASSUME Inv, Whole, NEW r \in Runs, runs[r].phase \notin {"active"} \cup Terminals,
         NEW p \in {"starting", "responded", "rejected", "refused"}, NEW t \in Threads \cup {NoThread},
         NEW new, new = [runs[r] EXCEPT !.phase = p, !.thread = t]
  PROVE  CalledAs(new, p, t)
  <1>1. PICK run \in Shape : run = runs[r] /\ Tidy(run)
    BY TidyRun
  <1>2. /\ new \in Shape /\ new.queued = run.queued /\ new.waiting = run.waiting /\ new.phase = p
        /\ new.thread = t /\ new.cancel = run.cancel /\ new.overflow = run.overflow
        /\ new.requested = run.requested /\ new.resolved = run.resolved
    BY <1>1 DEF Shape, Phases
  <1>3. p \notin {"active"} \cup Terminals
    BY DEF Terminals
  <1>4. run.cancel \notin {"native", "connection_aborted", "already_terminal"}
    BY <1>1 DEF Tidy, CancelTrue, Terminals
  <1>5. Tidy(new)
    BY <1>1, <1>2, <1>3, <1>4 DEF Tidy, QueueFits, CancelTrue, Unheard
  <1> QED BY <1>2, <1>5 DEF Called, CalledAs

(* Threads are held as Runs say when a startRun call changes its own state. *)
Replaced(now, r, new) == \A q \in Runs : now[q] = IF q = r THEN new ELSE runs[q]

LEMMA CallRegistered ==
  ASSUME Inv, ThreadTypes, NEW st, st \in [Threads -> Runs \cup {NoRun}],
         Registered(runs, activeByThread, activeByTurn, startingByThread),
         NEW r \in Runs, runs[r].phase \notin {"active"} \cup Terminals,
         NEW new, Called(new), NEW now, Replaced(now, r, new),
         \A q \in Runs \ {r} : Waits(runs[q]) => st[runs[q].thread] = q,
         new.phase # "refused" => new.thread \in Threads /\ st[new.thread] = r,
         \A u \in Threads : st[u] = r => u = new.thread /\ new.phase # "refused",
         \A u \in Threads : st[u] \in {NoRun, r, startingByThread[u]}
  PROVE  Registered(now, activeByThread, activeByTurn, st) /\ \A q \in Runs : now[q].phase = "active" <=> Active(q)
  <1>1. PICK p, t : p = new.phase /\ t = new.thread
    OBVIOUS
  <1>2. /\ new.phase = p /\ new.thread = t /\ p \in {"starting", "responded", "rejected", "refused"}
        /\ p # "refused" => t \in Threads /\ st[t] = r
        /\ \A u \in Threads : st[u] = r => u = t /\ p # "refused"
    BY <1>1 DEF Called
  <1>3. \A q \in Runs : now[q] = IF q = r THEN new ELSE runs[q]
    BY DEF Replaced
  <1>4. p # "active" /\ (p # "refused" <=> p \in {"starting", "responded", "rejected"})
    BY <1>2
  <1>5. \A q \in Runs : now[q].phase = "active" <=> q \in activeByTurn
    BY <1>2, <1>3, <1>4 DEF Registered
  <1>6. r \notin activeByTurn
    BY DEF Registered
  <1>7. \A q \in activeByTurn : now[q].thread \in Threads /\ activeByThread[now[q].thread] = q
    BY <1>3, <1>6 DEF Registered, ThreadTypes
  <1>8. \A q \in Runs : Waits(now[q]) => now[q].thread \in Threads /\ st[now[q].thread] = q
    BY <1>2, <1>3, <1>4 DEF Registered, Waits
  <1>9. \A u \in Threads : activeByThread[u] # NoRun =>
                             activeByThread[u] \in activeByTurn /\ now[activeByThread[u]].thread = u
    BY <1>3, <1>6 DEF Registered, ThreadTypes
  <1>10. \A u \in Threads : st[u] # NoRun => Waits(now[st[u]]) /\ now[st[u]].thread = u
    BY <1>2, <1>3, <1>4 DEF Registered, Waits, ThreadTypes
  <1>11. \A q \in Runs : now[q].phase = "active" <=> Active(q)
    BY <1>5 DEF Registered, Active
  <1> QED BY <1>5, <1>7, <1>8, <1>9, <1>10, <1>11 DEF Registered

(* startRun until it returns a Run or fails. *)
LEMMA CallWhole ==
  ASSUME Inv, Whole, NEW r \in Runs, runs[r].phase \notin {"active"} \cup Terminals,
         NEW new, Called(new), runs' = [runs EXCEPT ![r] = new],
         UNCHANGED <<activeByThread, activeByTurn, pendingByLocalId, interactions>>,
         startingByThread' \in [Threads -> Runs \cup {NoRun}],
         OneHolds(activeByThread, startingByThread', forks), UNCHANGED forks,
         \A q \in Runs \ {r} : Waits(runs[q]) => startingByThread'[runs[q].thread] = q,
         new.phase # "refused" => new.thread \in Threads /\ startingByThread'[new.thread] = r,
         \A u \in Threads : startingByThread'[u] = r => u = new.thread /\ new.phase # "refused",
         \A u \in Threads : startingByThread'[u] \in {NoRun, r, startingByThread[u]}
  PROVE  RunsWhole' /\ \A q \in Runs : Active(q)' <=> Active(q)
  <1>1. \A q \in Runs : runs'[q] = IF q = r THEN new ELSE runs[q]
    BY DEF Inv, RunsInv
  <1>2. TidyInv'
    BY <1>1 DEF Whole, TidyInv, Called
  <1>3. AccountInv'
    BY <1>1, SamePending DEF Called, Accounts, Terminals, Whole, AccountInv
  <1>4. Registered(runs, activeByThread, activeByTurn, startingByThread) /\ ThreadTypes
    BY DEF Whole, ThreadInv
  <1>5. PICK st : st = startingByThread'
    OBVIOUS
  <1>6. PICK now : now = runs'
    OBVIOUS
  <1>7. /\ Replaced(now, r, new) /\ st \in [Threads -> Runs \cup {NoRun}]
        /\ \A q \in Runs \ {r} : Waits(runs[q]) => st[runs[q].thread] = q
        /\ new.phase # "refused" => new.thread \in Threads /\ st[new.thread] = r
        /\ \A u \in Threads : st[u] = r => u = new.thread /\ new.phase # "refused"
        /\ \A u \in Threads : st[u] \in {NoRun, r, startingByThread[u]}
    BY <1>1, <1>5, <1>6 DEF Replaced
  <1>8. /\ Registered(now, activeByThread, activeByTurn, st)
        /\ \A q \in Runs : now[q].phase = "active" <=> Active(q)
    BY <1>4, <1>7, CallRegistered
  <1>9. ThreadInv'
    BY <1>4, <1>5, <1>8, <1>6 DEF ThreadInv, ThreadTypes
  <1> QED BY <1>2, <1>3, <1>8, <1>9, <1>6 DEF RunsWhole, Active

LEMMA StoppedStarting ==
  ASSUME Whole, NEW r \in Runs, StopStarting(r)
  PROVE  /\ startingByThread' \in [Threads -> Runs \cup {NoRun}]
         /\ OneHolds(activeByThread, startingByThread', forks)
         /\ \A q \in Runs \ {r} : Waits(runs[q]) => startingByThread'[runs[q].thread] = q
         /\ \A u \in Threads : startingByThread'[u] # r /\ startingByThread'[u] \in {NoRun, startingByThread[u]}
  <1>1. /\ Registered(runs, activeByThread, activeByTurn, startingByThread) /\ ThreadTypes
        /\ OneHolds(activeByThread, startingByThread, forks)
    BY DEF Whole, ThreadInv
  <1>2. /\ startingByThread' \in [Threads -> Runs \cup {NoRun}]
        /\ OneHolds(activeByThread, startingByThread', forks)
    BY <1>1 DEF StopStarting, OneHolds, ThreadTypes
  <1>3. \A q \in Runs \ {r} : Waits(runs[q]) => startingByThread'[runs[q].thread] = q
    BY <1>1 DEF StopStarting, Registered
  <1>4. \A u \in Threads : startingByThread'[u] # r /\ startingByThread'[u] \in {NoRun, startingByThread[u]}
    BY NullAssumption DEF StopStarting, NullAssumption
  <1> QED BY <1>2, <1>3, <1>4

LEMMA CallStepsWhole ==
  ASSUME Inv, Whole, NEW r \in Runs, (\E t \in Threads : StartRun(r, t)) \/ TurnStartSettles(r) \/ StartFails(r)
  PROVE  RunsWhole' /\ \A q \in Runs : Active(q)' <=> Active(q)
  <1>1. /\ Registered(runs, activeByThread, activeByTurn, startingByThread) /\ ThreadTypes
        /\ OneHolds(activeByThread, startingByThread, forks)
    BY DEF Whole, ThreadInv
  <1>2. UNCHANGED <<activeByThread, activeByTurn, pendingByLocalId, interactions, forks>>
    BY DEF StartRun, TurnStartSettles, StartFails, interVars
  <1>3. runs[r].phase \notin {"active"} \cup Terminals /\ runs[r].thread \in Threads \cup {NoThread}
    BY RunShape DEF StartRun, TurnStartSettles, StartFails, Terminals, Shape
  <1>4. CASE \E t \in Threads : StartRun(r, t)
    <2>1. PICK t \in Threads : StartRun(r, t)
      BY <1>4
    <2>2. PICK p \in {"starting", "rejected"} : runs' = [runs EXCEPT ![r].phase = p, ![r].thread = t]
      BY <2>1 DEF StartRun
    <2>3. PICK new : new = [runs[r] EXCEPT !.phase = p, !.thread = t]
      OBVIOUS
    <2>4. runs' = [runs EXCEPT ![r] = new]
      BY <2>2, <2>3, RunShape DEF Shape, Inv, RunsInv
    <2>5. Called(new) /\ new.phase = p /\ new.thread = t
      <3>1. CalledAs(new, p, t)
        BY <1>3, <2>3, CallTidy
      <3> QED BY <3>1 DEF CalledAs
    <2>6. /\ startingByThread' = [startingByThread EXCEPT ![t] = r] /\ runs[r].phase = "idle"
          /\ activeByThread[t] = NoRun /\ startingByThread[t] = NoRun /\ forks[t] = "none"
      BY <2>1 DEF StartRun, HasActiveRun
    <2>7. startingByThread' \in [Threads -> Runs \cup {NoRun}] /\ startingByThread'[t] = r
      BY <1>1, <2>6 DEF ThreadTypes
    <2>8. OneHolds(activeByThread, startingByThread', forks)
      BY <1>1, <2>6 DEF OneHolds, ThreadTypes
    <2>9. \A q \in Runs \ {r} : Waits(runs[q]) => startingByThread'[runs[q].thread] = q
      BY <1>1, <2>6, NullAssumption DEF Registered, ThreadTypes, NullAssumption
    <2>10. \A u \in Threads : startingByThread[u] # r
      BY <1>1, <2>6, NullAssumption DEF Registered, Waits, NullAssumption
    <2>11. /\ \A u \in Threads : startingByThread'[u] = r => u = t /\ p # "refused"
           /\ \A u \in Threads : startingByThread'[u] \in {NoRun, r, startingByThread[u]}
      BY <1>1, <2>6, <2>10 DEF ThreadTypes
    <2>12. p # "refused" => t \in Threads /\ startingByThread'[t] = r
      BY <2>6, <2>7
    <2> QED BY <1>2, <1>3, <2>4, <2>5, <2>7, <2>8, <2>9, <2>11, <2>12, CallWhole
  <1>5. CASE TurnStartSettles(r)
    <2>1. PICK p \in {"responded", "rejected"} : runs' = [runs EXCEPT ![r].phase = p]
      BY <1>5 DEF TurnStartSettles
    <2>2. PICK t \in Threads \cup {NoThread} : t = runs[r].thread
      BY <1>3
    <2>3. PICK new : new = [runs[r] EXCEPT !.phase = p, !.thread = t]
      OBVIOUS
    <2>4. runs' = [runs EXCEPT ![r] = new]
      BY <2>1, <2>2, <2>3, RunShape DEF Shape, Inv, RunsInv
    <2>5. Called(new) /\ new.phase = p /\ new.thread = t
      <3>1. CalledAs(new, p, t)
        BY <1>3, <2>3, CallTidy
      <3> QED BY <3>1 DEF CalledAs
    <2>6. startingByThread' = startingByThread /\ Waits(runs[r])
      BY <1>5 DEF TurnStartSettles, Waits
    <2>7. t \in Threads /\ startingByThread[t] = r
      BY <1>1, <2>2, <2>6 DEF Registered
    <2>8. startingByThread' \in [Threads -> Runs \cup {NoRun}] /\ OneHolds(activeByThread, startingByThread', forks)
      BY <1>1, <2>6 DEF ThreadTypes
    <2>9. \A q \in Runs \ {r} : Waits(runs[q]) => startingByThread'[runs[q].thread] = q
      BY <1>1, <2>6 DEF Registered
    <2>10. /\ \A u \in Threads : startingByThread'[u] = r => u = t /\ p # "refused"
          /\ \A u \in Threads : startingByThread'[u] \in {NoRun, r, startingByThread[u]}
      BY <1>1, <2>2, NullAssumption, <2>6 DEF Registered, NullAssumption
    <2>11. p # "refused" => t \in Threads /\ startingByThread'[t] = r
      BY <2>6, <2>7
    <2> QED BY <1>2, <1>3, <2>4, <2>5, <2>8, <2>9, <2>10, <2>11, CallWhole
  <1>6. CASE StartFails(r)
    <2>1. runs' = [runs EXCEPT ![r].phase = "refused"]
      BY <1>6 DEF StartFails
    <2>2. PICK t \in Threads \cup {NoThread} : t = runs[r].thread
      BY <1>3
    <2>3. PICK new : new = [runs[r] EXCEPT !.phase = "refused", !.thread = t]
      OBVIOUS
    <2>4. runs' = [runs EXCEPT ![r] = new]
      BY <2>1, <2>2, <2>3, RunShape DEF Shape, Inv, RunsInv
    <2>5. Called(new) /\ new.phase = "refused" /\ new.thread = t
      <3>1. CalledAs(new, "refused", t)
        BY <1>3, <2>3, CallTidy
      <3> QED BY <3>1 DEF CalledAs
    <2>6. StopStarting(r)
      BY <1>6 DEF StartFails
    <2>7. /\ startingByThread' \in [Threads -> Runs \cup {NoRun}]
          /\ OneHolds(activeByThread, startingByThread', forks)
          /\ \A q \in Runs \ {r} : Waits(runs[q]) => startingByThread'[runs[q].thread] = q
          /\ \A u \in Threads : startingByThread'[u] # r /\ startingByThread'[u] \in {NoRun, startingByThread[u]}
      BY <2>6, StoppedStarting
    <2> QED BY <1>2, <1>3, <2>4, <2>5, <2>7, CallWhole
  <1> QED BY <1>4, <1>5, <1>6

(* startRun resumes with a Turn id of an earlier Turn: the call fails and the connection ends. *)
LEMMA ReusedTurnWhole ==
  ASSUME Inv, Whole, NEW r \in Runs, ReusedTurn(r)
  PROVE  Whole'
  <1>1. PICK t \in Threads \cup {NoThread} : t = runs[r].thread
    BY RunShape DEF Shape
  <1>2. PICK new : new = [runs[r] EXCEPT !.phase = "refused", !.thread = t]
    OBVIOUS
  <1>3. PICK now : now = [runs EXCEPT ![r] = new]
    OBVIOUS
  <1>4. [runs EXCEPT ![r].phase = "refused"] = now
    BY <1>1, <1>2, <1>3, RunShape DEF Shape, Inv, RunsInv
  <1>5. /\ AbortConnection(now, pendingByLocalId) /\ StopStarting(r) /\ UNCHANGED <<forks, interactions>>
        /\ runs[r].phase \notin {"active"} \cup Terminals
    BY <1>4 DEF ReusedTurn, Terminals
  <1>6. CalledAs(new, "refused", t)
    BY <1>2, <1>5, CallTidy
  <1>7. Called(new) /\ new.phase = "refused" /\ new.phase \notin {"active"} \cup Terminals
    BY <1>6 DEF CalledAs, Terminals
  <1>8. runs \in [Runs -> Shape] /\ \A q \in Runs : now[q] = IF q = r THEN new ELSE runs[q]
    BY <1>3 DEF Inv, RunsInv
  <1>9. now \in [Runs -> Shape] /\ \A q \in Runs : Tidy(now[q])
    BY <1>3, <1>7, <1>8 DEF Called, Whole, TidyInv
  <1>10. \A q \in Runs : Accounts(now[q], PendingOf(q, pendingByLocalId))
    BY <1>7, <1>8 DEF Accounts, Whole, AccountInv
  <1>11. PICK st : st = startingByThread'
    OBVIOUS
  <1>12. /\ st \in [Threads -> Runs \cup {NoRun}] /\ OneHolds(activeByThread, st, forks)
         /\ \A q \in Runs \ {r} : Waits(runs[q]) => st[runs[q].thread] = q
         /\ \A u \in Threads : st[u] # r /\ st[u] \in {NoRun, startingByThread[u]}
    BY <1>5, <1>11, StoppedStarting
  <1>13. ThreadTypes /\ Registered(runs, activeByThread, activeByTurn, startingByThread)
    BY DEF Whole, ThreadInv
  <1>14. Registered(now, activeByThread, activeByTurn, st)
    BY <1>8, <1>5, <1>7, <1>12, <1>13, CallRegistered DEF Replaced
  <1>15. /\ startingByThread' \in [Threads -> Runs \cup {NoRun}]
         /\ Registered(now, activeByThread, activeByTurn, startingByThread')
         /\ forks' \in [Threads -> {"none", "read", "fork"}]
         /\ OneHolds(activeByThread, startingByThread', forks')
    BY <1>5, <1>11, <1>12, <1>13, <1>14 DEF ThreadTypes
  <1> QED BY <1>5, <1>9, <1>10, <1>15, AbortWhole

(* startRun returns its Run. *)
LEMMA RunStartsWhole ==
  ASSUME Inv, Whole, NEW r \in Runs, RunStarts(r)
  PROVE  RunsWhole' /\ \A q \in Runs : Active(q) => Active(q)'
  <1>1. /\ Registered(runs, activeByThread, activeByTurn, startingByThread) /\ ThreadTypes
        /\ OneHolds(activeByThread, startingByThread, forks)
    BY DEF Whole, ThreadInv
  <1>2. PICK t : t = runs[r].thread
    OBVIOUS
  <1>3. /\ runs[r].phase = "responded" /\ t \in Threads /\ startingByThread[t] = r /\ activeByThread[t] = NoRun
        /\ forks[t] = "none" /\ r \notin activeByTurn
    BY <1>1, <1>2, NullAssumption DEF RunStarts, Waits, Registered, NullAssumption, OneHolds
  <1>4. PICK mid : mid = [runs[r] EXCEPT !.phase = "active"]
    OBVIOUS
  <1>5. /\ mid \in Shape /\ mid.phase = "active" /\ mid.queued = 0 /\ ~mid.waiting /\ mid.overflow = FALSE
        /\ mid.requested = {} /\ mid.resolved = {} /\ mid.thread = t /\ mid.cancel = runs[r].cancel
    BY <1>3, TerminalsApart, RunShape, TidyRun, <1>2, <1>4 DEF Sound, Tidy, Unheard, Fresh, Shape, Phases
  <1>6. Tidy(mid)
    BY <1>3, <1>5, TidyRun, CapacityAssumption DEF Tidy, CancelTrue, Terminals, CapacityAssumption, QueueFits, Unheard
  <1>7. 1 <= Room(mid) /\ Room(mid) > 0
    BY <1>5, CapacityAssumption DEF Room, CapacityAssumption
  <1>8. PICK new : new = Enqueue(mid, 1)
    OBVIOUS
  <1>9. /\ Beside(mid, new) /\ new.overflow = FALSE /\ new.requested = {} /\ new.resolved = {}
    BY <1>5, <1>6, <1>7, <1>8, EnqueueTidy
  <1>10. runs' = [runs EXCEPT ![r] = new]
    BY <1>4, <1>5, <1>7, <1>8 DEF RunStarts, Inv, RunsInv, Emit
  <1>11. \A q \in Runs : runs'[q] = IF q = r THEN new ELSE runs[q]
    BY <1>10 DEF Inv, RunsInv
  <1>12. TidyInv'
    BY <1>9, <1>11 DEF Whole, TidyInv, Beside
  <1>13. UNCHANGED <<pendingByLocalId, interactions, forks>>
    BY DEF RunStarts, interVars
  <1>14. AccountInv'
    <2>1. PendingOf(r, pendingByLocalId) = {}
      <3>1. ~Begun(r)
        BY <1>3, TerminalsApart DEF Begun
      <3>2. \A s \in pendingByLocalId : Begun(interactions[s].run)
        BY DEF Inv, TablesInv
      <3>3. \A s \in pendingByLocalId : interactions[s].run # r
        BY <3>1, <3>2
      <3> QED BY <3>3 DEF PendingOf
    <2>2. Accounts(new, PendingOf(r, pendingByLocalId))
      BY <1>5, <1>9, <2>1, TerminalsApart DEF Accounts, Beside
    <2> QED BY <1>11, <1>13, <2>2, SamePending DEF Whole, AccountInv
  <1>15. /\ activeByThread' = [activeByThread EXCEPT ![t] = r] /\ activeByTurn' = activeByTurn \cup {r}
         /\ StopStarting(r)
    BY <1>2 DEF RunStarts
  <1>16. /\ startingByThread' \in [Threads -> Runs \cup {NoRun}]
         /\ \A q \in Runs \ {r} : Waits(runs[q]) => startingByThread'[runs[q].thread] = q
         /\ \A u \in Threads : startingByThread'[u] # r /\ startingByThread'[u] \in {NoRun, startingByThread[u]}
    BY <1>15, StoppedStarting
  <1>17. new.phase = "active" /\ new.thread = t /\ ~Waits(new)
    BY <1>5, <1>9 DEF Beside, Waits
  <1>18. Registered(runs', activeByThread', activeByTurn', startingByThread')
    BY <1>1, <1>11, <1>15, <1>17, <1>3, NullAssumption, <1>16 DEF Registered, ThreadTypes, NullAssumption
  <1>19. OneHolds(activeByThread', startingByThread', forks')
    BY <1>3, <1>16, <1>1, <1>15, <1>13 DEF ThreadTypes, OneHolds
  <1>20. ThreadInv'
    BY <1>1, <1>13, <1>15, <1>16, <1>18, <1>19 DEF ThreadInv, ThreadTypes
  <1>21. \A q \in Runs : Active(q) => Active(q)'
    BY <1>11, <1>17 DEF Active
  <1> QED BY <1>12, <1>14, <1>20, <1>21 DEF RunsWhole

(* A request that waits for the transport is rejected when it fails. *)
LEMMA TransportFailsWhole ==
  ASSUME Inv, Whole, TransportFails
  PROVE  Whole'
  <1>1. /\ UNCHANGED <<closed, activeByThread, activeByTurn, startingByThread, forks, interactions,
                       pendingByLocalId, pendingByWireKey, answering, pump>>
        /\ EndTransport("failed") /\ transport = "open"
    BY DEF TransportFails, interVars
  <1>2. ASSUME NEW r \in Runs
        PROVE  /\ Tidy(runs'[r]) /\ Accounts(runs'[r], PendingOf(r, pendingByLocalId))
               /\ runs'[r].phase = "active" <=> runs[r].phase = "active"
               /\ runs'[r].thread = runs[r].thread
               /\ Waits(runs'[r]) <=> Waits(runs[r])
    <2>1. PICK run, new : run = runs[r] /\ new = RejectStarting(run)
      OBVIOUS
    <2>2. run \in Shape /\ Tidy(run) /\ Accounts(run, PendingOf(r, pendingByLocalId))
      BY <2>1, TidyRun
    <2>3. /\ new \in Shape /\ Tidy(new) /\ new.thread = run.thread
          /\ IF run.phase = "starting" THEN new.phase = "rejected" ELSE new = run
      BY <2>1, <2>2, RejectStartingTidy
    <2>4. runs'[r] = new
      BY <2>1 DEF TransportFails
    <2> QED BY <2>1, <2>2, <2>3, <2>4 DEF Accounts, Waits, Terminals
  <1>3. TidyInv' /\ AccountInv'
    BY <1>1, <1>2, SamePending DEF TidyInv, AccountInv
  <1>4. ThreadInv'
    BY <1>2, <1>1 DEF Whole, ThreadInv, ThreadTypes, Registered, OneHolds
  <1>5. WireTypes' /\ inbound' = <<>> /\ transport' = "failed"
    BY <1>1 DEF Whole, WireTypes, EndTransport
  <1>6. RouteInv'
    BY PendingRuns, <1>1, <1>2 DEF Inv, TablesInv, Whole, RouteInv, Active, PumpInv
  <1>7. CarriedInv' /\ HeldInv'
    BY <1>1, <1>5 DEF Queued, InHand, Refusing, Whole, CarriedInv, HeldInv
  <1> QED BY <1>3, <1>4, <1>5, <1>6, <1>7 DEF Whole

-------------------------------------------------------------------------------
(* The wire. *)

WireWhole == WireTypes /\ RouteInv /\ CarriedInv /\ HeldInv

(* Steps that move Runs, none of them to its end, and no message. *)
LEMMA WireStill ==
  ASSUME Inv, Whole, UNCHANGED <<closed, interVars, pump, transport, inbound, wireVars>>,
         \A q \in Runs : Active(q) => Active(q)'
  PROVE  WireWhole'
  <1>1. /\ UNCHANGED <<closed, interactions, pendingByLocalId, pendingByWireKey, answering, pump, transport,
                       inbound, wirePending, wireResponding, wireAbandoning>>
    BY DEF interVars, wireVars
  <1>2. \A w : /\ Queued(w)' <=> Queued(w)
               /\ InHand(w)' <=> InHand(w)
               /\ Refusing(w)' <=> Refusing(w)
               /\ Answering(w)' <=> Answering(w)
    BY <1>1 DEF Queued, InHand, Refusing, Answering
  <1>3. WireTypes' /\ CarriedInv' /\ HeldInv'
    BY <1>1, <1>2 DEF Whole, WireTypes, CarriedInv, HeldInv
  <1>4. \A s \in pendingByLocalId : interactions[s].run \in Runs
    BY PendingRuns DEF Inv, TablesInv
  <1>5. RouteInv'
    BY <1>1, <1>4 DEF Whole, RouteInv, Inv, PumpInv
  <1> QED BY <1>3, <1>5 DEF WireWhole

(* The pump is through with what was not a request. *)
LEMMA PumpLeaves ==
  ASSUME Inv, Whole, UNCHANGED <<closed, interactions, pendingByLocalId, pendingByWireKey, answering, transport,
                                 inbound, wireVars>>,
         \A q \in Runs : Active(q) => Active(q)',
         pump'.state \in {"next", "stopped"}, \A w : ~InHand(w) /\ ~Refusing(w)
  PROVE  WireWhole'
  <1>1. /\ UNCHANGED <<closed, interactions, pendingByLocalId, pendingByWireKey, answering, transport,
                       inbound, wirePending, wireResponding, wireAbandoning>>
    BY DEF wireVars
  <1>2. \A w : /\ Queued(w)' <=> Queued(w)
               /\ InHand(w)' <=> InHand(w)
               /\ Refusing(w)' <=> Refusing(w)
               /\ Answering(w)' <=> Answering(w)
    BY <1>1 DEF Queued, InHand, Refusing, Answering
  <1>3. WireTypes' /\ CarriedInv' /\ HeldInv'
    BY <1>1, <1>2 DEF Whole, WireTypes, CarriedInv, HeldInv
  <1>4. \A s \in pendingByLocalId : interactions[s].run \in Runs
    BY PendingRuns DEF Inv, TablesInv
  <1>5. RouteInv'
    BY <1>1, <1>4 DEF Whole, RouteInv, Inv, PumpInv
  <1> QED BY <1>3, <1>5 DEF WireWhole

(* A request takes a wire id that nothing holds. *)
LEMMA SendWire ==
  ASSUME Inv, Whole, NEW m \in Messages, ProviderSends(m)
  PROVE  WireWhole'
  <1>1. /\ UNCHANGED <<closed, runs, interactions, pendingByLocalId, pendingByWireKey, answering, pump, transport,
                       wireResponding, wireAbandoning>>
        /\ transport = "open" /\ inbound' = Append(inbound, m)
        /\ wirePending' = IF m.type = "request" THEN wirePending \cup {m.wire} ELSE wirePending
        /\ m.type = "request" => m.wire \notin wirePending
    BY DEF ProviderSends, interVars, runVars
  <1>2. ~closed /\ inbound \in Seq(Messages)
    BY <1>1 DEF Inv, PumpInv
  <1>3. m.type = "request" => m.wire \in WireIds
    BY MessageWire
  <1>4. PICK n : n = Len(inbound)
    OBVIOUS
  <1>5. /\ n \in Nat /\ Len(inbound') = n + 1 /\ inbound'[n + 1] = m
        /\ \A i \in 1..n : inbound'[i] = inbound[i]
    BY <1>1, <1>2, <1>4, AppendProperties, LenProperties
  <1>6. \A w : /\ Queued(w)' <=> Queued(w) \/ (m.type = "request" /\ m.wire = w)
               /\ InHand(w)' <=> InHand(w)
               /\ Refusing(w)' <=> Refusing(w)
               /\ Answering(w)' <=> Answering(w)
    BY <1>1, <1>4, <1>5 DEF Queued, InHand, Refusing, Answering
  <1>7. WireTypes'
    BY <1>1, <1>3 DEF Whole, WireTypes
  <1>8. RouteInv'
    BY <1>1 DEF Whole, RouteInv, Active
  <1>9. CarriedInv /\ HeldInv /\ WireTypes
    BY DEF Whole
  <1>10. CarriedInv'
    BY <1>1, <1>2, <1>3, <1>9, <1>6, <1>4, <1>5 DEF CarriedInv, HeldInv, Queued
  <1>11. HeldInv'
    BY <1>1, <1>2, <1>6, <1>9 DEF HeldInv
  <1> QED BY <1>7, <1>8, <1>10, <1>11 DEF WireWhole

(* A message leaves the queue and is in hand. *)
LEMMA TakeWire ==
  ASSUME Inv, Whole, PumpTakes
  PROVE  WireWhole'
  <1>1. /\ UNCHANGED <<closed, runs, interactions, pendingByLocalId, pendingByWireKey, answering, transport,
                       wirePending, wireResponding, wireAbandoning>>
        /\ pump.state = "next" /\ pump' = [state |-> "taken", message |-> Head(inbound)]
        /\ inbound # <<>> /\ inbound' = Tail(inbound)
    BY DEF PumpTakes, interVars, runVars, wireVars
  <1>2. inbound \in Seq(Messages)
    BY DEF Inv, PumpInv
  <1>3. PICK n : n = Len(inbound)
    OBVIOUS
  <1>4. /\ n \in Nat /\ n >= 1 /\ Len(inbound') = n - 1 /\ pump'.message = inbound[1]
        /\ \A i \in 1..(n - 1) : inbound'[i] = inbound[i + 1]
    BY <1>1, <1>2, <1>3, HeadTailProperties, LenProperties, EmptySeq
  <1>5. \A w : InHand(w)' <=> inbound[1].type = "request" /\ inbound[1].wire = w
    BY <1>1, <1>4 DEF InHand
  <1>6. \A w : Queued(w)' <=> \E i \in 2..n : inbound[i].type = "request" /\ inbound[i].wire = w
    <2>1. \A i \in 2..n : i - 1 \in 1..(n - 1) /\ inbound'[i - 1] = inbound[i]
      BY <1>4
    <2>2. \A i \in 1..(n - 1) : i + 1 \in 2..n
      BY <1>4
    <2> QED BY <1>4, <2>1, <2>2, SMTT(30) DEF Queued
  <1>7. \A w : Queued(w) <=> Queued(w)' \/ InHand(w)'
    <2>1. 1 \in 1..n /\ (\A i \in 2..n : i \in 1..n) /\ \A i \in 1..n : i = 1 \/ i \in 2..n
      BY <1>4
    <2>2. \A w : Queued(w) <=> \E i \in 1..n : inbound[i].type = "request" /\ inbound[i].wire = w
      BY <1>3 DEF Queued
    <2> QED BY <1>5, <1>6, <2>1, <2>2
  <1>8. \A w : /\ ~InHand(w) /\ ~Refusing(w) /\ ~Refusing(w)'
               /\ Answering(w)' <=> Answering(w)
    BY <1>1 DEF InHand, Refusing, Answering
  <1>9. WireTypes' /\ CarriedInv /\ HeldInv
    BY <1>1, EmptySeq DEF Whole, WireTypes
  <1>10. RouteInv'
    BY <1>1 DEF Whole, RouteInv, Active
  <1>11. CarriedInv'
    <2> SUFFICES ASSUME ~closed PROVE CarriedInv'
      BY <1>1 DEF CarriedInv
    <2>1. \A i, j \in 1..n :
            inbound[i].type = "request" /\ inbound[j].type = "request" /\ inbound[i].wire = inbound[j].wire => i = j
      BY <1>3, <1>9 DEF CarriedInv
    <2>2. \A w \in WireIds : Queued(w)' => ~InHand(w)'
      BY <1>4, <1>5, <1>6, <2>1
    <2>3. \A i, j \in 1..(n - 1) :
            inbound'[i].type = "request" /\ inbound'[j].type = "request" /\ inbound'[i].wire = inbound'[j].wire
              => i = j
      <3>1. \A i \in 1..(n - 1) : i + 1 \in 1..n
        BY <1>4
      <3> QED BY <1>4, <2>1, <3>1, SMTT(30)
    <2> QED BY <1>1, <1>4, <1>7, <1>8, <1>9, <2>2, <2>3 DEF CarriedInv
  <1>12. HeldInv'
    BY <1>1, <1>7, <1>8, <1>9 DEF HeldInv
  <1> QED BY <1>9, <1>10, <1>11, <1>12 DEF WireWhole

LEMMA RouteActive == ASSUME Whole, NEW turn PROVE Route(turn) # NoRun => Active(Route(turn))
  BY DEF Whole, ThreadInv, ThreadTypes, Registered, Route, Active

(* The Run of a message in hand is found, or not. *)
LEMMA RouteWire ==
  ASSUME Inv, Whole, PumpRoutes \/ PumpResumes
  PROVE  WireWhole'
  <1>1. /\ UNCHANGED <<closed, runs, interactions, pendingByLocalId, pendingByWireKey, answering, transport,
                       inbound, wirePending, wireResponding, wireAbandoning>>
        /\ pump.state \in {"taken", "routing"}
    BY DEF PumpRoutes, PumpResumes, Takes, interVars, runVars, wireVars
  <1>2. \/ pump' = Routed(pump.message, Route(pump.message.turn))
        \/ pump' = Routing(pump.message, startingByThread[runs[pump.message.turn].thread])
    BY DEF PumpRoutes, PumpResumes
  <1>3. /\ pump'.state \in {"routing", "routed"} /\ pump'.message = pump.message
        /\ pump'.state = "routed" => pump'.run = Route(pump.message.turn)
    BY <1>2 DEF Routed, Routing
  <1>4. \A w : /\ Queued(w)' <=> Queued(w)
               /\ InHand(w)' <=> InHand(w)
               /\ Refusing(w)' <=> Refusing(w)
               /\ Answering(w)' <=> Answering(w)
    BY <1>1, <1>3 DEF Queued, InHand, Refusing, Answering
  <1>5. WireTypes' /\ CarriedInv' /\ HeldInv'
    BY <1>1, <1>4 DEF Whole, WireTypes, CarriedInv, HeldInv
  <1>6. RouteInv'
    BY <1>1, <1>3, RouteActive DEF Whole, RouteInv, Active
  <1> QED BY <1>5, <1>6 DEF WireWhole

LEMMA PumpUnroutedWire ==
  ASSUME Inv, Whole, PumpUnrouted
  PROVE  WireWhole'
  <1>1. UNCHANGED <<closed, runs, interactions, pendingByLocalId, pendingByWireKey, answering, transport, inbound,
                    wireVars>>
    BY DEF PumpUnrouted, interVars, runVars
  <1>2. pump'.state = "next" /\ pump.state = "routed" /\ pump.message.type # "request"
    BY DEF PumpUnrouted, PumpDone, Handles, TurnNotifications, TerminalMessages, MapTerminal
  <1>3. \A w : ~InHand(w) /\ ~Refusing(w)
    BY <1>2 DEF InHand, Refusing
  <1> QED BY <1>1, <1>2, <1>3, PumpLeaves DEF Active

(* A pending interaction is the one its wire id leads to, so an unused wire id has none. *)
LEMMA NoPending ==
  ASSUME Inv, Whole, ~closed, NEW w, pendingByWireKey[w] = 0
  PROVE  \A s \in pendingByLocalId : interactions[s].wire # w
  <1>1. \A s \in pendingByLocalId : s # 0 /\ pendingByWireKey[interactions[s].wire] = s
    BY PendingRuns DEF Whole, RouteInv, Inv, TablesInv
  <1> QED BY <1>1

(* A request without a Run is being answered with an error. *)
LEMMA RefuseWire ==
  ASSUME Inv, Whole, PumpRefuses
  PROVE  WireWhole'
  <1>1. PICK v : v = pump.message.wire
    OBVIOUS
  <1>2. /\ UNCHANGED <<closed, runs, interactions, pendingByLocalId, pendingByWireKey, answering, transport,
                       inbound, wirePending, wireAbandoning>>
        /\ pump.state = "routed" /\ pump.message.type = "request" /\ transport = "open"
        /\ pump' = [state |-> "refusing", wire |-> v] /\ wireResponding' = wireResponding \cup {v}
    BY <1>1 DEF PumpRefuses, Handles, interVars, runVars
  <1>3. v \in WireIds /\ ~closed
    BY <1>1, <1>2, MessageWire DEF Inv, PumpInv
  <1>4. InHand(v)
    BY <1>1, <1>2 DEF InHand
  <1>5. CarriedInv /\ HeldInv /\ WireTypes
    BY DEF Whole
  <1>6. v \in wirePending /\ v \notin wireResponding /\ pendingByWireKey[v] = 0 /\ ~Queued(v)
    BY <1>2, <1>3, <1>4, <1>5 DEF CarriedInv
  <1>7. \A s \in pendingByLocalId : interactions[s].wire # v
    BY <1>3, <1>6, NoPending
  <1>8. ~Answering(v) /\ v \notin wireAbandoning
    BY <1>2, <1>3, <1>5, <1>6 DEF HeldInv
  <1>9. \A w : /\ Queued(w)' <=> Queued(w)
               /\ ~InHand(w)' /\ (InHand(w) => w = v)
               /\ ~Refusing(w)
               /\ Refusing(w)' <=> w = v
               /\ Answering(w)' <=> Answering(w)
    BY <1>1, <1>2 DEF Queued, InHand, Refusing, Answering
  <1>10. WireTypes' /\ RouteInv'
    BY <1>2, <1>3 DEF Whole, WireTypes, RouteInv, Active
  <1>11. CarriedInv'
    BY <1>2, <1>5, <1>6, <1>9 DEF CarriedInv
  <1>12. HeldInv'
    BY <1>2, <1>3, <1>5, <1>6, <1>7, <1>8, <1>9 DEF HeldInv
  <1> QED BY <1>10, <1>11, <1>12 DEF WireWhole

(* The error is written: the reservation is gone. *)
LEMMA RefusedWire ==
  ASSUME Inv, Whole, PumpRefused
  PROVE  WireWhole'
  <1>1. PICK v : v = pump.wire
    OBVIOUS
  <1>2. /\ UNCHANGED <<closed, runs, interactions, pendingByLocalId, pendingByWireKey, answering, transport,
                       inbound, wireAbandoning>>
        /\ pump.state = "refusing" /\ transport = "open" /\ pump' = [state |-> "next"]
        /\ wirePending' = wirePending \ {v} /\ wireResponding' = wireResponding \ {v}
    BY <1>1 DEF PumpRefused, PumpDone, interVars, runVars
  <1>3. ~closed
    BY <1>2 DEF Inv, PumpInv
  <1>4. \A w : /\ Queued(w)' <=> Queued(w)
               /\ ~InHand(w)' /\ ~InHand(w)
               /\ Refusing(w) <=> w = v
               /\ ~Refusing(w)'
               /\ Answering(w)' <=> Answering(w)
    BY <1>1, <1>2 DEF Queued, InHand, Refusing, Answering
  <1>5. CarriedInv /\ HeldInv /\ WireTypes
    BY DEF Whole
  <1>6. WireTypes' /\ RouteInv'
    BY <1>2 DEF Whole, WireTypes, RouteInv, Active
  <1>7. CarriedInv'
    BY <1>2, <1>3, <1>4, <1>5 DEF CarriedInv, HeldInv
  <1>8. HeldInv'
    BY <1>2, <1>3, <1>4, <1>5 DEF HeldInv, WireTypes, CarriedInv
  <1> QED BY <1>6, <1>7, <1>8 DEF WireWhole

(* Interactions that are forgotten give their wire ids back, those being answered when the answer    *)
(* is written.                                                                                      *)
LEMMA ForgetWire ==
  ASSUME Inv, Whole, ~closed, NEW S \in SUBSET pendingByLocalId, ForgetPending(S), Abandon(WiresOf(S)),
         UNCHANGED <<closed, interactions, answering, transport, inbound, wireResponding>>,
         \A s \in pendingByLocalId \ S : Active(interactions[s].run)',
         pump'.state = "next", \A w : ~InHand(w) /\ ~Refusing(w)
  PROVE  WireWhole'
  <1>1. PICK W : W = WiresOf(S)
    OBVIOUS
  <1>2. /\ pendingByLocalId' = pendingByLocalId \ S
        /\ wirePending' = wirePending \ (W \ wireResponding)
        /\ wireAbandoning' = wireAbandoning \cup (W \cap wirePending \cap wireResponding)
        /\ \A w \in WireIds : pendingByWireKey'[w] = IF w \in W THEN 0 ELSE pendingByWireKey[w]
    BY <1>1 DEF ForgetPending, Abandon
  <1>3. \A s \in pendingByLocalId : /\ interactions[s].run \in Runs /\ interactions[s].wire \in WireIds /\ s # 0
                                    /\ pendingByWireKey[interactions[s].wire] = s
    BY PendingRuns DEF Whole, RouteInv, Inv, TablesInv
  <1>4. /\ W \subseteq WireIds
        /\ \A w \in W : pendingByWireKey[w] \in S /\ pendingByWireKey[w] # 0
        /\ \A s \in S : interactions[s].wire \in W
        /\ \A s \in pendingByLocalId \ S : interactions[s].wire \notin W
    BY <1>1, <1>3 DEF WiresOf
  <1>5. \A w : /\ Queued(w)' <=> Queued(w)
               /\ ~InHand(w)'
               /\ ~Refusing(w)'
               /\ Answering(w)' <=> Answering(w)
    BY DEF Queued, InHand, Refusing, Answering
  <1>6. CarriedInv /\ HeldInv /\ WireTypes /\ RouteInv
    BY DEF Whole
  <1>7. WireTypes'
    BY <1>2, <1>4, <1>6 DEF WireTypes
  <1>8. RouteInv'
    BY <1>2, <1>3, <1>4 DEF RouteInv, Active
  <1>9. CarriedInv'
    BY <1>4, <1>6, <1>2, <1>5 DEF CarriedInv
  <1>10. ASSUME transport = "open" PROVE HeldInv'
    <2>1. \A w \in wirePending' : Queued(w)' \/ InHand(w)' \/ pendingByWireKey'[w] # 0 \/ w \in wireResponding'
      BY <1>2, <1>5, <1>6, <1>10 DEF HeldInv, WireTypes
    <2>2. \A w \in WireIds : pendingByWireKey'[w] # 0 => w \in wirePending'
      BY <1>2, <1>6, <1>10 DEF HeldInv
    <2>3. wireResponding' \subseteq wirePending' /\ wireAbandoning' \subseteq wireResponding'
      BY <1>2, <1>6, <1>10 DEF HeldInv
    <2>4. \A w \in WireIds : w \in wireResponding' <=> Answering(w)' \/ Refusing(w)'
      BY <1>5, <1>6, <1>10 DEF HeldInv
    <2>5. ASSUME NEW s \in answering
          PROVE  interactions[s].wire \in wireAbandoning' <=> s \notin pendingByLocalId'
      <3>1. PICK v : v = interactions[s].wire
        OBVIOUS
      <3>2. v \in wireAbandoning <=> s \notin pendingByLocalId
        BY <1>6, <1>10, <3>1 DEF HeldInv
      <3>3. v \in wireResponding /\ v \in wirePending
        BY <3>1, PendingRuns, <1>6, <1>10 DEF Answering, Inv, TablesInv, HeldInv
      <3>4. v \in W => s \in S
        <4>1. ASSUME v \in W PROVE s \in S
          <5>1. PICK q \in S : interactions[q].wire = v
            BY <1>1, <4>1 DEF WiresOf
          <5>2. q \in answering
            BY <1>6, <1>10, <3>3, <5>1 DEF HeldInv
          <5>3. q = s
            BY <1>6, <1>10, <3>1, <5>1, <5>2 DEF HeldInv
          <5> QED BY <5>3
        <4> QED BY <4>1
      <3> QED BY <1>2, <1>4, <3>1, <3>2, <3>3, <3>4
    <2>6. \A s \in pendingByLocalId' : interactions[s].wire \in wireResponding' => s \in answering
      BY <1>2, <1>6, <1>10 DEF HeldInv
    <2>7. \A s, q \in answering : interactions[s].wire = interactions[q].wire => s = q
      BY <1>6, <1>10 DEF HeldInv
    <2> QED BY <1>5, <2>1, <2>2, <2>3, <2>4, <2>5, <2>6, <2>7 DEF HeldInv
  <1>11. HeldInv'
    BY <1>10 DEF HeldInv
  <1> QED BY <1>7, <1>8, <1>9, <1>11 DEF WireWhole

(* A request is pending under its wire id. *)
LEMMA RequestWire ==
  ASSUME Inv, Whole, ~closed, NEW s \in Nat, s = Len(interactions) + 1, NEW v \in WireIds, NEW r \in Runs,
         InHand(v), Active(r)', \A q \in Runs : Active(q) => Active(q)',
         interactions' = Append(interactions, [wire |-> v, run |-> r]),
         pendingByLocalId' = pendingByLocalId \cup {s},
         pendingByWireKey' = [pendingByWireKey EXCEPT ![v] = s],
         UNCHANGED <<closed, answering, transport, inbound, wireVars>>,
         pump'.state = "next", \A w : InHand(w) => w = v, \A w : ~Refusing(w)
  PROVE  WireWhole'
  <1>1. UNCHANGED <<closed, answering, transport, inbound, wirePending, wireResponding, wireAbandoning>>
    BY DEF wireVars
  <1>2. /\ interactions \in Seq([wire : WireIds, run : Runs]) /\ [wire |-> v, run |-> r] \in [wire : WireIds, run : Runs]
        /\ pendingByLocalId \subseteq 1..Len(interactions) /\ answering \subseteq 1..Len(interactions)
        /\ Len(interactions) \in Nat
    BY LenProperties DEF Inv, TablesInv
  <1>3. /\ interactions'[s].wire = v /\ interactions'[s].run = r /\ s # 0
        /\ s \notin pendingByLocalId /\ s \notin answering
        /\ \A q \in pendingByLocalId \cup answering : interactions'[q] = interactions[q]
    BY <1>2, AppendProperties
  <1>4. \A w \in WireIds : pendingByWireKey'[w] = IF w = v THEN s ELSE pendingByWireKey[w]
    BY DEF Inv, TablesInv
  <1>5. \A w : /\ Queued(w)' <=> Queued(w)
               /\ ~InHand(w)'
               /\ ~Refusing(w)'
               /\ Answering(w)' <=> Answering(w)
    BY <1>1, <1>3 DEF Queued, InHand, Refusing, Answering
  <1>6. CarriedInv /\ HeldInv /\ WireTypes /\ RouteInv
    BY DEF Whole
  <1>7. /\ pendingByWireKey[v] = 0 /\ ~Queued(v)
        /\ transport = "open" => v \in wirePending /\ v \notin wireResponding
    BY <1>6 DEF CarriedInv
  <1>8. \A q \in pendingByLocalId : interactions[q].wire # v
    BY <1>7, NoPending
  <1>9. WireTypes'
    BY <1>1, <1>6 DEF WireTypes
  <1>10. RouteInv'
    <2>1. ASSUME NEW q \in pendingByLocalId
          PROVE  runs'[interactions'[q].run].phase = "active" /\ pendingByWireKey'[interactions'[q].wire] = q
      <3>1. interactions[q].run \in Runs /\ interactions[q].wire \in WireIds
        BY <1>2, PendingRuns
      <3>2. Active(interactions[q].run) /\ pendingByWireKey[interactions[q].wire] = q
        BY <1>6 DEF RouteInv
      <3> QED BY <1>3, <1>4, <1>8, <3>1, <3>2, ZenonT(60) DEF Active
    <2>2. runs'[interactions'[s].run].phase = "active" /\ pendingByWireKey'[interactions'[s].wire] = s
      BY <1>3, <1>4 DEF Active
    <2> QED BY <2>1, <2>2 DEF RouteInv, Active
  <1>11. CarriedInv'
    BY <1>1, <1>4, <1>5, <1>6, <1>7 DEF CarriedInv
  <1>12. ASSUME transport = "open" PROVE HeldInv'
    <2>1. \A w \in wirePending' : Queued(w)' \/ InHand(w)' \/ pendingByWireKey'[w] # 0 \/ w \in wireResponding'
      BY <1>1, <1>3, <1>4, <1>5, <1>6, <1>12 DEF HeldInv, WireTypes
    <2>2. \A w \in WireIds : pendingByWireKey'[w] # 0 => w \in wirePending'
      BY <1>1, <1>4, <1>6, <1>7, <1>12 DEF HeldInv
    <2>3. wireResponding' \subseteq wirePending' /\ wireAbandoning' \subseteq wireResponding'
      BY <1>1, <1>6, <1>12 DEF HeldInv
    <2>4. \A w \in WireIds : w \in wireResponding' <=> Answering(w)' \/ Refusing(w)'
      BY <1>1, <1>5, <1>6, <1>12 DEF HeldInv
    <2>5. \A q \in answering : interactions'[q].wire \in wireAbandoning' <=> q \notin pendingByLocalId'
      BY <1>1, <1>3, <1>6, <1>12 DEF HeldInv
    <2>6. \A q \in pendingByLocalId' : interactions'[q].wire \in wireResponding' => q \in answering
      BY <1>1, <1>3, <1>6, <1>7, <1>12, ZenonT(60) DEF HeldInv
    <2>7. \A q, u \in answering : interactions'[q].wire = interactions'[u].wire => q = u
      BY <1>3, <1>6, <1>12, ZenonT(60) DEF HeldInv
    <2> QED BY <1>1, <1>5, <2>1, <2>2, <2>3, <2>4, <2>5, <2>6, <2>7 DEF HeldInv
  <1>13. HeldInv'
    BY <1>12 DEF HeldInv
  <1> QED BY <1>9, <1>10, <1>11, <1>13 DEF WireWhole

(* The host answers: one answer at a time for a wire id. *)
LEMMA RespondWire ==
  ASSUME Inv, Whole, NEW s \in pendingByLocalId, Respond(s)
  PROVE  WireWhole'
  <1>1. PICK v : v = interactions[s].wire
    OBVIOUS
  <1>2. /\ UNCHANGED <<closed, runs, interactions, pendingByLocalId, pendingByWireKey, pump, transport, inbound,
                       wirePending, wireAbandoning>>
        /\ ~closed /\ transport = "open" /\ v \in wirePending /\ v \notin wireResponding
        /\ wireResponding' = wireResponding \cup {v} /\ answering' = answering \cup {s}
    BY <1>1 DEF Respond, runVars
  <1>3. CarriedInv /\ HeldInv /\ WireTypes /\ RouteInv
    BY DEF Whole
  <1>4. v \in WireIds /\ pendingByWireKey[v] = s /\ s # 0
    BY <1>1, <1>2, <1>3, PendingRuns DEF RouteInv, Inv, TablesInv
  <1>5. ~Queued(v) /\ ~InHand(v) /\ ~Refusing(v)
    BY <1>2, <1>3, <1>4 DEF CarriedInv
  <1>6. ~Answering(v) /\ v \notin wireAbandoning
    BY <1>2, <1>3, <1>4 DEF HeldInv
  <1>7. \A w : /\ Queued(w)' <=> Queued(w)
               /\ InHand(w)' <=> InHand(w)
               /\ Refusing(w)' <=> Refusing(w)
               /\ Answering(w)' <=> Answering(w) \/ w = v
    BY <1>1, <1>2 DEF Queued, InHand, Refusing, Answering
  <1>8. \A q \in answering : interactions[q].wire # v
    BY <1>6 DEF Answering
  <1>9. WireTypes' /\ RouteInv' /\ CarriedInv'
    BY <1>2, <1>3, <1>4, <1>5, <1>7 DEF WireTypes, RouteInv, Active, CarriedInv
  <1>10. HeldInv'
    BY <1>2, <1>3, <1>7, <1>5, <1>1, <1>8, <1>6, <1>4 DEF HeldInv, RouteInv
  <1> QED BY <1>9, <1>10 DEF WireWhole

(* What holds of an interaction that is being answered. *)
LEMMA AnsweredAlone ==
  ASSUME Inv, Whole, NEW s \in answering, transport = "open", NEW v, v = interactions[s].wire
  PROVE  /\ ~closed /\ v \in WireIds /\ v \in wirePending /\ v \in wireResponding
         /\ ~Queued(v) /\ ~InHand(v) /\ ~Refusing(v)
         /\ \A q \in answering : interactions[q].wire = v => q = s
         /\ \A q \in pendingByLocalId : interactions[q].wire = v => q = s
         /\ pendingByWireKey[v] # 0 <=> s \in pendingByLocalId
         /\ v \in wireAbandoning <=> s \notin pendingByLocalId
  <1>1. ~closed
    BY DEF Inv, PumpInv
  <1>2. CarriedInv /\ HeldInv /\ WireTypes /\ RouteInv
    BY DEF Whole
  <1>3. v \in WireIds /\ Answering(v) /\ s # 0
    BY PendingRuns DEF Answering, Inv, TablesInv
  <1>4. v \in wireResponding /\ v \in wirePending /\ ~Refusing(v)
    BY <1>1, <1>2, <1>3 DEF HeldInv
  <1>5. ~Queued(v) /\ ~InHand(v)
    BY <1>1, <1>2, <1>3, <1>4 DEF CarriedInv
  <1>6. /\ \A q \in answering : interactions[q].wire = v => q = s
        /\ v \in wireAbandoning <=> s \notin pendingByLocalId
    BY <1>1, <1>2 DEF HeldInv
  <1>7. \A q \in pendingByLocalId : interactions[q].wire = v => q = s
    BY <1>1, <1>2, <1>4, <1>6 DEF HeldInv
  <1>8. pendingByWireKey[v] # 0 <=> s \in pendingByLocalId
    BY <1>3, <1>1, <1>2, <1>7 DEF Inv, TablesInv, RouteInv
  <1> QED BY <1>1, <1>3, <1>4, <1>5, <1>6, <1>7, <1>8

(* An answer is written, or fails to be: its wire id is free, unless the interaction is still pending. *)
LEMMA AnswerWire ==
  ASSUME Inv, Whole, NEW s \in answering, transport = "open", NEW v, v = interactions[s].wire,
         answering' = answering \ {s}, UNCHANGED <<closed, interactions, pump, transport, inbound>>,
         pendingByLocalId' \in {pendingByLocalId, pendingByLocalId \ {s}},
         NEW kept \in BOOLEAN, kept <=> s \in pendingByLocalId',
         \A w \in WireIds : pendingByWireKey'[w] = IF w = v /\ ~kept THEN 0 ELSE pendingByWireKey[w],
         wirePending' = IF kept THEN wirePending ELSE wirePending \ {v},
         wireResponding' = wireResponding \ {v}, wireAbandoning' = wireAbandoning \ {v},
         \A q \in Runs : Active(q) => Active(q)'
  PROVE  WireWhole'
  <1>1. /\ ~closed /\ v \in WireIds /\ v \in wirePending /\ v \in wireResponding
        /\ ~Queued(v) /\ ~InHand(v) /\ ~Refusing(v)
        /\ \A q \in answering : interactions[q].wire = v => q = s
        /\ \A q \in pendingByLocalId : interactions[q].wire = v => q = s
        /\ pendingByWireKey[v] # 0 <=> s \in pendingByLocalId
        /\ v \in wireAbandoning <=> s \notin pendingByLocalId
    BY AnsweredAlone
  <1>2. \A w : /\ Queued(w)' <=> Queued(w)
               /\ InHand(w)' <=> InHand(w)
               /\ Refusing(w)' <=> Refusing(w)
    BY DEF Queued, InHand, Refusing
  <1>3. \A w : Answering(w)' <=> Answering(w) /\ w # v
    BY <1>1 DEF Answering
  <1>4. CarriedInv /\ HeldInv /\ WireTypes /\ RouteInv
    BY DEF Whole
  <1>5. \A q \in pendingByLocalId : interactions[q].run \in Runs /\ interactions[q].wire \in WireIds
    BY PendingRuns DEF Inv, TablesInv
  <1>6. WireTypes'
    BY <1>4 DEF WireTypes
  <1>7. RouteInv'
    BY <1>1, <1>4, <1>5 DEF RouteInv, Active, Inv, PumpInv
  <1>8. CarriedInv'
    BY <1>1, <1>2, <1>4 DEF CarriedInv
  <1>9. HeldInv'
    BY <1>1, <1>2, <1>4, <1>3 DEF HeldInv, WireTypes
  <1> QED BY <1>6, <1>7, <1>8, <1>9 DEF WireWhole

(* The answer was not written. *)
LEMMA RespondFailsWhole ==
  ASSUME Inv, Whole, NEW s \in answering, RespondFails(s)
  PROVE  Whole'
  <1>1. PICK v : v = interactions[s].wire
    OBVIOUS
  <1>2. /\ UNCHANGED <<closed, runs, threadVars, forks, interactions, pendingByLocalId, pendingByWireKey, pump,
                       transport, inbound>>
        /\ answering' = answering \ {s}
    BY DEF RespondFails, runVars, threadVars
  <1>3. RunsWhole'
    BY <1>2, StillWhole
  <1>4. CASE transport = "open"
    <2>1. /\ wireResponding' = wireResponding \ {v} /\ wireAbandoning' = wireAbandoning \ {v}
          /\ wirePending' = wirePending \ ({v} \cap wireAbandoning)
      BY <1>1, <1>4 DEF RespondFails
    <2>2. /\ v \in WireIds /\ (v \in wireAbandoning <=> s \notin pendingByLocalId)
          /\ pendingByWireKey[v] # 0 <=> s \in pendingByLocalId
      BY <1>1, <1>4, AnsweredAlone
    <2>3. PICK kept \in BOOLEAN : kept <=> s \in pendingByLocalId
      OBVIOUS
    <2>4. wirePending' = IF kept THEN wirePending ELSE wirePending \ {v}
      BY <2>1, <2>2, <2>3
    <2>5. /\ \A w \in WireIds : pendingByWireKey'[w] = IF w = v /\ ~kept THEN 0 ELSE pendingByWireKey[w]
          /\ kept <=> s \in pendingByLocalId'
          /\ pendingByLocalId' \in {pendingByLocalId, pendingByLocalId \ {s}}
      BY <1>2, <2>2, <2>3
    <2>6. \A q \in Runs : Active(q) => Active(q)'
      BY <1>2 DEF Active
    <2>7. UNCHANGED <<closed, interactions, pump, transport, inbound>>
      BY <1>2
    <2>8. WireWhole'
      BY <1>1, <1>2, <1>4, <2>1, <2>4, <2>5, <2>6, <2>7, AnswerWire
    <2> QED BY <1>3, <2>8 DEF Whole, RunsWhole, WireWhole
  <1>5. CASE transport # "open"
    <2>1. UNCHANGED <<wirePending, wireResponding, wireAbandoning>>
      BY <1>5 DEF RespondFails, wireVars
    <2>2. WireTypes' /\ RouteInv'
      BY <1>2, <2>1 DEF Whole, WireTypes, RouteInv, Active
    <2>3. CarriedInv'
      BY <1>2, <2>1 DEF Queued, InHand, Refusing, Whole, CarriedInv
    <2>4. HeldInv'
      BY <1>2, <1>5 DEF HeldInv
    <2> QED BY <1>3, <2>2, <2>3, <2>4 DEF Whole, RunsWhole
  <1> QED BY <1>4, <1>5

-------------------------------------------------------------------------------
(* Events of Runs and their interactions. *)

(* After the end of the connection only the types of the wire are left to say. *)
LEMMA ClosedWire ==
  ASSUME closed', WireTypes'
  PROVE  WireWhole'
  BY DEF WireWhole, RouteInv, CarriedInv, HeldInv

LEMMA PumpStartedWhole ==
  ASSUME Inv, Whole, PumpStarted
  PROVE  Whole'
  <1>1. PICK r : r = pump.run
    OBVIOUS
  <1>2. r \in Runs /\ pump.state = "routed" /\ pump.message.type = "started"
    BY <1>1 DEF PumpStarted, Handles, Inv, PumpInv
  <1>3. PICK p \in {"unknown", "yes", "no"} : runs' = [runs EXCEPT ![r].providerStart = p]
    BY <1>1, <1>2, RunShape DEF PumpStarted, Shape
  <1>4. PICK new : new = [runs[r] EXCEPT !.providerStart = p]
    OBVIOUS
  <1>5. runs' = [runs EXCEPT ![r] = new]
    BY <1>2, <1>3, <1>4 DEF Inv, RunsInv
  <1>6. PICK run \in Shape : run = runs[r] /\ Tidy(run) /\ Accounts(run, PendingOf(r, pendingByLocalId))
    BY <1>2, TidyRun
  <1>7. /\ new \in Shape /\ new.queued = run.queued /\ new.waiting = run.waiting /\ new.phase = run.phase
        /\ new.thread = run.thread /\ new.cancel = run.cancel /\ new.overflow = run.overflow
        /\ new.requested = run.requested /\ new.resolved = run.resolved
    BY <1>4, <1>6 DEF Shape
  <1>8. Tidy(new)
    BY <1>6, <1>7 DEF Tidy, QueueFits, CancelTrue, Unheard
  <1>9. Beside(runs[r], new)
    BY <1>6, <1>7, <1>8 DEF Beside
  <1>10. Accounts(new, PendingOf(r, pendingByLocalId))
    BY <1>6, <1>7 DEF Accounts
  <1>11. /\ UNCHANGED <<closed, threadVars, forks, interactions, pendingByLocalId, pendingByWireKey, answering,
                        transport, inbound, wireVars>>
         /\ pump'.state = "next"
    BY DEF PumpStarted, PumpDone, threadVars, interVars
  <1>12. RunsWhole'
    BY <1>2, <1>5, <1>9, <1>10, <1>11, SamePending, OneWhole
  <1>13. \A q \in Runs : Active(q) => Active(q)'
    BY <1>5, <1>9 DEF Active, Beside, Inv, RunsInv
  <1>14. \A w : ~InHand(w) /\ ~Refusing(w)
    BY <1>2 DEF InHand, Refusing
  <1>15. WireWhole'
    BY <1>11, <1>13, <1>14, PumpLeaves
  <1> QED BY <1>12, <1>15 DEF Whole, RunsWhole, WireWhole

LEMMA PumpUpdateWhole ==
  ASSUME Inv, Whole, PumpUpdate
  PROVE  Whole'
  <1>1. PICK r : r = pump.run
    OBVIOUS
  <1>2. r \in Runs /\ pump.state = "routed" /\ pump.message.type # "request"
    BY <1>1 DEF PumpUpdate, Handles, MappedToEvents, Inv, PumpInv
  <1>3. PICK new : new = Emit(runs[r])
    OBVIOUS
  <1>4. [runs EXCEPT ![r] = Emit(@)] = [runs EXCEPT ![r] = new]
    BY <1>3 DEF Inv, RunsInv
  <1>5. /\ Beside(runs[r], new)
        /\ runs[r].overflow => new.overflow
        /\ new.requested = runs[r].requested /\ new.resolved = runs[r].resolved
    BY <1>2, <1>3, TidyRun, EmitTidy
  <1>6. Accounts(new, PendingOf(r, pendingByLocalId))
    BY <1>2, <1>5, TidyRun DEF Accounts, Beside
  <1>7. UNCHANGED <<startingByThread, forks, interactions, answering>> /\ pump'.state = "next"
    BY DEF PumpUpdate, PumpDone
  <1>8. CASE AbortConnection([runs EXCEPT ![r] = new], pendingByLocalId)
    <2>1. PICK P \in SUBSET pendingByLocalId : P = pendingByLocalId
      OBVIOUS
    <2>2. /\ AbortConnection([runs EXCEPT ![r] = new], P) /\ Accounts(new, PendingOf(r, P))
          /\ \A q \in Runs \ {r} : PendingOf(q, P) = PendingOf(q, pendingByLocalId)
      BY <1>6, <1>8, <2>1
    <2> QED BY <1>2, <1>5, <1>7, <2>1, <2>2, AbortOne
  <1>9. CASE /\ runs' = [runs EXCEPT ![r] = new]
             /\ UNCHANGED <<closed, activeByThread, activeByTurn, pendingByLocalId, pendingByWireKey, transport,
                            inbound, wireVars>>
    <2>1. RunsWhole'
      BY <1>2, <1>5, <1>6, <1>7, <1>9, SamePending, OneWhole DEF threadVars
    <2>2. \A q \in Runs : Active(q) => Active(q)'
      BY <1>5, <1>9 DEF Active, Beside, Inv, RunsInv
    <2>3. \A w : ~InHand(w) /\ ~Refusing(w)
      BY <1>2 DEF InHand, Refusing
    <2>4. WireWhole'
      BY <1>7, <1>9, <2>2, <2>3, PumpLeaves
    <2> QED BY <2>1, <2>4 DEF Whole, RunsWhole, WireWhole
  <1> QED BY <1>1, <1>4, <1>8, <1>9 DEF PumpUpdate, UnlessFull

(* Interactions of one Run are resolved: the others keep theirs. *)
LEMMA ResolvedAccounts ==
  ASSUME Inv, Whole, NEW r \in Runs, NEW S \in SUBSET PendingOf(r, pendingByLocalId),
         NEW new, new = EmitResolved(runs[r], S), NEW P, P = pendingByLocalId \ S
  PROVE  /\ Beside(runs[r], new) /\ Accounts(new, PendingOf(r, P))
         /\ \A q \in Runs \ {r} : PendingOf(q, P) = PendingOf(q, pendingByLocalId)
  <1>1. PICK run \in Shape : run = runs[r] /\ Tidy(run) /\ Accounts(run, PendingOf(r, pendingByLocalId))
    BY TidyRun
  <1>2. PICK N \in Nat : PendingOf(r, pendingByLocalId) \in SUBSET (1..N)
    BY PendingRange
  <1>3. /\ Beside(run, new)
        /\ run.overflow => new.overflow
        /\ new.requested = run.requested
        /\ IF run.phase # "active" THEN new = run ELSE new.overflow \/ new.resolved = run.resolved \cup S
    BY <1>1, <1>2, EmitResolvedTidy
  <1>4. PendingOf(r, pendingByLocalId) = S \cup PendingOf(r, P)
    BY DEF PendingOf
  <1>5. Accounts(new, PendingOf(r, P))
    BY <1>1, <1>3, <1>4, TerminalsApart DEF Accounts, Beside
  <1>6. \A q \in Runs \ {r} : PendingOf(q, P) = PendingOf(q, pendingByLocalId)
    BY DEF PendingOf
  <1> QED BY <1>1, <1>3, <1>5, <1>6

(* serverRequest/resolved. *)
LEMMA PumpResolvedWhole ==
  ASSUME Inv, Whole, PumpResolved
  PROVE  Whole'
  <1>1. PICK s : s = pendingByWireKey[pump.message.wire]
    OBVIOUS
  <1>2. /\ pump.state = "taken" /\ pump.message.type = "resolved" /\ pump'.state = "next"
        /\ UNCHANGED <<startingByThread, forks, interactions, answering>>
    BY DEF PumpResolved, Takes, PumpDone
  <1>3. \A w : ~InHand(w) /\ ~Refusing(w)
    BY <1>2 DEF InHand, Refusing
  <1>4. CASE s = 0
    BY <1>1, <1>4, <1>2, StillWhole, <1>3, PumpLeaves DEF PumpResolved, threadVars, Active, Whole, RunsWhole, WireWhole
  <1>5. CASE s # 0
    <2>1. s \in pendingByLocalId /\ s \in 1..Len(interactions)
      BY <1>2, MessageWire, <1>1, <1>5 DEF Inv, PumpInv, TablesInv
    <2>2. PICK r \in Runs : r = interactions[s].run
      BY <2>1, PendingRuns
    <2>3. PICK S : S = {s}
      OBVIOUS
    <2>4. PICK new : new = EmitResolved(runs[r], S)
      OBVIOUS
    <2>5. PICK P \in SUBSET pendingByLocalId : P = pendingByLocalId \ S
      OBVIOUS
    <2>6. S \in SUBSET PendingOf(r, pendingByLocalId) /\ S \in SUBSET pendingByLocalId
      BY <2>1, <2>2, <2>3 DEF PendingOf
    <2>7. /\ Beside(runs[r], new) /\ Accounts(new, PendingOf(r, P))
          /\ \A q \in Runs \ {r} : PendingOf(q, P) = PendingOf(q, pendingByLocalId)
      BY <2>4, <2>5, <2>6, ResolvedAccounts
    <2>8. [runs EXCEPT ![r] = EmitResolved(@, {s})] = [runs EXCEPT ![r] = new]
      BY <2>3, <2>4 DEF Inv, RunsInv
    <2>9. \/ ~closed /\ AbortConnection([runs EXCEPT ![r] = new], P)
          \/ /\ runs' = [runs EXCEPT ![r] = new] /\ ForgetPending(S) /\ Abandon(WiresOf(S))
             /\ UNCHANGED <<closed, activeByThread, activeByTurn, transport, inbound, wireResponding>>
      <3>1. {interactions[s].wire} = WiresOf(S)
        BY <2>3 DEF WiresOf
      <3> QED BY <1>1, <1>5, <2>2, <2>3, <2>5, <2>8, <3>1 DEF PumpResolved, UnlessFull
    <2>10. CASE ~closed /\ AbortConnection([runs EXCEPT ![r] = new], P)
      BY <1>2, <2>7, <2>10, AbortOne
    <2>11. CASE /\ runs' = [runs EXCEPT ![r] = new] /\ ForgetPending(S) /\ Abandon(WiresOf(S))
                /\ UNCHANGED <<closed, activeByThread, activeByTurn, transport, inbound, wireResponding>>
      <3>1. pendingByLocalId' = P
        BY <2>5, <2>11 DEF ForgetPending
      <3>2. \A q : PendingOf(q, pendingByLocalId)' = PendingOf(q, P)
        BY <1>2, <3>1, PendingKept
      <3>3. RunsWhole'
        BY <1>2, <2>7, <2>11, <3>2, OneWhole DEF threadVars
      <3>4. \A q \in Runs : Active(q) => Active(q)'
        BY <2>7, <2>11 DEF Active, Beside, Inv, RunsInv
      <3>5. CASE ~closed
        <4>1. \A q \in pendingByLocalId \ S : Active(interactions[q].run)'
          BY PendingRuns, <3>5, <1>2, <3>4 DEF Inv, TablesInv, Whole, RouteInv, Active
        <4>2. WireWhole'
          BY <1>2, <1>3, <2>6, <2>11, <3>5, <4>1, ForgetWire
        <4> QED BY <3>3, <4>2 DEF Whole, RunsWhole, WireWhole
      <3>6. CASE closed
        BY <2>11, <3>6, <3>3, ClosedWire DEF Whole, WireTypes, Abandon, RunsWhole, WireWhole
      <3> QED BY <3>5, <3>6
    <2> QED BY <2>9, <2>10, <2>11
  <1> QED BY <1>4, <1>5

(* The answer of the host is written. *)
LEMMA RespondedWhole ==
  ASSUME Inv, Whole, NEW s \in answering, Responded(s)
  PROVE  Whole'
  <1>1. PICK v : v = interactions[s].wire
    OBVIOUS
  <1>2. /\ transport = "open" /\ answering' = answering \ {s}
        /\ UNCHANGED <<startingByThread, forks, interactions, pump>>
    BY DEF Responded
  <1>3. /\ v \in WireIds
        /\ pendingByWireKey[v] # 0 <=> s \in pendingByLocalId
        /\ ~closed
    BY <1>1, <1>2, AnsweredAlone
  <1>4. CASE s \notin pendingByLocalId
    <2>1. /\ WireAnswered(v)
          /\ UNCHANGED <<closed, runs, activeByThread, activeByTurn, transport, inbound, pendingByLocalId,
                         pendingByWireKey>>
      BY <1>1, <1>4 DEF Responded
    <2>2. RunsWhole'
      BY <1>2, <2>1, StillWhole DEF threadVars
    <2>3. PICK kept \in BOOLEAN : ~kept
      OBVIOUS
    <2>4. /\ \A w \in WireIds : pendingByWireKey'[w] = IF w = v /\ ~kept THEN 0 ELSE pendingByWireKey[w]
          /\ kept <=> s \in pendingByLocalId'
          /\ wirePending' = IF kept THEN wirePending ELSE wirePending \ {v}
          /\ wireResponding' = wireResponding \ {v} /\ wireAbandoning' = wireAbandoning \ {v}
          /\ pendingByLocalId' \in {pendingByLocalId, pendingByLocalId \ {s}}
      BY <1>3, <1>4, <2>1, <2>3 DEF WireAnswered
    <2>5. /\ \A q \in Runs : Active(q) => Active(q)'
          /\ UNCHANGED <<closed, interactions, pump, transport, inbound>>
      BY <1>2, <2>1 DEF Active
    <2>6. WireWhole'
      BY <1>1, <1>2, <2>4, <2>5, AnswerWire
    <2> QED BY <2>2, <2>6 DEF Whole, RunsWhole, WireWhole
  <1>5. CASE s \in pendingByLocalId
    <2>2. PICK r \in Runs : r = interactions[s].run
      BY <1>5, PendingRuns DEF Inv, TablesInv
    <2>3. PICK S : S = {s}
      OBVIOUS
    <2>4. PICK new : new = EmitResolved(runs[r], S)
      OBVIOUS
    <2>5. PICK P \in SUBSET pendingByLocalId : P = pendingByLocalId \ S
      OBVIOUS
    <2>6. S \in SUBSET PendingOf(r, pendingByLocalId)
      BY <1>5, <2>2, <2>3 DEF PendingOf
    <2>7. /\ Beside(runs[r], new) /\ Accounts(new, PendingOf(r, P))
          /\ \A q \in Runs \ {r} : PendingOf(q, P) = PendingOf(q, pendingByLocalId)
      BY <2>4, <2>5, <2>6, ResolvedAccounts
    <2>8. [runs EXCEPT ![r] = EmitResolved(@, {s})] = [runs EXCEPT ![r] = new]
      BY <2>3, <2>4 DEF Inv, RunsInv
    <2>9. \/ ~closed /\ AbortConnection([runs EXCEPT ![r] = new], P)
          \/ /\ runs' = [runs EXCEPT ![r] = new] /\ ForgetPending(S) /\ WireAnswered(v)
             /\ UNCHANGED <<closed, activeByThread, activeByTurn, transport, inbound>>
      BY <1>1, <1>5, <2>2, <2>3, <2>5, <2>8 DEF Responded, UnlessFull
    <2>10. CASE ~closed /\ AbortConnection([runs EXCEPT ![r] = new], P)
      BY <1>2, <2>7, <2>10, AbortOne
    <2>11. CASE /\ runs' = [runs EXCEPT ![r] = new] /\ ForgetPending(S) /\ WireAnswered(v)
                /\ UNCHANGED <<closed, activeByThread, activeByTurn, transport, inbound>>
      <3>1. pendingByLocalId' = P /\ WiresOf(S) = {v}
        BY <1>1, <2>3, <2>5, <2>11 DEF ForgetPending, WiresOf
      <3>2. \A q : PendingOf(q, pendingByLocalId)' = PendingOf(q, P)
        BY <1>2, <3>1, PendingKept
      <3>3. RunsWhole'
        BY <1>2, <2>7, <2>11, <3>2, OneWhole DEF threadVars
      <3>4. \A q \in Runs : Active(q) => Active(q)'
        BY <2>7, <2>11 DEF Active, Beside, Inv, RunsInv
      <3>5. PICK kept \in BOOLEAN : ~kept
        OBVIOUS
      <3>6. /\ \A w \in WireIds : pendingByWireKey'[w] = IF w = v /\ ~kept THEN 0 ELSE pendingByWireKey[w]
            /\ kept <=> s \in pendingByLocalId'
            /\ wirePending' = IF kept THEN wirePending ELSE wirePending \ {v}
            /\ wireResponding' = wireResponding \ {v} /\ wireAbandoning' = wireAbandoning \ {v}
            /\ pendingByLocalId' \in {pendingByLocalId, pendingByLocalId \ {s}}
        BY <2>3, <2>5, <2>11, <3>1, <3>5 DEF WireAnswered, ForgetPending
      <3>7. UNCHANGED <<closed, interactions, pump, transport, inbound>>
        BY <1>2, <2>11
      <3>8. WireWhole'
        BY <1>1, <1>2, <3>4, <3>6, <3>7, AnswerWire
      <3> QED BY <3>3, <3>8 DEF Whole, RunsWhole, WireWhole
    <2> QED BY <2>9, <2>10, <2>11
  <1> QED BY <1>4, <1>5

LEMMA RespondWhole ==
  ASSUME Inv, Whole, NEW s \in pendingByLocalId, Respond(s)
  PROVE  Whole'
  <1>1. UNCHANGED <<runs, threadVars, forks, pendingByLocalId, interactions>>
    BY DEF Respond, runVars, threadVars
  <1> QED BY <1>1, StillWhole, RespondWire DEF Whole, RunsWhole, WireWhole

(* A request begins an interaction of its Run. *)
LEMMA PumpRequestWhole ==
  ASSUME Inv, Whole, PumpRequest
  PROVE  Whole'
  <1>1. PICK s \in Nat : s = Len(interactions) + 1
    BY LenProperties DEF Inv, TablesInv
  <1>2. PICK r : r = pump.run
    OBVIOUS
  <1>3. PICK v : v = pump.message.wire
    OBVIOUS
  <1>4. /\ r \in Runs /\ r # NoRun /\ pump.state = "routed" /\ pump.message.type = "request"
        /\ v \in WireIds
    BY <1>2, <1>3, MessageWire DEF PumpRequest, Handles, Inv, PumpInv
  <1>5. PICK new : new = EmitRequested(runs[r], s)
    OBVIOUS
  <1>6. [runs EXCEPT ![pump.run] = EmitRequested(@, Len(interactions) + 1)] = [runs EXCEPT ![r] = new]
        /\ [runs EXCEPT ![r] = new][r] = new
    BY <1>1, <1>2, <1>4, <1>5 DEF Inv, RunsInv
  <1>7. PICK run \in Shape : run = runs[r] /\ Tidy(run) /\ Accounts(run, PendingOf(r, pendingByLocalId))
    BY <1>4, TidyRun
  <1>8. /\ Beside(run, new)
        /\ run.overflow => new.overflow
        /\ new.resolved = run.resolved
        /\ IF run.phase # "active" THEN new = run ELSE new.overflow \/ new.requested = run.requested \cup {s}
    BY <1>5, <1>7, EmitRequestedTidy
  <1>9. /\ pump'.state = "next" /\ UNCHANGED <<startingByThread, forks, answering>>
        /\ interactions' = Append(interactions, [wire |-> v, run |-> r])
    BY <1>2, <1>3 DEF PumpRequest, PumpDone
  <1>10. /\ interactions'[s].run = r
         /\ \A q \in pendingByLocalId : interactions'[q] = interactions[q]
    BY <1>4, LenProperties, <1>1, <1>9, AppendProperties DEF Inv, TablesInv
  <1>11. \/ new.overflow /\ ~closed /\ AbortConnection([runs EXCEPT ![r] = new], pendingByLocalId)
         \/ /\ runs' = [runs EXCEPT ![r] = new]
            /\ pendingByLocalId' = pendingByLocalId \cup {s}
            /\ pendingByWireKey' = [pendingByWireKey EXCEPT ![v] = s]
            /\ UNCHANGED <<closed, activeByThread, activeByTurn, transport, inbound, wireVars>>
    BY <1>1, <1>2, <1>3, <1>6 DEF PumpRequest, UnlessFull
  <1>12. CASE new.overflow /\ ~closed /\ AbortConnection([runs EXCEPT ![r] = new], pendingByLocalId)
    <2>1. PICK P \in SUBSET pendingByLocalId : P = pendingByLocalId
      OBVIOUS
    <2>2. /\ AbortConnection([runs EXCEPT ![r] = new], P) /\ Accounts(new, PendingOf(r, P))
          /\ \A q \in Runs \ {r} : PendingOf(q, P) = PendingOf(q, pendingByLocalId)
      BY <1>12, <2>1 DEF Accounts
    <2>3. Beside(runs[r], new)
      BY <1>7, <1>8
    <2> QED BY <1>4, <1>9, <1>10, <2>1, <2>2, <2>3, AbortOne
  <1>13. CASE /\ runs' = [runs EXCEPT ![r] = new]
              /\ pendingByLocalId' = pendingByLocalId \cup {s}
              /\ pendingByWireKey' = [pendingByWireKey EXCEPT ![v] = s]
              /\ UNCHANGED <<closed, activeByThread, activeByTurn, transport, inbound, wireVars>>
    <2>1. /\ PendingOf(r, pendingByLocalId)' = PendingOf(r, pendingByLocalId) \cup {s}
          /\ \A q \in Runs \ {r} : PendingOf(q, pendingByLocalId)' = PendingOf(q, pendingByLocalId)
      BY <1>10, <1>13 DEF PendingOf
    <2>2. Accounts(new, PendingOf(r, pendingByLocalId)')
      BY <1>7, <1>8, <2>1, TerminalsApart DEF Accounts, Beside
    <2>3. Beside(runs[r], new)
      BY <1>7, <1>8
    <2>4. RunsWhole'
      BY <1>4, <1>9, <1>13, <2>1, <2>2, <2>3, OneWhole DEF threadVars
    <2>5. \A q \in Runs : Active(q) => Active(q)'
      BY <1>13, <2>3 DEF Active, Beside, Inv, RunsInv
    <2>6. CASE ~closed
      <3>1. /\ InHand(v) /\ \A w : InHand(w) => w = v
            /\ \A w : ~Refusing(w)
        BY <1>3, <1>4 DEF InHand, Refusing
      <3>2. Active(r)'
        BY <1>2, <1>4, <2>5, <2>6 DEF Whole, RouteInv
      <3>3. WireWhole'
        BY <1>1, <1>4, <1>9, <1>13, <2>5, <2>6, <3>1, <3>2, RequestWire
      <3> QED BY <2>4, <3>3 DEF Whole, RunsWhole, WireWhole
    <2>7. CASE closed
      BY <1>13, <2>7, <2>4, ClosedWire DEF Whole, WireTypes, wireVars, RunsWhole, WireWhole
    <2> QED BY <2>6, <2>7
  <1> QED BY <1>11, <1>12, <1>13

(* turn/completed: the Run ends and is unregistered. *)
LEMMA PumpTerminalWhole ==
  ASSUME Inv, Whole, PumpTerminal
  PROVE  Whole'
  <1>1. PICK r : r = pump.run
    OBVIOUS
  <1>2. PICK type : type = pump.message.type
    OBVIOUS
  <1>3. /\ r \in Runs /\ pump.state = "routed" /\ type \in TerminalMessages /\ type # "request"
        /\ MapTerminal[type] \in Terminals
    BY <1>1, <1>2 DEF PumpTerminal, Handles, Inv, PumpInv, TerminalMessages, MapTerminal, Terminals
  <1>4. PICK result \in Terminals : result = MapTerminal[type]
    BY <1>3
  <1>5. PICK S : S = PendingOf(r, pendingByLocalId)
    OBVIOUS
  <1>6. PICK said : said = EmitResolved(runs[r], S)
    OBVIOUS
  <1>7. PICK new : new = IF type \in MappedToEvents THEN Emit(said) ELSE said
    OBVIOUS
  <1>8. PICK over : over = Finish(new, result)
    OBVIOUS
  <1>9. PICK P \in SUBSET pendingByLocalId : P = pendingByLocalId \ S
    OBVIOUS
  <1>10. S \in SUBSET pendingByLocalId
    BY <1>5 DEF PendingOf
  <1>11. /\ Beside(runs[r], said) /\ Accounts(said, PendingOf(r, P))
         /\ \A q \in Runs \ {r} : PendingOf(q, P) = PendingOf(q, pendingByLocalId)
    BY <1>3, <1>5, <1>6, <1>9, ResolvedAccounts
  <1>12. PICK run \in Shape : run = runs[r] /\ Tidy(run)
    BY <1>3, TidyRun
  <1>13. /\ Beside(said, new)
         /\ said.overflow => new.overflow
         /\ new.requested = said.requested /\ new.resolved = said.resolved
    BY <1>7, <1>11, EmitTidy, BesideItself DEF Beside
  <1>14. Beside(runs[r], new) /\ Accounts(new, PendingOf(r, P))
    BY <1>11, <1>13 DEF Beside, Accounts
  <1>15. PendingOf(r, P) = {}
    BY <1>5, <1>9 DEF PendingOf
  <1>16. /\ over \in Shape /\ Tidy(over) /\ over.thread = new.thread
         /\ over.requested = new.requested /\ over.resolved = new.resolved /\ over.overflow = new.overflow
         /\ IF new.phase # "active" THEN over = new ELSE over.phase = result
    BY <1>8, <1>14, FinishTidy DEF Beside
  <1>17. /\ over.thread = runs[r].thread /\ over.phase # "active"
         /\ Waits(over) <=> Waits(runs[r])
         /\ \A T : Accounts(over, T)
    BY <1>4, <1>14, <1>15, <1>16, TerminalsApart DEF Beside, Accounts, Waits, Terminals
  <1>18. /\ UNCHANGED <<startingByThread, forks, interactions, answering>> /\ pump'.state = "next"
    BY DEF PumpTerminal, PumpDone
  <1>19. /\ [runs EXCEPT ![r] = IF type \in MappedToEvents THEN Emit(EmitResolved(runs[r], S)) ELSE EmitResolved(runs[r], S)]
              = [runs EXCEPT ![r] = new]
         /\ [[runs EXCEPT ![r] = new] EXCEPT ![r] = Finish(@, MapTerminal[type])] = [runs EXCEPT ![r] = over]
    BY <1>3, <1>4, <1>6, <1>7, <1>8 DEF Inv, RunsInv
  <1>20. \/ ~closed /\ AbortConnection([runs EXCEPT ![r] = new], P)
         \/ /\ runs' = [runs EXCEPT ![r] = over] /\ activeByTurn' = activeByTurn \ {r}
            /\ activeByThread' = [t \in Threads |-> IF activeByThread[t] = r THEN NoRun ELSE activeByThread[t]]
            /\ ForgetPending(S) /\ Abandon(WiresOf(S)) /\ UNCHANGED <<closed, transport, inbound, wireResponding>>
    BY <1>1, <1>2, <1>5, <1>9, <1>19 DEF PumpTerminal
  <1>21. CASE ~closed /\ AbortConnection([runs EXCEPT ![r] = new], P)
    BY <1>3, <1>11, <1>14, <1>18, <1>21, AbortOne
  <1>22. CASE /\ runs' = [runs EXCEPT ![r] = over] /\ activeByTurn' = activeByTurn \ {r}
              /\ activeByThread' = [t \in Threads |-> IF activeByThread[t] = r THEN NoRun ELSE activeByThread[t]]
              /\ ForgetPending(S) /\ Abandon(WiresOf(S)) /\ UNCHANGED <<closed, transport, inbound, wireResponding>>
    <2>1. \A q \in Runs : runs'[q] = IF q = r THEN over ELSE runs[q]
      BY <1>22 DEF Inv, RunsInv
    <2>2. TidyInv'
      BY <1>16, <2>1 DEF Whole, TidyInv
    <2>3. pendingByLocalId' = P
      BY <1>9, <1>22 DEF ForgetPending
    <2>4. \A q : PendingOf(q, pendingByLocalId)' = PendingOf(q, P)
      BY <1>18, <2>3, PendingKept
    <2>5. AccountInv'
      BY <1>11, <1>17, <2>1, <2>4 DEF Whole, AccountInv
    <2>6. Registered(runs, activeByThread, activeByTurn, startingByThread) /\ ThreadTypes
      BY DEF Whole, ThreadInv
    <2>7. Registered(runs', activeByThread', activeByTurn', startingByThread')
      BY <1>17, <1>22, <2>1, <2>6, <1>18 DEF Registered, ThreadTypes
    <2>8. ThreadInv'
      BY <1>18, <1>22, <2>6, <2>7 DEF ThreadTypes, Whole, ThreadInv, OneHolds
    <2>9. RunsWhole'
      BY <2>2, <2>5, <2>8 DEF RunsWhole
    <2>10. CASE ~closed
      <3>1. \A w : ~InHand(w) /\ ~Refusing(w)
        BY <1>2, <1>3 DEF InHand, Refusing
      <3>2. \A q \in pendingByLocalId \ S : Active(interactions[q].run)'
        BY PendingRuns, <2>10, <1>5, <1>18, <2>1 DEF Inv, TablesInv, Whole, RouteInv, PendingOf, Active
      <3>3. WireWhole'
        BY <1>10, <1>18, <1>22, <2>10, <3>1, <3>2, ForgetWire
      <3> QED BY <2>9, <3>3 DEF Whole, RunsWhole, WireWhole
    <2>11. CASE closed
      BY <1>22, <2>11, <2>9, ClosedWire DEF Whole, WireTypes, Abandon, RunsWhole, WireWhole
    <2> QED BY <2>10, <2>11
  <1> QED BY <1>20, <1>21, <1>22

-------------------------------------------------------------------------------
(* The end of the connection, and every step. *)

LEMMA AbortStepsWhole ==
  ASSUME Inv, Whole,
         \/ Close \/ PumpThrows
         \/ \E t \in Threads : ForkUncertain(t)
         \/ \E r \in Runs : Watchdog(r)
  PROVE  Whole'
  <1>1. forks \in [Threads -> {"none", "read", "fork"}]
    BY DEF Whole, ThreadInv, ThreadTypes
  <1>2. /\ AbortConnection(runs, pendingByLocalId) /\ UNCHANGED <<startingByThread, interactions>>
        /\ \/ UNCHANGED forks
           \/ \E t \in Threads : forks' = [forks EXCEPT ![t] = "none"]
    BY DEF Close, PumpThrows, ForkUncertain, ForkVars, Watchdog, CancelVars
  <1>3. /\ forks' \in [Threads -> {"none", "read", "fork"}]
        /\ \A t \in Threads : forks'[t] = "none" \/ forks'[t] = forks[t]
    BY <1>1, <1>2
  <1> QED BY <1>2, <1>3, AbortStill

LEMMA PumpEndsWhole ==
  ASSUME Inv, Whole, PumpEnds
  PROVE  Whole'
  <1>1. CASE PumpThrows
    BY <1>1, AbortStepsWhole
  <1>2. CASE ~PumpThrows
    <2>1. /\ UNCHANGED <<closed, runs, threadVars, forks, interactions, pendingByLocalId, pendingByWireKey,
                         answering, transport, inbound, wireVars>>
          /\ pump.state = "next" /\ pump'.state = "stopped"
      BY <1>2 DEF PumpEnds, runVars, interVars, threadVars
    <2>2. \A w : ~InHand(w) /\ ~Refusing(w)
      BY <2>1 DEF InHand, Refusing
    <2>3. RunsWhole'
      BY <2>1, StillWhole
    <2>4. WireWhole'
      BY <2>1, <2>2, PumpLeaves DEF Active
    <2> QED BY <2>3, <2>4 DEF Whole, RunsWhole, WireWhole
  <1> QED BY <1>1, <1>2

(* Steps of Runs that leave interactions and the wire alone. *)
LEMMA RunsOnlyWhole ==
  ASSUME Inv, Whole, RunsWhole', UNCHANGED <<closed, interVars, pump, transport, inbound, wireVars>>,
         \A q \in Runs : Active(q) => Active(q)'
  PROVE  Whole'
  BY WireStill DEF Whole, RunsWhole, WireWhole

LEMMA RunStepsWhole ==
  ASSUME Inv, Whole, NEW r \in Runs,
         \/ \E t \in Threads : StartRun(r, t)
         \/ TurnStartSettles(r) \/ StartFails(r) \/ RunStarts(r)
         \/ Cancel(r) \/ CancelResumes(r) \/ InterruptAcknowledged(r) \/ CancelSettles(r) \/ ReadEvent(r)
  PROVE  Whole'
  <1>1. CASE (\E t \in Threads : StartRun(r, t)) \/ TurnStartSettles(r) \/ StartFails(r)
    BY <1>1, CallStepsWhole, RunsOnlyWhole DEF StartRun, TurnStartSettles, StartFails
  <1>2. CASE RunStarts(r)
    BY <1>2, RunStartsWhole, RunsOnlyWhole DEF RunStarts
  <1>3. CASE Cancel(r) \/ CancelResumes(r) \/ InterruptAcknowledged(r) \/ CancelSettles(r)
    <2>1. RunsWhole'
      BY <1>3, CancelStepsWhole
    <2>2. UNCHANGED <<closed, activeByTurn, interVars, pump, transport, inbound, wireVars>>
      BY <1>3 DEF Cancel, CancelResumes, InterruptAcknowledged, CancelSettles, OnlyRuns
    <2>3. /\ \A q \in Runs : runs[q].phase = "active" <=> q \in activeByTurn
          /\ \A q \in Runs : runs'[q].phase = "active" <=> q \in activeByTurn'
      BY <2>1 DEF Whole, RunsWhole, ThreadInv, Registered
    <2>4. \A q \in Runs : Active(q) => Active(q)'
      BY <2>2, <2>3 DEF Active
    <2> QED BY <2>1, <2>2, <2>4, RunsOnlyWhole
  <1>4. CASE ReadEvent(r)
    BY <1>4, ReadWhole, RunsOnlyWhole DEF OnlyRuns
  <1> QED BY <1>1, <1>2, <1>3, <1>4

LEMMA TimerStepsWhole ==
  ASSUME Inv, Whole, NEW r \in Runs, RunTimeout(r) \/ InterruptFails(r)
  PROVE  Whole'
  <1>1. Whole' \/ (RunsWhole' /\ OnlyRuns /\ \A q \in Runs : Active(q)' <=> Active(q))
    BY RunTimeoutWhole, InterruptFailsWhole
  <1>2. CASE RunsWhole' /\ OnlyRuns /\ \A q \in Runs : Active(q)' <=> Active(q)
    BY <1>2, RunsOnlyWhole DEF OnlyRuns
  <1> QED BY <1>1, <1>2

LEMMA ForkStepsWhole ==
  ASSUME Inv, Whole, NEW t \in Threads, Fork(t) \/ ForkRequested(t) \/ ForkEnds(t)
  PROVE  Whole'
  <1>1. UNCHANGED <<closed, runs, interVars, pump, transport, inbound, wireVars>>
    BY DEF Fork, ForkRequested, ForkEnds, runVars
  <1>2. \A q \in Runs : Active(q) => Active(q)'
    BY <1>1 DEF Active
  <1> QED BY <1>1, <1>2, ForkWhole, RunsOnlyWhole

(* Messages move on the wire only. *)
LEMMA MessageStepsWhole ==
  ASSUME Inv, Whole,
         \/ \E m \in Messages : ProviderSends(m)
         \/ PumpTakes \/ PumpRoutes \/ PumpResumes \/ PumpUnrouted \/ PumpRefuses \/ PumpRefused
  PROVE  Whole'
  <1>1. UNCHANGED <<runs, threadVars, forks, pendingByLocalId, interactions>>
    BY DEF ProviderSends, PumpTakes, PumpRoutes, PumpResumes, PumpUnrouted, PumpRefuses, PumpRefused,
           runVars, interVars, threadVars
  <1>2. RunsWhole'
    BY <1>1, StillWhole
  <1>3. WireWhole'
    BY SendWire, TakeWire, RouteWire, PumpUnroutedWire, RefuseWire, RefusedWire
  <1> QED BY <1>2, <1>3 DEF Whole, RunsWhole, WireWhole

LEMMA StepWhole == ASSUME Inv, Whole, [Next]_vars PROVE Whole'
  <1>1. CASE UNCHANGED vars
    BY <1>1, StillWhole, RunsOnlyWhole DEF vars, runVars, interVars, threadVars, Active
  <1>2. CASE HostStep
    BY <1>2, AbortStepsWhole, RunStepsWhole, ForkStepsWhole, RespondWhole DEF HostStep
  <1>3. CASE ProviderStep
    BY <1>3, TransportFailsWhole, MessageStepsWhole, RunStepsWhole, ForkStepsWhole DEF ProviderStep
  <1>4. CASE LoopStep
    <2>1. ASSUME NEW r \in Runs, RunContinues(r) PROVE Whole'
      BY <2>1, RunStepsWhole, ReusedTurnWhole DEF RunContinues
    <2>2. ASSUME NEW t \in Threads, ForkEnds(t) \/ ForkUncertain(t) PROVE Whole'
      BY <2>2, ForkStepsWhole, AbortStepsWhole
    <2>3. ASSUME NEW r \in Runs, InterruptFails(r) \/ RunTimeout(r) \/ Watchdog(r) PROVE Whole'
      BY <2>3, TimerStepsWhole, AbortStepsWhole
    <2>4. ASSUME NEW s \in answering, Responded(s) \/ RespondFails(s) PROVE Whole'
      BY <2>4, RespondedWhole, RespondFailsWhole
    <2>5. CASE PumpStep
      BY AbortStepsWhole, PumpEndsWhole, MessageStepsWhole, <2>5, PumpResolvedWhole, PumpStartedWhole, PumpUpdateWhole,
         PumpRequestWhole, PumpTerminalWhole
         DEF PumpRefusalFails, PumpStep
    <2> QED BY <1>4, <2>1, <2>2, <2>3, <2>4, <2>5 DEF LoopStep, LaterStep
  <1> QED BY <1>1, <1>2, <1>3, <1>4 DEF Next

LEMMA InitWhole == Init => Whole
  <1> SUFFICES ASSUME Init PROVE Whole
    OBVIOUS
  <1>1. TidyInv /\ AccountInv
    BY CapacityAssumption
    DEF CapacityAssumption, Init, TidyInv, Tidy, QueueFits, CancelTrue, Unheard, AccountInv, Accounts, Terminals
  <1>2. ThreadInv
    BY NullAssumption DEF NullAssumption, Init, ThreadInv, ThreadTypes, Registered, Waits, OneHolds
  <1>3. inbound = <<>> /\ Len(inbound) = 0
    BY DEF Init
  <1>4. WireTypes
    BY DEF Init, WireTypes
  <1>5. \A w : ~Queued(w) /\ ~InHand(w) /\ ~Refusing(w)
    BY <1>3 DEF Init, Queued, InHand, Refusing
  <1>6. RouteInv /\ CarriedInv
    BY <1>3, <1>5 DEF Init, RouteInv, CarriedInv
  <1>7. HeldInv
    BY <1>5 DEF Init, HeldInv, Answering
  <1> QED BY <1>1, <1>2, <1>4, <1>6, <1>7 DEF Whole

-------------------------------------------------------------------------------
(* What the invariants give. *)

LEMMA Typed == ASSUME Inv, Whole PROVE TypeOK
  <1>1. runs \in [Runs -> RunRecord]
    BY TidyRun, CapacityAssumption
       DEF CapacityAssumption, Tidy, QueueFits, Shape, RunRecord, Phases, CancelWaits, Terminals, Inv, RunsInv
  <1>2. pendingByWireKey \in [WireIds -> 0..Len(interactions)]
    BY LenProperties DEF Inv, TablesInv
  <1> QED BY <1>1, <1>2 DEF Inv, TablesInv, PumpInv, Whole, ThreadInv, ThreadTypes, WireTypes, TypeOK

(* A Run that occupies a Thread is the one registered for it. *)
LEMMA Exclusive == ASSUME Inv, Whole PROVE ThreadExclusive
  <1>1. /\ Registered(runs, activeByThread, activeByTurn, startingByThread)
        /\ OneHolds(activeByThread, startingByThread, forks) /\ activeByTurn \subseteq Runs
    BY DEF Whole, ThreadInv, ThreadTypes
  <1>2. ASSUME NEW t \in Threads
        PROVE  Cardinality({r \in Runs : Occupies(r, t)}) + (IF forks[t] = "none" THEN 0 ELSE 1) <= 1
    <2>1. PICK S : S = {r \in Runs : Occupies(r, t)}
      OBVIOUS
    <2>2. \A r \in S : /\ r \in Runs
                       /\ activeByThread[t] = r \/ startingByThread[t] = r
      BY <1>1, <2>1 DEF Occupies, Registered, Waits
    <2>3. \A r, q \in S : r = q
      BY <1>1, <2>2, NullAssumption DEF NullAssumption, OneHolds
    <2>4. CASE S = {}
      BY <2>1, <2>4, FS_EmptySet
    <2>5. CASE S # {}
      <3>1. PICK r \in S : TRUE
        BY <2>5
      <3>2. S = {r}
        BY <2>3, <3>1
      <3>3. Cardinality(S) = 1
        BY <3>2, FS_Singleton
      <3>4. forks[t] = "none"
        BY <1>1, <2>2, <3>1, NullAssumption DEF NullAssumption, OneHolds
      <3> QED BY <2>1, <3>3, <3>4
    <2> QED BY <2>4, <2>5
  <1> QED BY <1>1, <1>2 DEF ThreadExclusive, Registered, Active

LEMMA Routable == ASSUME Inv, Whole PROVE InteractionsRoutable
  <1> SUFFICES ASSUME ~closed PROVE InteractionsRoutable
    BY DEF InteractionsRoutable
  <1>1. ASSUME NEW s \in pendingByLocalId
        PROVE  /\ Active(interactions[s].run)
               /\ pendingByWireKey[interactions[s].wire] = s
               /\ transport = "open" => interactions[s].wire \in wirePending
    <2>1. Active(interactions[s].run) /\ pendingByWireKey[interactions[s].wire] = s
      BY DEF Whole, RouteInv
    <2>2. interactions[s].wire \in WireIds /\ s # 0
      <3>1. interactions \in Seq([wire: WireIds, run: Runs]) /\ s \in 1..Len(interactions)
        BY DEF Inv, TablesInv
      <3>2. interactions[s] \in [wire: WireIds, run: Runs]
        BY <3>1, ElementOfSeq
      <3> QED BY <3>1, <3>2
    <2>3. transport = "open" => interactions[s].wire \in wirePending
      BY <2>1, <2>2 DEF Whole, HeldInv
    <2> QED BY <2>1, <2>3
  <1>2. ASSUME NEW w \in wirePending
        PROVE  Queued(w) \/ InHand(w) \/ pendingByWireKey[w] # 0 \/ w \in wireResponding
    BY DEF Whole, WireTypes, HeldInv
  <1> QED BY <1>1, <1>2 DEF InteractionsRoutable, Queued, InHand

LEMMA WholeIsSound == ASSUME Inv, Whole PROVE RunsSound
  <1>1. CancelTruthful
    BY DEF Whole, TidyInv, Tidy, CancelTrue, CancelTruthful
  <1>2. InteractionsResolved
    BY DEF Whole, AccountInv, Accounts, InteractionsResolved, Terminal
  <1> QED BY <1>1, <1>2, Typed, Exclusive, Routable DEF RunsSound

(* For any number of Threads, Runs and interactions and every queue capacity: two Runs and a native  *)
(* fork never hold one Thread; no queue is exceeded; the result of cancel() is what became of the    *)
(* Run; an answer reaches the interaction it is for, though wire ids are used again; the end of a    *)
(* Run leaves no reservation in the transport and no interaction of its stream unresolved.           *)
THEOREM CodexRunsSound == Spec => []RunsSound
  <1>1. Init => Inv /\ Whole
    BY InitHolds, InitWhole
  <1>2. Inv /\ Whole /\ [Next]_vars => Inv' /\ Whole'
    BY StepKeeps, StepWhole
  <1>3. Inv /\ Whole => RunsSound
    BY WholeIsSound
  <1> QED BY <1>1, <1>2, <1>3, PTL DEF Spec

-------------------------------------------------------------------------------
(* A Run of CodexAdapter ends by a message of its own Turn and as that says, or with the connection  *)
(* (EndsByItsTurn). It rests on the invariants above and on PumpByTurn.                             *)

(* The pump hands a message to the Run of its Turn, or to none. *)
PumpByTurn == pump.state = "routed" => pump.run \in {NoRun, pump.message.turn}

LEMMA StepByTurn == ASSUME Inv, PumpByTurn, [Next]_vars PROVE PumpByTurn'
  <1>1. \/ UNCHANGED pump
        \/ pump' \in {[state |-> "stopped"], [state |-> "next"]}
        \/ PumpTakes \/ PumpRoutes \/ PumpResumes \/ PumpRefuses
    BY DEF Next, vars, HostStep, ProviderStep, LoopStep, LaterStep, RunContinues, PumpStep, PumpDone, PumpThrows,
           Close, StartRun, Cancel, ReadEvent, OnlyRuns, Fork, Respond, TransportFails, ProviderSends,
           TurnStartSettles, InterruptAcknowledged, ForkRequested, RunStarts, ReusedTurn, StartFails,
           CancelResumes, CancelSettles, ForkEnds, ForkUncertain, ForkVars, InterruptFails, RunTimeout,
           Watchdog, CancelVars, Responded, RespondFails, PumpResolved, PumpUnrouted, PumpRefused,
           PumpRefusalFails, PumpStarted, PumpUpdate, PumpRequest, PumpTerminal, PumpEnds
  <1>2. CASE PumpRoutes
    BY <1>2 DEF PumpRoutes, PumpByTurn, Routed, Routing, Route
  <1>3. CASE PumpResumes
    BY <1>3 DEF PumpResumes, PumpByTurn, Routed, Route
  <1> QED BY <1>1, <1>2, <1>3 DEF PumpByTurn, PumpTakes, PumpRefuses

(* A Run that goes on, or that ends with the connection. *)
GoesOn(r) == Active(r) => Active(r)' \/ (runs'[r].phase = "connection_aborted" /\ closed')

LEMMA AbortEnds ==
  ASSUME Inv, Whole, NEW now \in [Runs -> Shape], \A r \in Runs : Tidy(now[r]),
         \A r \in Runs : Active(r) => now[r].phase = "active",
         NEW P \in SUBSET pendingByLocalId, AbortConnection(now, P)
  PROVE  \A r \in Runs : GoesOn(r)
  <1> SUFFICES ASSUME NEW r \in Runs, Active(r)
               PROVE  Active(r)' \/ (runs'[r].phase = "connection_aborted" /\ closed')
    BY DEF GoesOn
  <1>1. CASE closed
    BY <1>1 DEF AbortConnection, Active
  <1>2. CASE ~closed
    <2>1. closed' /\ runs' = AbortRuns(now, P) /\ r \in activeByTurn
      BY <1>2 DEF AbortConnection, Whole, ThreadInv, Registered, Active
    <2>2. PICK said : said = EmitResolved(now[r], PendingOf(r, P))
      OBVIOUS
    <2>3. PICK over : over = Finish(said, "connection_aborted")
      OBVIOUS
    <2>4. runs'[r] = RejectStarting(over)
      BY <2>1, <2>2, <2>3 DEF AbortRuns
    <2>5. said \in Shape /\ Tidy(said) /\ said.phase = "active"
      <3>1. PICK S \in SUBSET (1..Len(interactions)) : S = PendingOf(r, P)
        BY DEF PendingOf, Inv, TablesInv
      <3>2. Len(interactions) \in Nat
        BY LenProperties DEF Inv, TablesInv
      <3>3. Beside(now[r], said)
        BY <2>2, <3>1, <3>2, EmitResolvedTidy
      <3> QED BY <3>3 DEF Beside
    <2>6. over.phase = "connection_aborted"
      BY <2>3, <2>5, FinishTidy DEF Terminals
    <2> QED BY <2>1, <2>4, <2>6 DEF RejectStarting
  <1> QED BY <1>1, <1>2

(* A step that moves one Run, and may find its queue full. *)
LEMMA OneGoesOn ==
  ASSUME Inv, Whole, NEW r \in Runs, NEW new, Beside(runs[r], new), NEW P \in SUBSET pendingByLocalId,
         runs' = [runs EXCEPT ![r] = new] \/ AbortConnection([runs EXCEPT ![r] = new], P)
  PROVE  \A q \in Runs : GoesOn(q)
  <1>1. PICK now : now = [runs EXCEPT ![r] = new]
    OBVIOUS
  <1>2. /\ now \in [Runs -> Shape] /\ \A q \in Runs : Tidy(now[q])
        /\ \A q \in Runs : now[q].phase = runs[q].phase
    BY <1>1 DEF Beside, Inv, RunsInv, Whole, TidyInv
  <1>3. CASE runs' = now
    BY <1>2, <1>3 DEF GoesOn, Active
  <1>4. CASE AbortConnection(now, P)
    BY <1>2, <1>4, AbortEnds DEF Active
  <1> QED BY <1>1, <1>3, <1>4

(* The connection ends at the state the Runs are in. *)
LEMMA StillEnds ==
  ASSUME Inv, Whole, AbortConnection(runs, pendingByLocalId)
  PROVE  \A q \in Runs : GoesOn(q)
  <1>1. runs \in [Runs -> Shape] /\ \A r \in Runs : Tidy(runs[r])
    BY DEF Inv, RunsInv, Whole, TidyInv
  <1>2. PICK P \in SUBSET pendingByLocalId : P = pendingByLocalId
    OBVIOUS
  <1> QED BY <1>1, <1>2, AbortEnds DEF Active

-------------------------------------------------------------------------------
(* Every step but turn/completed. *)

LEMMA RunsStayGoOn == ASSUME UNCHANGED runs PROVE \A q \in Runs : GoesOn(q)
  BY DEF GoesOn, Active

LEMMA RunStepsGoOn ==
  ASSUME Inv, Whole, NEW r \in Runs,
         \/ \E t \in Threads : StartRun(r, t)
         \/ TurnStartSettles(r) \/ StartFails(r) \/ RunStarts(r)
         \/ Cancel(r) \/ CancelResumes(r) \/ InterruptAcknowledged(r) \/ CancelSettles(r) \/ ReadEvent(r)
  PROVE  \A q \in Runs : GoesOn(q)
  <1>1. CASE Cancel(r) \/ CancelResumes(r) \/ InterruptAcknowledged(r) \/ CancelSettles(r)
    <2>1. RunsWhole'
      BY <1>1, CancelStepsWhole
    <2>2. UNCHANGED activeByTurn
      BY <1>1 DEF Cancel, CancelResumes, InterruptAcknowledged, CancelSettles, OnlyRuns
    <2>3. /\ \A q \in Runs : runs[q].phase = "active" <=> q \in activeByTurn
          /\ \A q \in Runs : runs'[q].phase = "active" <=> q \in activeByTurn'
      BY <2>1 DEF Whole, RunsWhole, ThreadInv, Registered
    <2> QED BY <2>2, <2>3 DEF GoesOn, Active
  <1>2. CASE \/ (\E t \in Threads : StartRun(r, t)) \/ TurnStartSettles(r) \/ StartFails(r)
             \/ RunStarts(r) \/ ReadEvent(r)
    BY <1>2, CallStepsWhole, RunStartsWhole, ReadWhole DEF GoesOn
  <1> QED BY <1>1, <1>2

LEMMA TimerStepsGoOn ==
  ASSUME Inv, Whole, NEW r \in Runs, RunTimeout(r) \/ InterruptFails(r)
  PROVE  \A q \in Runs : GoesOn(q)
  <1>1. PICK late \in BOOLEAN : \E c :
          /\ CancelFits(runs[r], c)
          /\ \/ runs' = [runs EXCEPT ![r].timedOut = late, ![r].cancel = c]
             \/ AbortConnection([runs EXCEPT ![r].timedOut = late, ![r].cancel = c], pendingByLocalId)
    <2>1. CASE RunTimeout(r)
      <3>1. PICK c : c = IF runs[r].cancel = "none" THEN "waitStart" ELSE runs[r].cancel
        OBVIOUS
      <3>2. CancelFits(runs[r], c)
        BY <3>1, TidyRun DEF Shape, CancelWaits, Tidy, CancelTrue, CancelFits
      <3>3. [runs EXCEPT ![r].timedOut = TRUE, ![r].cancel = IF @ = "none" THEN "waitStart" ELSE @]
              = [runs EXCEPT ![r].timedOut = TRUE, ![r].cancel = c]
        BY <3>1, RunShape DEF Shape, Inv, RunsInv
      <3> QED BY <2>1, <3>2, <3>3 DEF RunTimeout
    <2>2. CASE InterruptFails(r)
      <3>1. PICK c : c = IF runs[r].phase = "connection_aborted" THEN "connection_aborted" ELSE "error"
        OBVIOUS
      <3>2. CancelFits(runs[r], c)
        BY <3>1 DEF CancelFits
      <3>3. runs[r].timedOut \in BOOLEAN
        BY TidyRun DEF Shape
      <3>4. [runs EXCEPT ![r].cancel = c] = [runs EXCEPT ![r].timedOut = runs[r].timedOut, ![r].cancel = c]
        BY RunShape DEF Shape, Inv, RunsInv
      <3>5. \/ runs' = [runs EXCEPT ![r].cancel = c]
            \/ AbortConnection([runs EXCEPT ![r].cancel = c], pendingByLocalId)
        BY <2>2, <3>1 DEF InterruptFails
      <3> QED BY <3>2, <3>3, <3>4, <3>5
    <2> QED BY <2>1, <2>2
  <1>2. PICK c : /\ CancelFits(runs[r], c)
                 /\ \/ runs' = [runs EXCEPT ![r].timedOut = late, ![r].cancel = c]
                    \/ AbortConnection([runs EXCEPT ![r].timedOut = late, ![r].cancel = c], pendingByLocalId)
    BY <1>1
  <1>3. PICK new : new = [runs[r] EXCEPT !.timedOut = late, !.cancel = c]
    OBVIOUS
  <1>4. Beside(runs[r], new)
    BY <1>2, <1>3, CancelTidy
  <1>5. [runs EXCEPT ![r].timedOut = late, ![r].cancel = c] = [runs EXCEPT ![r] = new]
    BY <1>3, RunShape DEF Shape, Inv, RunsInv
  <1>6. PICK P \in SUBSET pendingByLocalId : P = pendingByLocalId
    OBVIOUS
  <1> QED BY <1>2, <1>4, <1>5, <1>6, OneGoesOn

LEMMA ReusedTurnGoesOn ==
  ASSUME Inv, Whole, NEW r \in Runs, ReusedTurn(r)
  PROVE  \A q \in Runs : GoesOn(q)
  <1>1. PICK t \in Threads \cup {NoThread} : t = runs[r].thread
    BY RunShape DEF Shape
  <1>2. PICK new : new = [runs[r] EXCEPT !.phase = "refused", !.thread = t]
    OBVIOUS
  <1>3. PICK now : now = [runs EXCEPT ![r] = new]
    OBVIOUS
  <1>4. [runs EXCEPT ![r].phase = "refused"] = now
    BY <1>1, <1>2, <1>3, RunShape DEF Shape, Inv, RunsInv
  <1>5. AbortConnection(now, pendingByLocalId) /\ runs[r].phase \notin {"active"} \cup Terminals
    BY <1>4 DEF ReusedTurn, Terminals
  <1>6. CalledAs(new, "refused", t)
    BY <1>2, <1>5, CallTidy
  <1>7. /\ now \in [Runs -> Shape] /\ \A q \in Runs : Tidy(now[q])
        /\ \A q \in Runs : Active(q) => now[q].phase = "active"
    BY <1>3, <1>5, <1>6 DEF CalledAs, Called, Whole, TidyInv, Inv, RunsInv, Active
  <1>8. PICK P \in SUBSET pendingByLocalId : P = pendingByLocalId
    OBVIOUS
  <1> QED BY <1>5, <1>7, <1>8, AbortEnds

LEMMA TransportFailsGoesOn ==
  ASSUME TransportFails
  PROVE  \A q \in Runs : GoesOn(q)
  BY DEF TransportFails, RejectStarting, GoesOn, Active

(* An interaction resolved by the host or by the Provider. *)
LEMMA ResolvedGoesOn ==
  ASSUME Inv, Whole, NEW s \in pendingByLocalId,
         \/ UNCHANGED runs
         \/ LET r == interactions[s].run
                now == [runs EXCEPT ![r] = EmitResolved(@, {s})]
            IN runs' = now \/ AbortConnection(now, pendingByLocalId \ {s})
  PROVE  \A q \in Runs : GoesOn(q)
  <1>1. PICK r \in Runs : r = interactions[s].run
    BY PendingRuns DEF Inv, TablesInv
  <1>2. PICK S : S = {s}
    OBVIOUS
  <1>3. PICK new : new = EmitResolved(runs[r], S)
    OBVIOUS
  <1>4. PICK P \in SUBSET pendingByLocalId : P = pendingByLocalId \ S
    OBVIOUS
  <1>5. S \in SUBSET PendingOf(r, pendingByLocalId)
    BY <1>1, <1>2 DEF PendingOf
  <1>6. Beside(runs[r], new)
    BY <1>3, <1>4, <1>5, ResolvedAccounts
  <1>7. [runs EXCEPT ![r] = EmitResolved(@, {s})] = [runs EXCEPT ![r] = new]
    BY <1>2, <1>3 DEF Inv, RunsInv
  <1>8. \/ UNCHANGED runs
        \/ runs' = [runs EXCEPT ![r] = new]
        \/ AbortConnection([runs EXCEPT ![r] = new], P)
    BY <1>1, <1>2, <1>4, <1>7
  <1> QED BY <1>6, <1>8, OneGoesOn, RunsStayGoOn

LEMMA AnswersGoOn ==
  ASSUME Inv, Whole, PumpResolved \/ \E s \in answering : Responded(s)
  PROVE  \A q \in Runs : GoesOn(q)
  <1>1. CASE PumpResolved
    <2>1. PICK s : s = pendingByWireKey[pump.message.wire]
      OBVIOUS
    <2>2. s # 0 => s \in pendingByLocalId
      BY <1>1, MessageWire, <2>1 DEF PumpResolved, Takes, Inv, PumpInv, TablesInv
    <2>3. CASE s = 0
      BY <1>1, <2>1, <2>3, RunsStayGoOn DEF PumpResolved
    <2>4. CASE s # 0
      BY <1>1, <2>1, <2>2, <2>4, ResolvedGoesOn DEF PumpResolved, UnlessFull
    <2> QED BY <2>3, <2>4
  <1>2. CASE \E s \in answering : Responded(s)
    <2>1. PICK s \in answering : Responded(s)
      BY <1>2
    <2>2. CASE s \in pendingByLocalId
      BY <2>1, <2>2, ResolvedGoesOn DEF Responded, UnlessFull
    <2>3. CASE s \notin pendingByLocalId
      BY <2>1, <2>3, RunsStayGoOn DEF Responded
    <2> QED BY <2>2, <2>3
  <1> QED BY <1>1, <1>2

(* Messages of a Turn that end nothing. *)
LEMMA PumpGoesOn ==
  ASSUME Inv, Whole, PumpStarted \/ PumpUpdate \/ PumpRequest
  PROVE  \A q \in Runs : GoesOn(q)
  <1>1. PICK r \in Runs : r = pump.run
    BY DEF PumpStarted, PumpUpdate, PumpRequest, Handles, Inv, PumpInv
  <1>2. PICK P \in SUBSET pendingByLocalId : P = pendingByLocalId
    OBVIOUS
  <1>3. CASE PumpStarted
    BY <1>1, <1>3, RunShape DEF PumpStarted, GoesOn, Active, Shape, Inv, RunsInv
  <1>4. CASE PumpUpdate
    <2>1. PICK new : new = Emit(runs[r])
      OBVIOUS
    <2>2. Beside(runs[r], new)
      BY <2>1, TidyRun, EmitTidy
    <2>3. [runs EXCEPT ![r] = Emit(@)] = [runs EXCEPT ![r] = new]
      BY <2>1 DEF Inv, RunsInv
    <2>4. runs' = [runs EXCEPT ![r] = new] \/ AbortConnection([runs EXCEPT ![r] = new], P)
      BY <1>1, <1>2, <1>4, <2>3 DEF PumpUpdate, UnlessFull
    <2> QED BY <2>2, <2>4, OneGoesOn
  <1>5. CASE PumpRequest
    <2>1. PICK s \in Nat : s = Len(interactions) + 1
      BY LenProperties DEF Inv, TablesInv
    <2>2. PICK new : new = EmitRequested(runs[r], s)
      OBVIOUS
    <2>3. Beside(runs[r], new)
      BY <2>2, TidyRun, EmitRequestedTidy
    <2>4. [runs EXCEPT ![r] = EmitRequested(@, s)] = [runs EXCEPT ![r] = new]
      BY <2>2 DEF Inv, RunsInv
    <2>5. runs' = [runs EXCEPT ![r] = new] \/ AbortConnection([runs EXCEPT ![r] = new], P)
      BY <1>1, <1>2, <1>5, <2>1, <2>4 DEF PumpRequest, UnlessFull
    <2> QED BY <2>3, <2>5, OneGoesOn
  <1> QED BY <1>3, <1>4, <1>5

(* turn/completed ends the Run it was routed to, and no other, as it says. *)
EndsAsSaid(q) ==
  pump.state = "routed" /\ pump.run = q /\ q # NoRun /\ runs'[q].phase = MapTerminal[pump.message.type]

LEMMA PumpTerminalEnds ==
  ASSUME Inv, Whole, PumpTerminal
  PROVE  \A q \in Runs : GoesOn(q) \/ EndsAsSaid(q)
  <1>1. PICK r : r = pump.run
    OBVIOUS
  <1>2. PICK type : type = pump.message.type
    OBVIOUS
  <1>3. r \in Runs /\ r # NoRun /\ pump.state = "routed" /\ MapTerminal[type] \in Terminals
    BY <1>1, <1>2 DEF PumpTerminal, Handles, Inv, PumpInv, TerminalMessages, MapTerminal, Terminals
  <1>4. PICK result \in Terminals : result = MapTerminal[type]
    BY <1>3
  <1>5. PICK S : S = PendingOf(r, pendingByLocalId)
    OBVIOUS
  <1>6. PICK said : said = EmitResolved(runs[r], S)
    OBVIOUS
  <1>7. PICK new : new = IF type \in MappedToEvents THEN Emit(said) ELSE said
    OBVIOUS
  <1>8. PICK over : over = Finish(new, result)
    OBVIOUS
  <1>9. PICK P \in SUBSET pendingByLocalId : P = pendingByLocalId \ S
    OBVIOUS
  <1>10. Beside(runs[r], said)
    BY <1>3, <1>5, <1>6, <1>9, ResolvedAccounts
  <1>11. Beside(runs[r], new)
    BY <1>7, <1>10, EmitTidy DEF Beside
  <1>12. IF new.phase # "active" THEN over = new ELSE over.phase = result
    BY <1>8, <1>11, FinishTidy DEF Beside
  <1>13. /\ [runs EXCEPT ![r] = IF type \in MappedToEvents THEN Emit(EmitResolved(runs[r], S))
                                ELSE EmitResolved(runs[r], S)] = [runs EXCEPT ![r] = new]
         /\ [[runs EXCEPT ![r] = new] EXCEPT ![r] = Finish(@, MapTerminal[type])] = [runs EXCEPT ![r] = over]
    BY <1>3, <1>4, <1>6, <1>7, <1>8 DEF Inv, RunsInv
  <1>14. AbortConnection([runs EXCEPT ![r] = new], P) \/ runs' = [runs EXCEPT ![r] = over]
    BY <1>1, <1>2, <1>5, <1>9, <1>13 DEF PumpTerminal
  <1>15. CASE AbortConnection([runs EXCEPT ![r] = new], P)
    BY <1>3, <1>11, <1>15, OneGoesOn
  <1>16. CASE runs' = [runs EXCEPT ![r] = over]
    <2>1. \A q \in Runs : runs'[q] = IF q = r THEN over ELSE runs[q]
      BY <1>16 DEF Inv, RunsInv
    <2>2. ASSUME Active(r) PROVE EndsAsSaid(r)
      BY <1>1, <1>2, <1>3, <1>4, <1>11, <1>12, <2>1, <2>2 DEF EndsAsSaid, Active, Beside
    <2> QED BY <2>1, <2>2 DEF GoesOn, Active
  <1> QED BY <1>14, <1>15, <1>16

LEMMA StepEnds == ASSUME Inv, Whole, [Next]_vars PROVE \A q \in Runs : GoesOn(q) \/ EndsAsSaid(q)
  <1>1. CASE UNCHANGED runs
    BY <1>1, RunsStayGoOn
  <1>2. CASE HostStep /\ ~UNCHANGED runs
    BY <1>2, StillEnds, RunStepsGoOn DEF HostStep, Close, Fork, Respond, runVars
  <1>3. CASE ProviderStep /\ ~UNCHANGED runs
    BY <1>3, TransportFailsGoesOn, RunStepsGoOn DEF ProviderStep, ProviderSends, ForkRequested, runVars
  <1>4. CASE LoopStep /\ ~UNCHANGED runs
    <2>1. ASSUME NEW r \in Runs, RunContinues(r) PROVE \A q \in Runs : GoesOn(q)
      BY <2>1, RunStepsGoOn, ReusedTurnGoesOn DEF RunContinues
    <2>2. ASSUME NEW t \in Threads, ForkEnds(t) \/ ForkUncertain(t) PROVE \A q \in Runs : GoesOn(q)
      BY <1>4, <2>2, StillEnds DEF ForkEnds, ForkUncertain, runVars
    <2>3. ASSUME NEW r \in Runs, InterruptFails(r) \/ RunTimeout(r) \/ Watchdog(r) PROVE \A q \in Runs : GoesOn(q)
      BY <2>3, TimerStepsGoOn, StillEnds DEF Watchdog
    <2>4. ASSUME NEW s \in answering, Responded(s) \/ RespondFails(s) PROVE \A q \in Runs : GoesOn(q)
      BY <1>4, <2>4, AnswersGoOn DEF RespondFails, runVars
    <2>5. CASE PumpStep
      <3>1. CASE PumpRefusalFails \/ PumpEnds
        BY <1>4, <3>1, StillEnds DEF PumpRefusalFails, PumpEnds, PumpThrows, runVars
      <3>2. CASE PumpTakes \/ PumpRoutes \/ PumpResumes \/ PumpUnrouted \/ PumpRefuses \/ PumpRefused
        BY <1>4, <3>2 DEF PumpTakes, PumpRoutes, PumpResumes, PumpUnrouted, PumpRefuses, PumpRefused, runVars
      <3> QED BY <2>5, <3>1, <3>2, AnswersGoOn, PumpGoesOn, PumpTerminalEnds DEF PumpStep
    <2> QED BY <1>4, <2>1, <2>2, <2>3, <2>4, <2>5 DEF LoopStep, LaterStep
  <1> QED BY <1>1, <1>2, <1>3, <1>4 DEF Next, vars, runVars

(* For any number of Threads, Runs and messages: an active Run ends with the connection, or by a     *)
(* turn/completed of its own Turn and as that says; late traffic, a message that waited for a        *)
(* startRun, or a full queue never ends another Run or turns an unknown status into success.         *)
THEOREM RunsEndByTheirTurn == Spec => EndsByItsTurn
  <1>1. Init => Inv /\ Whole /\ PumpByTurn
    BY InitHolds, InitWhole DEF Init, PumpByTurn
  <1>2. Inv /\ Whole /\ PumpByTurn /\ [Next]_vars => Inv' /\ Whole' /\ PumpByTurn'
    BY StepKeeps, StepWhole, StepByTurn
  <1>3. ASSUME Inv, Whole, PumpByTurn, [Next]_vars
        PROVE  \A r \in Runs : Active(r) /\ runs'[r].phase \in Terminals =>
                 \/ runs'[r].phase = "connection_aborted" /\ closed'
                 \/ /\ pump.message.turn = r
                    /\ runs'[r].phase = MapTerminal[pump.message.type]
    <2> SUFFICES ASSUME NEW r \in Runs, Active(r), runs'[r].phase \in Terminals
                 PROVE  \/ runs'[r].phase = "connection_aborted" /\ closed'
                        \/ pump.message.turn = r /\ runs'[r].phase = MapTerminal[pump.message.type]
      OBVIOUS
    <2>1. GoesOn(r) \/ EndsAsSaid(r)
      BY <1>3, StepEnds
    <2> QED BY <1>3, <2>1, TerminalsApart DEF GoesOn, EndsAsSaid, PumpByTurn, Active
  <1> QED BY <1>1, <1>2, <1>3, PTL DEF Spec, EndsByItsTurn

-------------------------------------------------------------------------------
(* The Client, its process and its Sessions. *)

(* The process and the transport come and go with connect(), a transport that ended has asked for    *)
(* the end of the process, and nothing but an exit counts as one.                                   *)
ProcessInv ==
  /\ connect = "idle" => child = "none" /\ wire = "none"
  /\ connect = "spawning" => child = "starting" /\ wire = "none"
  /\ connect \in {"initializing", "abandoning", "connected"} => child \in {"running", "exited"} /\ wire # "none"
  /\ connect = "abandoning" => wire = "ended"
  /\ connect = "failed" => child \in {"none", "exited"} \/ termination = "failed"
  /\ connect = "failed" => wire # "open"
  /\ child = "running" => wire # "none"
  /\ wire = "ended" <=> termination # "none"
  /\ termination = "done" => child = "exited"

(* close() has ended the transport, and settled as the process did. *)
ClosingInv ==
  /\ clientClosed => connect = "connected" /\ wire = "ended"
  /\ closing # "none" => clientClosed
  /\ closing = "resolved" => child = "exited"
  /\ closing = "rejected" => termination = "failed"

(* A call is one of a connected Client; a Session has a Thread the Client knows. *)
CallsInv ==
  \A c \in Calls :
    /\ calls[c].at # "idle" => connect = "connected"
    /\ calls[c].at = "resuming" => calls[c].thread \in Threads
    /\ sessions[c] # "none" => calls[c].at = "done" /\ calls[c].thread \in knownThreads

StartedInv ==
  /\ \A r \in Runs : turns[r].at # "none" => turns[r].on \in Calls
  /\ Client!ClosedSessionsIdle

ClientInv == Client!ClientTypeOK /\ ProcessInv /\ ClosingInv /\ CallsInv /\ StartedInv

LEMMA ClientInitInv == ASSUME Client!ClientInit PROVE ClientInv
  BY DEF Client!ClientInit, ClientInv, Client!ClientTypeOK, ProcessInv, ClosingInv, CallsInv, StartedInv,
         Client!ClosedSessionsIdle, Client!Waiting, Client!Ended

LEMMA ClientTypeIsKept == ASSUME ClientInv, [Client!ClientNext]_(Client!clientVars) PROVE Client!ClientTypeOK'
  <1>1. Client!ClientTypeOK
    BY DEF ClientInv
  <1>2. CASE UNCHANGED Client!clientVars
    BY <1>1, <1>2 DEF Client!ClientTypeOK, Client!clientVars, Client!processVars, Client!sessionVars
  <1>3. CASE \/ Client!Connect \/ Client!Spawned \/ Client!SpawnFails \/ Client!ChildExits \/ Client!ExitTimesOut
             \/ Client!Initialized \/ Client!ConnectFails \/ Client!CloseReturns
    BY <1>1, <1>3 DEF Client!ClientTypeOK, Client!processVars, Client!sessionVars, Client!Connect, Client!Spawned,
       Client!SpawnFails, Client!ChildExits, Client!ExitTimesOut, Client!Initialized, Client!ConnectFails,
       Client!CloseReturns
  <1>4. CASE \/ Client!WireFails \/ Client!InitializeFails
    BY <1>1, <1>4 DEF Client!ClientTypeOK, Client!sessionVars, Client!WireFails, Client!InitializeFails,
       Client!EndWire, Client!Terminate
  <1>5. ASSUME Client!Abort
        PROVE  /\ clientClosed' \in BOOLEAN /\ wire' \in {"none", "open", "ended"}
               /\ termination' \in {"none", "asked", "forced", "done", "failed"}
               /\ turns' \in [Runs -> [on : Calls \cup {NoCall}, at : {"none", "starting", "active", "ended"}]]
    <2>1. clientClosed' \in BOOLEAN /\ wire' \in {"none", "open", "ended"}
          /\ termination' \in {"none", "asked", "forced", "done", "failed"}
      BY <1>1, <1>5 DEF Client!ClientTypeOK, Client!Abort, Client!EndWire, Client!Terminate
    <2>2. turns \in [Runs -> [on : Calls \cup {NoCall}, at : {"none", "starting", "active", "ended"}]]
      BY <1>1 DEF Client!ClientTypeOK
    <2>3. ASSUME Client!EndTurns
          PROVE  turns' \in [Runs -> [on : Calls \cup {NoCall}, at : {"none", "starting", "active", "ended"}]]
      <3>1. ASSUME NEW r \in Runs
            PROVE  [turns[r] EXCEPT !.at = "ended"]
                     \in [on : Calls \cup {NoCall}, at : {"none", "starting", "active", "ended"}]
        BY <2>2
      <3> DEFINE now(r) == IF turns[r].at = "active" THEN [turns[r] EXCEPT !.at = "ended"] ELSE turns[r]
      <3>2. \A r \in Runs : now(r) \in [on : Calls \cup {NoCall}, at : {"none", "starting", "active", "ended"}]
        BY <2>2, <3>1
      <3>3. turns' = [r \in Runs |-> now(r)]
        BY <2>3 DEF Client!EndTurns
      <3> HIDE DEF now
      <3> QED BY <3>2, <3>3
    <2> QED BY <1>5, <2>1, <2>2, <2>3 DEF Client!Abort
  <1>6. CASE Client!PumpStops \/ Client!CloseClient
    BY <1>1, <1>5, <1>6 DEF Client!ClientTypeOK, Client!PumpStops, Client!CloseClient
  <1>7. ASSUME NEW c \in Calls, NEW at \in {"idle"} \cup Client!Waiting \cup Client!Ended,
               NEW t \in Threads \cup {NoThread}, Client!Goes(c, at, t)
        PROVE  calls' \in [Calls -> [at : {"idle"} \cup Client!Waiting \cup Client!Ended,
                                     thread : Threads \cup {NoThread}]]
    BY <1>1, <1>7 DEF Client!ClientTypeOK, Client!Goes
  <1>8. ASSUME NEW c \in Calls PROVE calls[c].thread \in Threads \cup {NoThread}
    BY <1>1 DEF Client!ClientTypeOK
  <1>9. ASSUME NEW c \in Calls, NEW t \in Threads, Client!Returns(c, t)
        PROVE  /\ calls' \in [Calls -> [at : {"idle"} \cup Client!Waiting \cup Client!Ended,
                                        thread : Threads \cup {NoThread}]]
               /\ sessions' \in [Calls -> {"none", "open", "closed"}]
               /\ knownThreads' \subseteq Threads /\ t \in knownThreads' /\ knownThreads \subseteq knownThreads'
    BY <1>1, <1>7, <1>9 DEF Client!ClientTypeOK, Client!Returns, Client!Ended
  <1>10. ASSUME NEW c \in Calls, Client!SessionResumed(c) \/ \E t \in Threads : Client!SessionCreated(c, t) \/ Client!Forked(c, t)
         PROVE  Client!ClientTypeOK'
    <2>1. calls[c].at = "resuming" => calls[c].thread \in Threads
      BY DEF ClientInv, CallsInv
    <2>2. PICK t \in Threads : Client!Returns(c, t)
      BY <1>10, <2>1 DEF Client!SessionResumed, Client!SessionCreated, Client!Forked
    <2>3. /\ calls' \in [Calls -> [at : {"idle"} \cup Client!Waiting \cup Client!Ended,
                                    thread : Threads \cup {NoThread}]]
          /\ sessions' \in [Calls -> {"none", "open", "closed"}]
          /\ knownThreads' \subseteq Threads /\ knownThreads \subseteq knownThreads'
      BY <1>9, <2>2
    <2>4. ephemeralThreads' \subseteq knownThreads'
      BY <1>1, <1>10, <2>3 DEF Client!ClientTypeOK, Client!SessionResumed, Client!SessionCreated, Client!Forked,
         Client!Returns
    <2>5. UNCHANGED <<child, termination, connect, wire, clientClosed, closing, turns>>
      BY <1>10 DEF Client!ClientSteps, Client!processVars, Client!SessionResumed, Client!SessionCreated,
         Client!Forked
    <2> QED BY <1>1, <2>3, <2>4, <2>5 DEF Client!ClientTypeOK
  <1>11. ASSUME NEW c \in Calls, \/ Client!CallFails(c) \/ Client!SourceRead(c)
                                 \/ \E b \in BOOLEAN : Client!CreateSession(c, b) \/ Client!ForkFails(c, b)
                                 \/ \E t \in Threads : Client!ResumeSession(c, t) \/ Client!ForkSession(c, t)
         PROVE  Client!ClientTypeOK'
    <2>1. \E at \in {"idle"} \cup Client!Waiting \cup Client!Ended, t \in Threads \cup {NoThread} :
            Client!Goes(c, at, t)
      BY <1>8, <1>11
         DEF Client!CallFails, Client!ForkFails, Client!Ended, Client!SourceRead, Client!Waiting, Client!CreateSession,
            Client!Begins, Client!ResumeSession, Client!ForkSession
    <2>2. calls' \in [Calls -> [at : {"idle"} \cup Client!Waiting \cup Client!Ended,
                                 thread : Threads \cup {NoThread}]]
      BY <1>7, <2>1
    <2>3. /\ UNCHANGED <<child, connect, closing, sessions, knownThreads, ephemeralThreads>>
          /\ Client!Abort \/ UNCHANGED <<clientClosed, wire, termination, turns>>
      BY <1>11 DEF Client!ClientSteps, Client!processVars, Client!CallFails, Client!SourceRead,
         Client!CreateSession, Client!ForkFails, Client!ResumeSession, Client!ForkSession, Client!Begins
    <2> QED BY <1>1, <1>5, <2>2, <2>3 DEF Client!ClientTypeOK
  <1>12. ASSUME NEW c \in Calls, Client!CloseSession(c) \/ \E r \in Runs : Client!StartTurn(r, c)
         PROVE  Client!ClientTypeOK'
    <2>1. CASE Client!CloseSession(c)
      BY <1>1, <2>1 DEF Client!ClientTypeOK, Client!ClientSteps, Client!processVars, Client!CloseSession
    <2>2. CASE \E r \in Runs : Client!StartTurn(r, c)
      BY <2>2, <1>1 DEF Client!StartTurn, Client!ClientSteps, Client!processVars, Client!ClientTypeOK
    <2> QED BY <1>12, <2>1, <2>2
  <1>13. ASSUME NEW r \in Runs, Client!TurnEnds(r) \/ \E ok \in BOOLEAN : Client!TurnStarts(r, ok)
         PROVE  Client!ClientTypeOK'
    BY <1>1, <1>13 DEF Client!ClientTypeOK, Client!ClientSteps, Client!processVars, Client!TurnEnds,
       Client!TurnStarts
  <1> QED BY <1>2, <1>3, <1>4, <1>6, <1>10, <1>11, <1>12, <1>13 DEF Client!ClientNext

LEMMA ProcessIsKept ==
  ASSUME ClientInv, [Client!ClientNext]_(Client!clientVars) PROVE ProcessInv' /\ ClosingInv'
  <1>1. Client!ClientTypeOK /\ ProcessInv /\ ClosingInv
    BY DEF ClientInv
  <1>2. CASE UNCHANGED Client!clientVars
    BY <1>1, <1>2 DEF ProcessInv, ClosingInv, Client!clientVars, Client!processVars
  <1>3. CASE \/ Client!Connect \/ Client!Spawned \/ Client!SpawnFails \/ Client!ChildExits \/ Client!ExitTimesOut
    BY <1>1, <1>3 DEF Client!ClientTypeOK, ProcessInv, ClosingInv, Client!Connect, Client!Spawned,
       Client!SpawnFails, Client!ChildExits, Client!ExitTimesOut
  <1>4. CASE Client!Initialized \/ Client!ConnectFails \/ Client!CloseReturns
    BY <1>1, <1>4 DEF Client!ClientTypeOK, ProcessInv, ClosingInv, Client!processVars, Client!Initialized,
       Client!ConnectFails, Client!CloseReturns, Client!CleanedUp
  <1>5. CASE \/ Client!WireFails \/ Client!InitializeFails
    BY <1>1, <1>5 DEF Client!ClientTypeOK, ProcessInv, ClosingInv, Client!WireFails, Client!InitializeFails,
       Client!EndWire, Client!Terminate
  <1>6. ASSUME Client!Abort, connect = "connected", UNCHANGED <<child, connect>>, closing' \in {closing, "waiting"},
               clientClosed' \/ closing' = closing
        PROVE  ProcessInv' /\ ClosingInv'
    BY <1>1, <1>6 DEF Client!ClientTypeOK, ProcessInv, ClosingInv, Client!Abort, Client!EndWire, Client!Terminate
  <1>7. CASE Client!PumpStops \/ Client!CloseClient
    BY <1>1, <1>6, <1>7 DEF Client!PumpStops, Client!CloseClient, Client!Abort, Client!ClientTypeOK
  <1>8. ASSUME NEW c \in Calls, NEW b \in BOOLEAN, Client!ForkFails(c, b) PROVE ProcessInv' /\ ClosingInv'
    BY <1>8, <1>1, <1>6 DEF ClientInv, CallsInv, Client!ForkFails, ProcessInv, ClosingInv
  <1>9. CASE UNCHANGED <<Client!processVars, clientClosed, closing>>
    BY <1>1, <1>9 DEF ProcessInv, ClosingInv, Client!processVars
  <1> QED BY <1>2, <1>3, <1>4, <1>5, <1>7, <1>8, <1>9 DEF Client!ClientNext, Client!ClientSteps,
          Client!CreateSession, Client!ResumeSession, Client!ForkSession, Client!Begins, Client!SessionCreated,
          Client!SessionResumed, Client!Forked, Client!CallFails, Client!SourceRead, Client!CloseSession,
          Client!StartTurn, Client!TurnStarts, Client!TurnEnds

LEMMA CallsAreKept == ASSUME ClientInv, [Client!ClientNext]_(Client!clientVars) PROVE CallsInv'
  <1>1. Client!ClientTypeOK /\ ProcessInv /\ CallsInv
    BY DEF ClientInv
  <1>2. CASE UNCHANGED <<calls, sessions, knownThreads, connect>>
    BY <1>1, <1>2 DEF CallsInv
  <1>3. CASE \/ Client!Connect \/ Client!Spawned \/ Client!SpawnFails \/ Client!Initialized \/ Client!InitializeFails
             \/ Client!ConnectFails
    BY <1>3, <1>1
       DEF Client!Connect, Client!Spawned, Client!SpawnFails, Client!Initialized, Client!InitializeFails,
          Client!ConnectFails, Client!sessionVars, CallsInv
  <1>4. ASSUME NEW c \in Calls, NEW t \in Threads, Client!Returns(c, t), calls[c].at # "idle", UNCHANGED connect
        PROVE  CallsInv'
    BY <1>1, <1>4 DEF CallsInv, Client!Returns, Client!Goes, Client!ClientTypeOK
  <1>5. ASSUME NEW c \in Calls, Client!SessionResumed(c) \/ \E t \in Threads : Client!SessionCreated(c, t) \/ Client!Forked(c, t)
        PROVE  CallsInv'
    BY <1>1, <1>5, <1>4
       DEF CallsInv, Client!SessionResumed, Client!SessionCreated, Client!Forked, Client!ClientSteps, Client!processVars
  <1>6. ASSUME NEW c \in Calls, NEW at \in Client!Waiting \cup {"failed"}, NEW t \in Threads \cup {NoThread},
               Client!Goes(c, at, t), connect = "connected", UNCHANGED <<connect, sessions, knownThreads>>,
               at = "resuming" => t \in Threads, calls[c].at # "done"
        PROVE  CallsInv'
    BY <1>1, <1>6 DEF CallsInv, Client!Goes, Client!ClientTypeOK
  <1>7. ASSUME NEW c \in Calls, \/ Client!CallFails(c) \/ Client!SourceRead(c)
                                \/ \E b \in BOOLEAN : Client!CreateSession(c, b) \/ Client!ForkFails(c, b)
                                \/ \E t \in Threads : Client!ResumeSession(c, t) \/ Client!ForkSession(c, t)
        PROVE  CallsInv'
    <2>1. calls[c].thread \in Threads \cup {NoThread} /\ (calls[c].at # "idle" => connect = "connected")
      BY <1>1 DEF CallsInv, Client!ClientTypeOK
    <2>2. CASE Client!CallFails(c) \/ Client!SourceRead(c) \/ \E b \in BOOLEAN : Client!ForkFails(c, b)
      BY <2>2, <1>6, <2>1
         DEF Client!CallFails, Client!SourceRead, Client!ForkFails, Client!Waiting, Client!ClientSteps,
            Client!processVars
    <2>3. CASE \/ \E b \in BOOLEAN : Client!CreateSession(c, b)
               \/ \E t \in Threads : Client!ResumeSession(c, t) \/ Client!ForkSession(c, t)
      <3>1. PICK at \in Client!Waiting, t \in Threads \cup {NoThread} :
              Client!Begins(c, at, t) /\ (at = "resuming" => t \in Threads)
        BY <2>3 DEF Client!CreateSession, Client!ResumeSession, Client!ForkSession, Client!Waiting
      <3> QED BY <1>6, <3>1 DEF Client!Begins, Client!Open, Client!ClientSteps, Client!processVars
    <2> QED BY <1>7, <2>2, <2>3
  <1>8. CASE \/ Client!ChildExits \/ Client!ExitTimesOut \/ Client!WireFails \/ Client!PumpStops
             \/ Client!CloseClient \/ Client!CloseReturns
    BY <1>2, <1>8 DEF Client!ChildExits, Client!ExitTimesOut, Client!WireFails, Client!PumpStops,
       Client!CloseClient, Client!CloseReturns, Client!processVars, Client!sessionVars
  <1>9. ASSUME NEW c \in Calls, Client!CloseSession(c) PROVE CallsInv'
    BY <1>1, <1>9 DEF CallsInv, Client!CloseSession, Client!ClientSteps, Client!processVars, Client!ClientTypeOK
  <1>10. ASSUME NEW r \in Runs, \/ Client!TurnEnds(r) \/ \E ok \in BOOLEAN : Client!TurnStarts(r, ok)
                                \/ \E c \in Calls : Client!StartTurn(r, c)
         PROVE  CallsInv'
    BY <1>2, <1>10 DEF Client!ClientSteps, Client!processVars, Client!TurnEnds, Client!TurnStarts, Client!StartTurn
  <1>11. CASE UNCHANGED Client!clientVars
    BY <1>2, <1>11 DEF Client!clientVars, Client!processVars, Client!sessionVars
  <1> QED BY <1>3, <1>5, <1>7, <1>8, <1>9, <1>10, <1>11 DEF Client!ClientNext

LEMMA StartedIsKept == ASSUME ClientInv, [Client!ClientNext]_(Client!clientVars) PROVE StartedInv'
  <1>1. Client!ClientTypeOK /\ CallsInv /\ StartedInv
    BY DEF ClientInv
  <1>2. CASE UNCHANGED <<turns, sessions>>
    BY <1>1, <1>2 DEF StartedInv, Client!ClosedSessionsIdle
  <1>3. CASE Client!EndTurns /\ UNCHANGED sessions
    BY <1>1, <1>3 DEF StartedInv, Client!ClosedSessionsIdle, Client!EndTurns, Client!ClientTypeOK
  <1>4. ASSUME NEW c \in Calls, sessions' = [sessions EXCEPT ![c] = "open"], UNCHANGED turns
        PROVE  StartedInv'
    BY <1>1, <1>4 DEF StartedInv, Client!ClosedSessionsIdle, Client!ClientTypeOK
  <1>5. ASSUME NEW c \in Calls, Client!CloseSession(c) PROVE StartedInv'
    BY <1>5, <1>1 DEF Client!CloseSession, Client!HasActiveTurn, StartedInv, Client!ClosedSessionsIdle, Client!ClientTypeOK
  <1>6. ASSUME NEW c \in Calls, NEW r \in Runs, Client!StartTurn(r, c) PROVE StartedInv'
    BY <1>1, <1>6 DEF StartedInv, Client!ClosedSessionsIdle, Client!ClientTypeOK, Client!StartTurn
  <1>7. ASSUME NEW r \in Runs, Client!TurnEnds(r) \/ \E ok \in BOOLEAN : Client!TurnStarts(r, ok)
        PROVE  StartedInv'
    BY <1>1, <1>7 DEF StartedInv, Client!ClosedSessionsIdle, Client!ClientTypeOK, Client!TurnEnds,
       Client!TurnStarts
  <1>8. CASE Client!PumpStops \/ Client!CloseClient \/ \E c \in Calls, b \in BOOLEAN : Client!ForkFails(c, b)
    BY <1>2, <1>3, <1>8 DEF Client!PumpStops, Client!CloseClient, Client!ForkFails, Client!Abort
  <1>9. ASSUME NEW c \in Calls, Client!SessionResumed(c) \/ \E t \in Threads : Client!SessionCreated(c, t) \/ Client!Forked(c, t)
        PROVE  StartedInv'
    BY <1>4, <1>9 DEF Client!SessionResumed, Client!SessionCreated, Client!Forked, Client!Returns
  <1> QED BY <1>2, <1>5, <1>6, <1>7, <1>8, <1>9 DEF Client!ClientNext, Client!clientVars, Client!processVars,
          Client!sessionVars, Client!Connect, Client!Spawned, Client!SpawnFails, Client!ChildExits,
          Client!ExitTimesOut, Client!WireFails, Client!Initialized, Client!InitializeFails, Client!ConnectFails,
          Client!CloseReturns, Client!CreateSession, Client!ResumeSession, Client!ForkSession, Client!Begins,
          Client!CallFails, Client!SourceRead

LEMMA ClientInvIsKept == ASSUME ClientInv, [Client!ClientNext]_(Client!clientVars) PROVE ClientInv'
  BY ClientTypeIsKept, ProcessIsKept, CallsAreKept, StartedIsKept DEF ClientInv

LEMMA ClientInvIsSound == ASSUME ClientInv PROVE ClientSound
  BY DEF ClientInv, ClientSound, ProcessInv, ClosingInv, StartedInv, Client!ChildOwned, Client!ClientTypeOK

(* A fork answers with a Thread the Client did not know, and it knows those of all its Sessions.     *)
LEMMA ForkIsFresh ==
  ASSUME ClientInv, [Client!ClientNext]_(Client!clientVars), NEW c \in Calls, NEW d \in Calls,
         calls[c].at = "forking", calls'[c].at = "done", sessions[d] # "none"
  PROVE  calls'[c].thread # calls[d].thread
  <1>1. Client!ClientTypeOK /\ CallsInv
    BY DEF ClientInv
  <1>2. PICK t \in Threads : Client!Forked(c, t)
    <2>1. calls' # calls
      OBVIOUS
    <2>2. ASSUME NEW b \in Calls, NEW at, NEW t, Client!Goes(b, at, t) PROVE b = c /\ at = "done"
      BY <1>1, <2>2 DEF Client!Goes, Client!ClientTypeOK
    <2>3. ~ \/ Client!Connect \/ Client!Spawned \/ Client!SpawnFails \/ Client!ChildExits \/ Client!ExitTimesOut
            \/ Client!WireFails \/ Client!Initialized \/ Client!InitializeFails \/ Client!ConnectFails
            \/ Client!PumpStops \/ Client!CloseClient \/ Client!CloseReturns
      BY <2>1 DEF Client!Connect, Client!Spawned, Client!SpawnFails, Client!ChildExits, Client!ExitTimesOut,
         Client!WireFails, Client!Initialized, Client!InitializeFails, Client!ConnectFails, Client!PumpStops,
         Client!CloseClient, Client!CloseReturns, Client!sessionVars
    <2>4. ASSUME NEW b \in Calls, \/ Client!CallFails(b) \/ Client!SourceRead(b)
                                  \/ \E ok \in BOOLEAN : Client!CreateSession(b, ok) \/ Client!ForkFails(b, ok)
                                  \/ \E t \in Threads : Client!ResumeSession(b, t) \/ Client!ForkSession(b, t)
          PROVE  FALSE
      <3>1. ~Client!CallFails(b) /\ ~Client!SourceRead(b) /\ \A ok \in BOOLEAN : ~Client!ForkFails(b, ok)
        BY <2>2 DEF Client!CallFails, Client!SourceRead, Client!ForkFails
      <3>2. ASSUME NEW at, NEW t, Client!Begins(b, at, t) PROVE FALSE
        BY <2>2, <3>2 DEF Client!Begins
      <3>3. \A ok \in BOOLEAN : ~Client!CreateSession(b, ok)
        BY <3>2 DEF Client!CreateSession
      <3>4. \A t \in Threads : ~Client!ResumeSession(b, t) /\ ~Client!ForkSession(b, t)
        BY <3>2 DEF Client!ResumeSession, Client!ForkSession
      <3> QED BY <2>4, <3>1, <3>3, <3>4
    <2>5. ASSUME NEW b \in Calls, Client!SessionResumed(b) \/ \E t \in Threads : Client!SessionCreated(b, t)
          PROVE  FALSE
      BY <2>2, <2>5 DEF Client!SessionResumed, Client!SessionCreated, Client!Returns
    <2>6. ASSUME NEW b \in Calls, NEW t \in Threads, Client!Forked(b, t) PROVE b = c
      BY <2>2, <2>6 DEF Client!Forked, Client!Returns
    <2>7. ASSUME NEW b \in Calls, Client!CloseSession(b) \/ \E r \in Runs : Client!StartTurn(r, b) PROVE FALSE
      BY <2>1, <2>7 DEF Client!CloseSession, Client!StartTurn
    <2>8. ASSUME NEW r \in Runs, Client!TurnEnds(r) \/ \E ok \in BOOLEAN : Client!TurnStarts(r, ok) PROVE FALSE
      BY <2>1, <2>8 DEF Client!TurnEnds, Client!TurnStarts
    <2>9. ~ UNCHANGED Client!clientVars
      BY <2>1 DEF Client!clientVars, Client!sessionVars
    <2> QED BY <2>3, <2>4, <2>5, <2>6, <2>7, <2>8, <2>9 DEF Client!ClientNext
  <1>3. calls'[c].thread = t
    BY <1>1, <1>2 DEF Client!Forked, Client!Returns, Client!Goes, Client!ClientTypeOK
  <1>4. calls[d].thread \in knownThreads
    BY <1>1 DEF CallsInv
  <1> QED BY <1>2, <1>3, <1>4 DEF Client!Forked

(* Whatever connect(), the process, the transport, the calls for Sessions and close() do in any      *)
(* order: a running process has an owner, close() says what became of it, and a closed Session has   *)
(* no Run.                                                                                          *)
THEOREM ClientIsSound == Client!ClientInit /\ [][Client!ClientNext]_(Client!clientVars) => []ClientSound
  BY ClientInitInv, ClientInvIsKept, ClientInvIsSound, PTL

(* CodexAdapter and the Client, each by its own specification: an active Run ends with the           *)
(* connection or by its own Turn, and fork() never returns a Thread that another Session has.        *)
THEOREM NothingIsMixedUp ==
  Spec /\ Client!ClientInit /\ [][Client!ClientNext]_(Client!clientVars) => NothingMixedUp
  <1>1. ClientInv /\ [Client!ClientNext]_(Client!clientVars) =>
          [\A c, d \in Calls :
             calls[c].at = "forking" /\ calls'[c].at = "done" /\ sessions[d] # "none"
               => calls'[c].thread # calls[d].thread]_(Client!clientVars)
    BY ForkIsFresh
  <1>2. Client!ClientInit => ClientInv
    BY ClientInitInv
  <1>3. ClientInv /\ [Client!ClientNext]_(Client!clientVars) => ClientInv'
    BY ClientInvIsKept
  <1>4. Client!ClientInit /\ [][Client!ClientNext]_(Client!clientVars) => Client!ForksFresh
    BY <1>1, <1>2, <1>3, PTL DEF Client!ForksFresh
  <1> QED BY <1>4, RunsEndByTheirTurn DEF NothingMixedUp

===============================================================================
