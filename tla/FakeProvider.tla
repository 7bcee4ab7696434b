------------------------------ MODULE FakeProvider ------------------------------
(* The deterministic Fake Provider of the conformance package, which the contract tests of adapters  *)
(* and the examples run against: Clients of one factory share its native Sessions, a Session can be  *)
(* held by several handles, and a Run completes only once somebody looks at it.                     *)
EXTENDS Naturals, Sequences, FiniteSets

CONSTANTS Clients, Natives, Handles, Runs, Readers, NoRun

NoRunAssumption == NoRun \notin Runs

VARIABLES
  options,                \* the cancelMode of the factory, and whether every Run asks something
  shut,                   \* the clients that are closed
  activeRuns,             \* of a FakeClient
  natives,                \* FakeNativeSessionState.activeRun, of the Sessions that exist
  handles,                \* FakeSession
  fakeRuns,               \* FakeRun
  readers                 \* iterators of events(), and how far they are

fakeVars == <<options, shut, activeRuns, natives, handles, fakeRuns, readers>>

FakeTypeOK ==
  /\ options \in [cancelMode : {"native", "adapter_controlled", "unsupported"}, interaction : BOOLEAN]
  /\ shut \subseteq Clients /\ activeRuns \in [Clients -> SUBSET Runs]
  /\ DOMAIN natives \subseteq Natives /\ \A n \in DOMAIN natives : natives[n] \in Runs \cup {NoRun}
  /\ \A h \in Handles : handles[h].at \in {"none", "open", "closed"} /\ handles[h].ownedRun \in Runs \cup {NoRun}
  /\ \A r \in Runs : /\ fakeRuns[r].at \in {"none", "active", "completed", "cancelled", "connection_aborted"}
                     /\ fakeRuns[r].completion \in {"none", "queued", "ran"}
  /\ \A k \in Readers : readers[k].at \in {"idle", "running", "waiting", "returned"}

FakeInit ==
  /\ options \in [cancelMode : {"native", "adapter_controlled", "unsupported"}, interaction : BOOLEAN]
  /\ shut = {} /\ activeRuns = [c \in Clients |-> {}] /\ natives = [n \in {} |-> NoRun]
  /\ handles = [h \in Handles |-> [at |-> "none", ownedRun |-> NoRun]]
  /\ fakeRuns = [r \in Runs |-> [at |-> "none", pending |-> FALSE, timer |-> FALSE,
                                 completion |-> "none", emitted |-> <<>>]]
  /\ readers = [k \in Readers |-> [at |-> "idle", run |-> NoRun, index |-> 0]]

IsTerminal(r) == fakeRuns[r].at \notin {"none", "active"}
Busy(n) == natives[n] # NoRun /\ ~IsTerminal(natives[n])

-------------------------------------------------------------------------------
(* FakeRun. *)

(* Mutant: events wake nobody. *)
WakeNobody(runs) == UNCHANGED readers

(* emit: an iterator that awaits `changed` goes on. *)
Wake(runs) ==
  readers' = [k \in Readers |->
    IF readers[k].at = "waiting" /\ readers[k].run \in runs THEN [readers[k] EXCEPT !.at = "running"]
    ELSE readers[k]]

(* Mutant: a Run that ends leaves its interaction open. *)
EventsUnresolved(run, status) ==
  run.emitted \o (IF status = "completed" THEN <<"message.delta", "message.completed">> ELSE <<>>)
              \o <<status>>

(* What finish() appends: first the resolution, last the end. *)
FinalEvents(run, status) ==
  run.emitted \o (IF run.pending THEN <<"interaction.resolved">> ELSE <<>>)
              \o (IF status = "completed" THEN <<"message.delta", "message.completed">> ELSE <<>>)
              \o <<status>>

(* Mutant: the Session does not hear of the end. *)
FinishUnheard(runs, status) ==
  /\ fakeRuns' = [r \in Runs |->
       IF r \notin runs THEN fakeRuns[r]
       ELSE [fakeRuns[r] EXCEPT !.at = status, !.pending = FALSE, !.timer = FALSE,
                                !.emitted = FinalEvents(fakeRuns[r], status)]]
  /\ activeRuns' = [c \in Clients |-> activeRuns[c] \ runs]
  /\ Wake(runs) /\ UNCHANGED natives

(* finish, with its callbacks to the client and to the Session. *)
Finish(runs, status) ==
  /\ fakeRuns' = [r \in Runs |->
       IF r \notin runs THEN fakeRuns[r]
       ELSE [fakeRuns[r] EXCEPT !.at = status, !.pending = FALSE, !.timer = FALSE,
                                !.emitted = FinalEvents(fakeRuns[r], status)]]
  /\ activeRuns' = [c \in Clients |-> activeRuns[c] \ runs]
  /\ natives' = [n \in DOMAIN natives |-> IF natives[n] \in runs THEN NoRun ELSE natives[n]]
  /\ Wake(runs)

(* scheduleCompletion, of events() and of result(). *)
Scheduled(r) ==
  fakeRuns' = [fakeRuns EXCEPT ![r].completion = IF @ = "none" /\ ~IsTerminal(r) THEN "queued" ELSE @]

AwaitResult(r) ==
  /\ fakeRuns[r].at # "none" /\ Scheduled(r)
  /\ UNCHANGED <<options, shut, activeRuns, natives, handles, readers>>

ReadEvents(k, r) ==
  /\ fakeRuns[r].at # "none" /\ readers[k].at = "idle"
  /\ Scheduled(r)
  /\ readers' = [readers EXCEPT ![k] = [at |-> "running", run |-> r, index |-> 0]]
  /\ UNCHANGED <<options, shut, activeRuns, natives, handles>>

(* The loop of events(): the events there are, then the end or the next change. *)
ReaderRuns(k) ==
  LET run == fakeRuns[readers[k].run] IN
  /\ readers[k].at = "running"
  /\ readers' = [readers EXCEPT ![k] =
       IF readers[k].index < Len(run.emitted) THEN [readers[k] EXCEPT !.index = @ + 1]
       ELSE [readers[k] EXCEPT !.at = IF IsTerminal(readers[k].run) THEN "returned" ELSE "waiting"]]
  /\ UNCHANGED <<options, shut, activeRuns, natives, handles, fakeRuns>>

(* The microtask: a Run that waits for the host goes on only with its answer. *)
Completes(r) ==
  /\ fakeRuns[r].completion = "queued"
  /\ IF ~IsTerminal(r) /\ ~fakeRuns[r].pending
     THEN Finish({r}, "completed")
     ELSE /\ fakeRuns' = [fakeRuns EXCEPT ![r].completion = "ran"]
          /\ UNCHANGED <<activeRuns, natives, readers>>
  /\ UNCHANGED <<options, shut, handles>>

TimerFires(r) ==
  /\ fakeRuns[r].timer
  /\ Finish({r}, "connection_aborted")
  /\ UNCHANGED <<options, shut, handles>>

Cancel(r) ==
  /\ fakeRuns[r].at = "active" /\ options.cancelMode # "unsupported"
  /\ Finish({r}, IF options.cancelMode = "native" THEN "cancelled" ELSE "connection_aborted")
  /\ UNCHANGED <<options, shut, handles>>

-------------------------------------------------------------------------------
(* FakeSession and FakeClient. *)

ClientOf(h) == handles[h].client

(* Mutant: the request of a Run that is over is taken again. *)
AsksAnyTime(h, r) == handles[h].ownedRun = r /\ options.interaction

(* An answer fits the pending request of the Run this handle started. *)
Asks(h, r) == handles[h].ownedRun = r /\ fakeRuns[r].at = "active" /\ fakeRuns[r].pending

(* A requestId names its Run. *)
Respond(h, r) ==
  /\ handles[h].at = "open" /\ ClientOf(h) \notin shut /\ Asks(h, r)
  /\ Finish({r}, "completed")
  /\ UNCHANGED <<options, shut, handles>>

Held(h, c, n) ==
  /\ handles[h].at = "none" /\ c \notin shut
  /\ handles' = [handles EXCEPT ![h] = [at |-> "open", ownedRun |-> NoRun, client |-> c, native |-> n]]
  /\ UNCHANGED <<options, shut, activeRuns, fakeRuns, readers>>

CreateSession(c, n, h) ==
  /\ n \notin DOMAIN natives /\ Held(h, c, n)
  /\ natives' = [m \in DOMAIN natives \cup {n} |-> IF m = n THEN NoRun ELSE natives[m]]

ResumeSession(c, n, h) ==
  /\ n \in DOMAIN natives /\ Held(h, c, n)
  /\ UNCHANGED natives

(* start: one Run of a native Session, whoever holds it. *)
Start(h, r, timed) ==
  /\ handles[h].at = "open" /\ ClientOf(h) \notin shut /\ ~Busy(handles[h].native)
  /\ fakeRuns[r].at = "none"
  /\ fakeRuns' = [fakeRuns EXCEPT ![r] =
       [at |-> "active", pending |-> options.interaction, timer |-> timed, completion |-> "none",
        emitted |-> IF options.interaction THEN <<"run.started", "interaction.requested">> ELSE <<"run.started">>]]
  /\ activeRuns' = [activeRuns EXCEPT ![ClientOf(h)] = @ \cup {r}]
  /\ natives' = [natives EXCEPT ![handles[h].native] = r]
  /\ handles' = [handles EXCEPT ![h].ownedRun = r]
  /\ UNCHANGED <<options, shut, readers>>

(* Mutant: a Session closes under its Run. *)
CloseSessionBusy(h) ==
  /\ handles[h].at = "open"
  /\ handles' = [handles EXCEPT ![h].at = "closed"]
  /\ UNCHANGED <<options, shut, activeRuns, natives, fakeRuns, readers>>

CloseSession(h) ==
  /\ handles[h].at = "open" /\ ~Busy(handles[h].native)
  /\ handles' = [handles EXCEPT ![h].at = "closed"]
  /\ UNCHANGED <<options, shut, activeRuns, natives, fakeRuns, readers>>

CloseClient(c) ==
  /\ c \notin shut
  /\ shut' = shut \cup {c}
  /\ Finish(activeRuns[c], "connection_aborted")
  /\ UNCHANGED <<options, handles>>

-------------------------------------------------------------------------------
FakeNext ==
  \/ \E r \in Runs : AwaitResult(r) \/ Completes(r) \/ TimerFires(r) \/ Cancel(r)
  \/ \E k \in Readers : ReaderRuns(k) \/ \E r \in Runs : ReadEvents(k, r)
  \/ \E h \in Handles :
       \/ CloseSession(h)
       \/ \E r \in Runs : Respond(h, r) \/ \E timed \in BOOLEAN : Start(h, r, timed)
       \/ \E c \in Clients, n \in Natives : CreateSession(c, n, h) \/ ResumeSession(c, n, h)
  \/ \E c \in Clients : CloseClient(c)

FakeSpec == FakeInit /\ [][FakeNext]_fakeVars

(* Microtasks, timers and iterators that are read run. *)
FakeFairness ==
  /\ \A r \in Runs : WF_fakeVars(Completes(r)) /\ WF_fakeVars(TimerFires(r))
  /\ \A k \in Readers : WF_fakeVars(ReaderRuns(k))

-------------------------------------------------------------------------------
(* However a Run ends (completion, answer, cancellation, timer, close of its client), its native     *)
(* Session and its client let go of it and nothing else does, over all handles and clients; a closed *)
(* client or handle has no Run; and what was asked is reported resolved before the end, the last     *)
(* event, which every iterator has seen that returned.                                              *)
FakeSound ==
  /\ FakeTypeOK
  /\ \A r \in Runs :
       /\ fakeRuns[r].at = "active" <=> \E n \in DOMAIN natives : natives[n] = r
       /\ fakeRuns[r].at = "active" <=> \E c \in Clients \ shut : r \in activeRuns[c]
       /\ fakeRuns[r].timer => fakeRuns[r].at = "active"
  /\ \A h \in Handles : handles[h].at = "closed" /\ handles[h].ownedRun # NoRun => IsTerminal(handles[h].ownedRun)
  /\ \A r \in {s \in Runs : IsTerminal(s)} :
       LET events == fakeRuns[r].emitted IN
       /\ \A i \in DOMAIN events : events[i] = fakeRuns[r].at <=> i = Len(events)
       /\ \A i \in DOMAIN events : events[i] = "interaction.requested"
            => \E j \in (i + 1)..(Len(events) - 1) : events[j] = "interaction.resolved"
  /\ \A k \in Readers : readers[k].at = "returned"
       => IsTerminal(readers[k].run) /\ readers[k].index = Len(fakeRuns[readers[k].run].emitted)

Seen(r, kind) == IF \E i \in DOMAIN fakeRuns[r].emitted : fakeRuns[r].emitted[i] = kind THEN {r} ELSE {}

Contract == INSTANCE RunContract WITH
  Interactions <- Runs, status <- [r \in Runs |-> fakeRuns[r].at],
  requested <- [r \in Runs |-> Seen(r, "interaction.requested")],
  resolved <- [r \in Runs |-> Seen(r, "interaction.resolved")]

(* A Fake Run behaves as the contract of a Run says: one end and nothing after it.                   *)
FakeImplementsRunContract == Contract!Spec

(* A Run somebody looks at ends, unless it waits for the host; and every iterator over a Run that    *)
(* has ended returns, also one that waited for the change.                                          *)
FakeSettles ==
  /\ \A r \in Runs : fakeRuns[r].completion = "queued" ~> IsTerminal(r) \/ fakeRuns[r].pending
  /\ \A k \in Readers : (readers[k].at # "idle" /\ IsTerminal(readers[k].run)) ~> readers[k].at = "returned"
================================================================================
