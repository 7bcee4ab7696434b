------------------------------- MODULE DshAdapter -------------------------------
(* providers/dsh over the SDK Runtime, a child process that speaks JSON-RPC: the Client, its         *)
(* Sessions, and the one Run at a time of a connection. What the Runtime reports until session/prompt *)
(* is answered is kept and replayed. A Run begins where its own message enters the inbox, goes on    *)
(* while no event of its Session is missing, and ends when the Session is idle.                      *)
(*                                                                                                  *)
(* Abstracted: contents; the event queue, which has room or not; the elapsing of timers; sequence    *)
(* numbers, of which a note says whether it is the next. The transport is JsonRpcTransport.          *)
EXTENDS Naturals, Sequences

CONSTANTS
  Sessions, Runs, Children,   \* Sessions, startRun calls, Sessions of subagents
  Native,                     \* a message of the native client
  MaxRunEvents,               \* bound of what a Run keeps
  MaxWire,                    \* bound: notifications under way
  MaxSays,                    \* bound: events of a turn
  MaxOddities,                \* bound: subagents, native messages and irregularities
  NoRun, NoSession

DshAssumption ==
  /\ NoRun \notin Runs \cup {Native} /\ Native \notin Runs /\ NoSession \notin Sessions \cup Children
  /\ Sessions \cap Children = {} /\ MaxRunEvents \in Nat \ {0, 1}
  /\ MaxWire \in Nat /\ MaxSays \in Nat /\ MaxOddities \in Nat

VARIABLES
  closed, pipe,           \* of the Client, of its transport
  closing,                \* close(): "none", "shutting", "done"
  sessions,               \* per Session: "none", "open", "closed"
  active,                 \* activeRun
  runs,                   \* per startRun call: the call and its DshRun
  responding              \* the pump waits until a request of the Runtime is answered

(* Of the Runtime. *)
VARIABLES
  inbox, turn, says,      \* per Session: messages, the one it works on, events of the turn so far
  busy,                   \* Sessions that were not idle
  worked,                 \* per message: what became of it
  answers,                \* per Run: the answer to its session/prompt
  subagents, ended,       \* per running subagent: its parent; those that finished
  wire,                   \* notifications under way
  oddities

client == <<closed, pipe, closing, sessions, active, runs, responding>>
runtime == <<inbox, turn, says, busy, worked, answers, subagents, ended, wire, oddities>>
vars == <<client, runtime>>

Messages == Runs \cup {Native}
Verdicts == {"completed", "cancelled", "failed"}    \* of a turn; "lost": there was none in the log
Terminals == Verdicts \cup {"connection_aborted"}
Owners == Sessions \cup Children
Kinds == {"splice", "ambiguous", "event", "required", "gap", "end", "idle", "started", "finished",
          "unreadable", "other", "request"}
Note == [kind: Kinds, session: Owners \cup {NoSession}, message: Messages \cup {NoRun},
         verdict: Verdicts \cup {"none"}, child: Children \cup {NoSession}]

TypeOK ==
  /\ closed \in BOOLEAN /\ pipe \in {"open", "closed"} /\ closing \in {"none", "shutting", "done"}
  /\ sessions \in [Sessions -> {"none", "open", "closed"}] /\ active \in Runs \cup {NoRun}
  /\ responding \in BOOLEAN
  /\ runs \in [Runs ->
       [call: {"idle", "prompting", "returned", "refused"}, session: Sessions \cup {NoSession},
        correlated: BOOLEAN, ends: 0..2, verdict: Verdicts \cup {"none"}, pending: Seq(Note),
        kids: [Children -> Owners \cup {NoSession}], final: Terminals \cup {"none"},
        breaks: BOOLEAN, throws: BOOLEAN]]
  /\ \A r \in Runs : Len(runs[r].pending) < MaxRunEvents
  /\ inbox \in [Sessions -> Seq(Messages)] /\ turn \in [Sessions -> Messages \cup {NoRun}]
  /\ says \in [Sessions -> 0..MaxSays] /\ busy \subseteq Sessions
  /\ worked \in [Messages -> Verdicts \cup {"none", "queued", "working", "lost"}]
  /\ answers \in [Runs -> {"none", "accepted", "rejected", "malformed"}]
  /\ subagents \in [Children -> Owners \cup {NoSession}] /\ ended \subseteq Children
  /\ wire \in Seq(Note) /\ Len(wire) <= MaxWire /\ oddities \in 0..MaxOddities

NoKids == [c \in Children |-> NoSession]

Init ==
  /\ closed = FALSE /\ pipe = "open" /\ closing = "none" /\ active = NoRun /\ responding = FALSE
  /\ sessions = [s \in Sessions |-> "none"]
  /\ runs = [r \in Runs |->
       [call |-> "idle", session |-> NoSession, correlated |-> FALSE, ends |-> 0, verdict |-> "none",
        pending |-> <<>>, kids |-> NoKids, final |-> "none", breaks |-> FALSE, throws |-> FALSE]]
  /\ inbox = [s \in Sessions |-> <<>>] /\ turn = [s \in Sessions |-> NoRun] /\ says = [s \in Sessions |-> 0]
  /\ busy = {} /\ worked = [m \in Messages |-> "none"] /\ answers = [r \in Runs |-> "none"]
  /\ subagents = NoKids /\ ended = {} /\ wire = <<>> /\ oddities = 0

-------------------------------------------------------------------------------
(* DshRun: what it makes of a notification. A Run that `breaks` has the connection aborted, also     *)
(* when it is over; one that `throws` leaves that to its caller.                                    *)

Over(run) == run.final # "none"
Ended(run, how) == IF Over(run) THEN run ELSE [run EXCEPT !.final = how, !.kids = NoKids]
Broken(run, how) == [Ended(run, how) EXCEPT !.breaks = TRUE]

Emit(run, room) == IF room \/ Over(run) THEN run ELSE Broken(run, "connection_aborted")

(* Mutant: the first end of a turn decides, however many there were. *)
FirstEndDecides(run) == Ended(run, IF run.ends = 0 THEN "failed" ELSE run.verdict)

FinishAtIdle(run) == Ended(run, IF run.ends = 1 THEN run.verdict ELSE "failed")

(* Mutant: whatever message enters the inbox is taken for the Run's own. *)
CorrelateAny(run, r, note, room) ==
  IF note.kind = "splice" THEN Emit([run EXCEPT !.correlated = TRUE], room) ELSE run

Correlate(run, r, note, room) ==
  CASE note.message # r \/ note.kind \notin {"splice", "ambiguous"} -> run
    [] note.message = r /\ note.kind = "ambiguous" -> Broken(run, "failed")
    [] note.message = r /\ note.kind = "splice" -> Emit([run EXCEPT !.correlated = TRUE], room)

Interval(run, note, room) ==
  CASE note.kind \in {"gap", "splice", "ambiguous"} -> Broken(run, "failed")
    [] note.kind = "required" -> [run EXCEPT !.throws = TRUE]
    [] note.kind = "end" -> [run EXCEPT !.ends = IF @ = 2 THEN 2 ELSE @ + 1,
                                        !.verdict = IF @ = "none" THEN note.verdict ELSE @]
    [] note.kind = "event" -> Emit(run, room)

Raw(run, note) == note.kind \in {"other", "started", "finished"} \/ note.session \in Children

Process(run, r, note, room) ==
  IF run.throws THEN run
  ELSE CASE Raw(run, note) -> IF run.correlated THEN Emit(run, room) ELSE run
         [] ~Raw(run, note) /\ note.kind = "idle" -> IF run.correlated THEN FinishAtIdle(run) ELSE run
         [] OTHER -> IF run.correlated THEN Interval(run, note, room) ELSE Correlate(run, r, note, room)

Receive(run, r, note, room) ==
  IF Over(run) THEN run
  ELSE IF run.call = "returned" THEN Process(run, r, note, room)
  ELSE IF Len(run.pending) >= MaxRunEvents - 1 THEN Broken(run, "connection_aborted")
  ELSE [run EXCEPT !.pending = Append(@, note)]

(* A subagent and those that are its own. *)
Subtree(kids, c) ==
  {d \in Children : \A S \in SUBSET Children :
     (c \in S /\ \A e \in Children : kids[e] \in S => e \in S) => d \in S}

OwnsChild(run, c) == c \in Children /\ run.kids[c] # NoSession
Owns(run, s) == run.session = s \/ OwnsChild(run, s)

(* Mutant: a subagent that finished stays a subagent of the Run. *)
NeverForgotten(run, r, note, room) ==
  IF run.kids[note.child] # note.session THEN [run EXCEPT !.throws = TRUE] ELSE Receive(run, r, note, room)

FinishChild(run, r, note, room) ==
  IF run.kids[note.child] # note.session THEN [run EXCEPT !.throws = TRUE]
  ELSE LET gone == Subtree(run.kids, note.child)
       IN Receive([run EXCEPT !.kids = [c \in Children |-> IF c \in gone THEN NoSession ELSE @[c]]], r, note, room)

RegisterChild(run, r, note, room) ==
  IF Owns(run, note.child) THEN [run EXCEPT !.throws = TRUE]
  ELSE Receive([run EXCEPT !.kids[note.child] = note.session], r, note, room)

(* handleNotification, for the active Run. *)
Handle(run, r, note, room) ==
  CASE note.kind = "unreadable" -> [run EXCEPT !.throws = TRUE]
    [] note.kind = "started" -> IF run.correlated /\ Owns(run, note.session)
                                THEN RegisterChild(run, r, note, room) ELSE run
    [] note.kind = "finished" -> IF OwnsChild(run, note.child) THEN FinishChild(run, r, note, room) ELSE run
    [] note.kind = "other" -> Receive(run, r, note, room)
    [] OTHER -> IF Owns(run, note.session) THEN Receive(run, r, note, room) ELSE run

-------------------------------------------------------------------------------
(* The Client. *)

Active(r) == active = r /\ r # NoRun

(* abortConnection, when the Runs are `now`. *)
Abort(now) ==
  /\ closed' = TRUE /\ active' = NoRun /\ responding' = (closed /\ responding)
  /\ pipe' = (IF closed THEN pipe ELSE "closed") /\ wire' = IF closed THEN wire ELSE <<>>
  /\ runs' = [r \in Runs |->
       [(IF active = r /\ ~closed THEN Ended(now[r], "connection_aborted") ELSE now[r])
          EXCEPT !.breaks = FALSE, !.throws = FALSE]]

CreateSession(s) ==
  /\ ~closed /\ sessions[s] = "none" /\ sessions' = [sessions EXCEPT ![s] = "open"]
  /\ UNCHANGED <<closed, pipe, closing, active, runs, responding, runtime>>

CloseSession(s) ==
  /\ sessions[s] = "open" /\ \A r \in Runs : Active(r) => runs[r].session # s
  /\ sessions' = [sessions EXCEPT ![s] = "closed"]
  /\ UNCHANGED <<closed, pipe, closing, active, runs, responding, runtime>>

(* Mutant: only a prompt that is not answered conflicts. *)
StartMeanwhile(r, s) ==
  /\ ~closed /\ sessions[s] = "open" /\ runs[r].call = "idle"
  /\ \A q \in Runs : runs[q].call # "prompting"
  /\ runs' = [runs EXCEPT ![r].call = "prompting", ![r].session = s] /\ active' = r
  /\ UNCHANGED <<closed, pipe, closing, sessions, responding, runtime>>

StartRun(r, s) ==
  /\ ~closed /\ sessions[s] = "open" /\ runs[r].call = "idle" /\ active = NoRun
  /\ runs' = [runs EXCEPT ![r].call = "prompting", ![r].session = s] /\ active' = r
  /\ UNCHANGED <<closed, pipe, closing, sessions, responding, runtime>>

Unchanged == UNCHANGED <<closing, sessions, inbox, turn, says, busy, worked, answers, subagents, ended, oddities>>

(* Where the Runs are `now`, that of r came to what it asks for. *)
After(r, now, kept) ==
  IF now[r].breaks \/ now[r].throws THEN Abort(now)
  ELSE /\ runs' = now /\ active' = IF Over(now[r]) /\ active = r THEN NoRun ELSE active
       /\ wire' = kept /\ UNCHANGED <<closed, pipe, responding>>

(* Mutant: the result of a Run that has one is taken back. *)
DiscardedResult(run) == [run EXCEPT !.call = "refused", !.pending = <<>>, !.kids = NoKids, !.final = "none"]

Discarded(run) == [run EXCEPT !.call = "refused", !.pending = <<>>, !.kids = NoKids]

(* Mutant: what the Runtime said before it answered is lost. *)
ForgetPending(r, room) ==
  /\ runs[r].call = "prompting" /\ answers[r] = "accepted"
  /\ LET ready == [runs[r] EXCEPT !.call = "returned", !.pending = <<>>]
     IN After(r, [runs EXCEPT ![r] = ready], wire)
  /\ Unchanged

(* What a Run makes of the notifications kept for it, one after the other. *)
Replayed(run, r, kept, room) ==
  LET sofar[n \in 0..Len(kept)] == IF n = 0 THEN run ELSE Process(sofar[n - 1], r, kept[n], room)
  IN sofar[Len(kept)]

(* startRun fails: the Run is given up before the connection, so nothing settles it. *)
GivenUp(r, run) ==
  /\ closed' = TRUE /\ active' = NoRun /\ responding' = (closed /\ responding)
  /\ pipe' = (IF closed THEN pipe ELSE "closed") /\ wire' = IF closed THEN wire ELSE <<>>
  /\ runs' = [runs EXCEPT ![r] = [Discarded(run) EXCEPT !.breaks = FALSE, !.throws = FALSE]]

(* session/prompt is answered: what was kept is replayed to its last, also past the end of the Run,  *)
(* and what cannot be read has start fail with no Run.                                              *)
Acknowledge(r, room) ==
  /\ runs[r].call = "prompting" /\ answers[r] = "accepted"
  /\ LET kept == IF Over(runs[r]) THEN <<>> ELSE runs[r].pending
         run == Replayed([runs[r] EXCEPT !.call = "returned", !.pending = <<>>], r, kept, room)
     IN IF run.throws THEN GivenUp(r, run) ELSE After(r, [runs EXCEPT ![r] = run], wire)
  /\ Unchanged

(* The Runtime refused: there is nothing it could do. *)
Rejected(r) ==
  /\ runs[r].call = "prompting" /\ answers[r] = "rejected"
  /\ runs' = [runs EXCEPT ![r] = Discarded(@)] /\ active' = IF active = r THEN NoRun ELSE active
  /\ UNCHANGED <<closed, pipe, responding, wire>> /\ Unchanged

(* Mutant: a request without an answer is a request that was refused. *)
StartForgiven(r) ==
  /\ runs[r].call = "prompting"
  /\ runs' = [runs EXCEPT ![r] = Discarded(@)] /\ active' = IF active = r THEN NoRun ELSE active
  /\ UNCHANGED <<closed, pipe, responding, wire>> /\ Unchanged

(* Nobody knows whether it did: the deadline, an answer that cannot be read, the end of the pipe.    *)
StartFails(r) ==
  /\ runs[r].call = "prompting" /\ answers[r] # "rejected" /\ GivenUp(r, runs[r]) /\ Unchanged

TimerFires(r) ==
  /\ Active(r) /\ runs[r].call \in {"prompting", "returned"} /\ ~closed /\ Abort(runs) /\ Unchanged

(* pump: a request of the Runtime is answered before anything else is read. *)
Pump(room) ==
  /\ wire # <<>> /\ ~responding
  /\ LET note == Head(wire) IN
     IF note.kind = "request" THEN
       /\ responding' = TRUE /\ wire' = Tail(wire) /\ UNCHANGED <<closed, pipe, active, runs>>
     ELSE IF active # NoRun THEN
       LET r == active
           run == Handle(runs[r], r, note, room)
       IN After(r, [runs EXCEPT ![r] = IF run.throws THEN Ended(run, "failed") ELSE run], Tail(wire))
     ELSE IF note.kind = "unreadable" /\ ~closed THEN Abort(runs)
     ELSE wire' = Tail(wire) /\ UNCHANGED <<closed, pipe, active, runs, responding>>
  /\ Unchanged

Responded(ok) ==
  /\ responding
  /\ IF ok \/ closed THEN responding' = FALSE /\ UNCHANGED <<closed, pipe, active, runs, wire>> ELSE Abort(runs)
  /\ Unchanged

PipeEnds ==
  /\ pipe = "open" /\ pipe' = "closed" /\ wire' = <<>> /\ responding' = FALSE
  /\ UNCHANGED <<closed, active, runs>> /\ Unchanged

(* pump: the transport has ended. *)
PumpEnds == pipe = "closed" /\ ~closed /\ Abort(runs) /\ Unchanged

(* close: the active Run ends, and the Runtime has a time to shut down. *)
Close ==
  /\ closing = "none" /\ closing' = "shutting" /\ closed' = TRUE /\ active' = NoRun
  /\ runs' = [r \in Runs |-> IF active = r THEN Ended(runs[r], "connection_aborted") ELSE runs[r]]
  /\ UNCHANGED <<pipe, sessions, responding, runtime>>

CloseEnds ==
  /\ closing = "shutting" /\ closing' = "done" /\ pipe' = "closed" /\ wire' = <<>> /\ responding' = FALSE
  /\ UNCHANGED <<closed, sessions, active, runs, inbox, turn, says, busy, worked, answers, subagents, ended, oddities>>

-------------------------------------------------------------------------------
(* The Runtime: a process that works on the messages of a Session one after the other and is idle    *)
(* when there is none. It is not in the repository.                                                 *)

Blank == [kind |-> "event", session |-> NoSession, message |-> NoRun, verdict |-> "none", child |-> NoSession]
Of(kind, s) == [Blank EXCEPT !.kind = kind, !.session = s]
Reports(note) == Len(wire) < MaxWire /\ wire' = Append(wire, note)
Odd == oddities < MaxOddities /\ oddities' = oddities + 1

Enqueue(m, s, odd) ==
  /\ worked[m] = "none" /\ worked' = [worked EXCEPT ![m] = "queued"]
  /\ inbox' = [inbox EXCEPT ![s] = Append(@, m)] /\ busy' = busy \cup {s}
  /\ Reports([Of(IF odd THEN "ambiguous" ELSE "splice", s) EXCEPT !.message = m])

Admit(r, odd) ==
  /\ pipe = "open" /\ runs[r].call = "prompting" /\ answers[r] = "none"
  /\ Enqueue(r, runs[r].session, odd) /\ answers' = [answers EXCEPT ![r] = "accepted"]
  /\ IF odd THEN Odd ELSE UNCHANGED oddities
  /\ UNCHANGED <<client, turn, says, subagents, ended>>

Refuse(r) ==
  /\ pipe = "open" /\ runs[r].call = "prompting" /\ answers[r] = "none"
  /\ answers' = [answers EXCEPT ![r] = "rejected"]
  /\ UNCHANGED <<client, inbox, turn, says, busy, worked, subagents, ended, wire, oddities>>

Garble(r) ==
  /\ pipe = "open" /\ runs[r].call = "prompting" /\ answers[r] = "none"
  /\ Enqueue(r, runs[r].session, FALSE) /\ answers' = [answers EXCEPT ![r] = "malformed"]
  /\ UNCHANGED <<client, turn, says, subagents, ended, oddities>>

(* The native client prompts on its own. *)
NativePrompts(s) ==
  /\ pipe = "open" /\ ~closed /\ Odd /\ Enqueue(Native, s, FALSE)
  /\ UNCHANGED <<client, turn, says, answers, subagents, ended>>

BeginTurn(s) ==
  /\ pipe = "open" /\ turn[s] = NoRun /\ inbox[s] # <<>> /\ Reports(Of("event", s))
  /\ LET m == Head(inbox[s]) IN
     /\ turn' = [turn EXCEPT ![s] = m] /\ inbox' = [inbox EXCEPT ![s] = Tail(@)]
     /\ worked' = [worked EXCEPT ![m] = "working"] /\ says' = [says EXCEPT ![s] = 0]
  /\ UNCHANGED <<client, busy, answers, subagents, ended, oddities>>

Says(s, kind) ==
  /\ pipe = "open" /\ turn[s] # NoRun /\ says[s] < MaxSays /\ says' = [says EXCEPT ![s] = @ + 1]
  /\ Reports(Of(kind, s)) /\ IF kind = "event" THEN UNCHANGED oddities ELSE Odd
  /\ UNCHANGED <<client, inbox, turn, busy, worked, answers, subagents, ended>>

EndTurn(s, verdict) ==
  /\ pipe = "open" /\ turn[s] # NoRun
  /\ Reports([Of("end", s) EXCEPT !.verdict = verdict])
  /\ turn' = [turn EXCEPT ![s] = NoRun] /\ worked' = [worked EXCEPT ![turn[s]] = verdict]
  /\ UNCHANGED <<client, inbox, says, busy, answers, subagents, ended, oddities>>

(* A turn ends and the log does not say how. *)
LoseTurn(s) ==
  /\ pipe = "open" /\ turn[s] # NoRun
  /\ turn' = [turn EXCEPT ![s] = NoRun] /\ worked' = [worked EXCEPT ![turn[s]] = "lost"]
  /\ UNCHANGED <<client, inbox, says, busy, answers, subagents, ended, wire, oddities>>

Idle(s) ==
  /\ pipe = "open" /\ s \in busy /\ turn[s] = NoRun /\ inbox[s] = <<>> /\ busy' = busy \ {s}
  /\ Reports(Of("idle", s))
  /\ UNCHANGED <<client, inbox, turn, says, worked, answers, subagents, ended, oddities>>

Works(p) == IF p \in Sessions THEN turn[p] # NoRun ELSE subagents[p] # NoSession

Spawn(p, c) ==
  /\ pipe = "open" /\ Works(p) /\ subagents[c] = NoSession /\ c \notin ended \cup {p}
  /\ IF p \in Sessions THEN Odd ELSE UNCHANGED oddities
  /\ subagents' = [subagents EXCEPT ![c] = p] /\ Reports([Of("started", p) EXCEPT !.child = c])
  /\ UNCHANGED <<client, inbox, turn, says, busy, worked, answers, ended>>

ChildSays(c, kind) ==
  /\ pipe = "open" /\ subagents[c] # NoSession /\ Odd /\ Reports(Of(kind, c))
  /\ UNCHANGED <<client, inbox, turn, says, busy, worked, answers, subagents, ended>>

ChildEnds(c) ==
  /\ pipe = "open" /\ subagents[c] # NoSession
  /\ subagents' = [subagents EXCEPT ![c] = NoSession] /\ ended' = ended \cup {c}
  /\ Reports([Of("finished", subagents[c]) EXCEPT !.child = c])
  /\ UNCHANGED <<client, inbox, turn, says, busy, worked, answers, oddities>>

(* A notification that is of no Session, cannot be read, or a request. *)
Speaks(kind) ==
  /\ pipe = "open" /\ Odd /\ Reports(Of(kind, NoSession))
  /\ UNCHANGED <<client, inbox, turn, says, busy, worked, answers, subagents, ended>>

-------------------------------------------------------------------------------
RuntimeNext ==
  \/ \E r \in Runs : Refuse(r) \/ Garble(r) \/ \E odd \in BOOLEAN : Admit(r, odd)
  \/ \E s \in Sessions :
       \/ NativePrompts(s) \/ BeginTurn(s) \/ LoseTurn(s) \/ Idle(s)
       \/ \E kind \in {"event", "gap", "required"} : Says(s, kind)
       \/ \E verdict \in Verdicts : EndTurn(s, verdict)
  \/ \E c \in Children :
       \/ ChildEnds(c) \/ \E p \in Owners : Spawn(p, c)
       \/ \E kind \in {"event", "idle"} : ChildSays(c, kind)
  \/ \E kind \in {"unreadable", "other", "request"} : Speaks(kind)

Next ==
  \/ \E s \in Sessions : CreateSession(s) \/ CloseSession(s) \/ \E r \in Runs : StartRun(r, s)
  \/ \E r \in Runs : \/ Rejected(r) \/ StartFails(r) \/ TimerFires(r)
                    \/ \E room \in BOOLEAN : Acknowledge(r, room)
  \/ \E ok \in BOOLEAN : Pump(ok) \/ Responded(ok)
  \/ PipeEnds \/ PumpEnds \/ Close \/ CloseEnds
  \/ RuntimeNext

Spec == Init /\ [][Next]_vars

(* The event loop runs, requests have deadlines, and the Runtime works on what is in its inbox and   *)
(* reads what is written to it.                                                                     *)
Answered(r) == (\E room \in BOOLEAN : Acknowledge(r, room)) \/ Rejected(r) \/ StartFails(r)

Fairness ==
  /\ \A r \in Runs : WF_vars(Answered(r))
  /\ WF_vars(Pump(TRUE)) /\ WF_vars(Responded(TRUE)) /\ WF_vars(PumpEnds) /\ WF_vars(CloseEnds)
  /\ \A s \in Sessions :
       WF_vars(BeginTurn(s)) /\ WF_vars(\E verdict \in Verdicts : EndTurn(s, verdict)) /\ WF_vars(Idle(s))

FairSpec == Spec /\ Fairness

-------------------------------------------------------------------------------
(* While the connection is in use, the Runtime does nothing for a Run that is over or was refused:   *)
(* what session/prompt left uncertain ends the connection, and another Run waits for the idle of     *)
(* the first. The subagents of a Run are those the Runtime has, or says next that they finished.     *)
WorkOwned ==
  /\ TypeOK
  /\ ~closed => \A r \in Runs : worked[r] \in {"queued", "working"} => active = r
  /\ closed => active = NoRun
  /\ \A r \in Runs, c \in Children : runs[r].kids[c] # NoSession =>
       /\ active = r /\ runs[r].correlated
       /\ \/ subagents[c] # NoSession
          \/ \E n \in DOMAIN wire : wire[n].kind = "finished" /\ wire[n].child = c
          \/ pipe = "closed"

(* A Run is completed or cancelled when that is what its own turn came to, however late              *)
(* session/prompt was answered. "Missing ... terminal reasons map to run.failed, never success": the *)
(* code has one exception, when the end of its own turn is missing and a turn of the native client,  *)
(* that was to be worked on first, has ended within the Run.                                        *)
EndsTruthful ==
  \A r \in Runs : runs[r].final \in {"completed", "cancelled"} =>
    runs[r].final = worked[IF worked[r] = "lost" THEN Native ELSE r]

Settled(r) == runs[r].call = "refused" \/ (runs[r].call = "returned" /\ Over(runs[r]))

(* Every start call comes back and every Run ends, and so does close(): they never start again, so   *)
(* that there has to be a time with none under way.                                                 *)
RunsSettle == []<>(closing # "shutting" /\ \A r \in Runs : runs[r].call # "idle" => Settled(r))

Contract == INSTANCE RunContract WITH
  Interactions <- {},
  status <- [r \in Runs |-> IF Over(runs[r]) THEN runs[r].final ELSE IF runs[r].call = "idle" THEN "none" ELSE "active"],
  requested <- [r \in Runs |-> {}], resolved <- [r \in Runs |-> {}]

(* The Run of a connection behaves as the contract of a Run says. *)
ImplementsRunContract == Contract!Spec
================================================================================
