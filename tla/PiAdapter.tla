------------------------------- MODULE PiAdapter -------------------------------
(* providers/pi over RPC: every Session is a process of its own, which the Client starts, speaks to  *)
(* in JSON lines and has to see gone. A fork is a second process on the same native Session that     *)
(* clones it. A Run is a prompt command; that the prompt was accepted, that the agent settled and    *)
(* how its last message ended come apart, in any order, and together say how the Run ended.          *)
(*                                                                                                  *)
(* Abstracted: contents; the event queue, which has room or not; the elapsing of timers. Requests    *)
(* other than extension dialogs that no Run can take are answered "cancelled" at once: when that     *)
(* cannot be written the connection ends, as in PeerFails.                                          *)
EXTENDS Naturals, Sequences, FiniteSets

CONSTANTS
  Sessions,               \* native Sessions
  Handles,                \* openings: each starts a process, and becomes a Session or not
  Runs,                   \* start calls
  MaxPendingRequests,     \* maxPendingRequests
  MaxPendingInteractions, \* maxPendingInteractions
  MaxDialogs,             \* bound: dialogs the processes ask for
  NoRun, NoSession, NoHandle

ASSUME NullAssumption == NoRun \notin Runs /\ NoSession \notin Sessions /\ NoHandle \notin Handles
ASSUME LimitAssumption ==
  MaxPendingRequests \in Nat \ {0} /\ MaxPendingInteractions \in Nat \ {0} /\ MaxDialogs \in Nat

VARIABLES
  client,                 \* connect(): "none", "probing", "failed"; the Client: "open", "closed"
  closing,                \* its closePromise: "none", "waiting", "ok", "failed"
  handles,                \* per opening: where openSessionOnce is, then its PiProcessSession
  openingSessions, forkingSessions,
  sessions,               \* per native Session: the handle the Client has for it
  runs,                   \* per start call: its PiRun and its two requests
  reads, abandoned,       \* per handle: pending reads of the host, and tombstones of those given up
  pendingInteractions,    \* dialogs asked of the host
  responses               \* per dialog: its respond()

(* Of the processes. *)
VARIABLES
  peers,                  \* per handle: "none", "open", "closing" (terminateChild), "gone", "stuck"
  commands,               \* per handle: prompts and aborts written and not read
  remote,                 \* per handle: the Run its agent works on
  said,                   \* per Run: how its last message ended
  created,                \* native Sessions that exist
  dialogs                 \* what was asked, in order: the Run

opening == <<client, closing, openingSessions, forkingSessions, sessions, created>>
process == <<commands, remote, said, dialogs>>
vars == <<opening, handles, runs, reads, abandoned, pendingInteractions, responses, peers, process>>

StopReasons == {"stop", "aborted", "error"}
Terminals == {"completed", "cancelled", "failed", "connection_aborted"}
Requests == {"none", "capacity", "sent", "taken", "declined", "done"}
Unfinished == {"spawn", "get_state", "clone", "child get_state", "cleanup", "terminating"}

TypeOK ==
  /\ client \in {"none", "probing", "failed", "open", "closed"} /\ closing \in {"none", "waiting", "ok", "failed"}
  /\ handles \in [Handles ->
       [at: Unfinished \cup {"free", "made", "refused", "disowned"}, kind: {"none", "create", "resume", "fork"},
        source: Sessions \cup {NoSession}, session: Sessions \cup {NoSession}, active: Runs \cup {NoRun},
        closed: BOOLEAN, aborted: BOOLEAN, forced: {"none", "waiting", "ok", "failed"}]]
  /\ openingSessions \subseteq Handles /\ forkingSessions \subseteq created
  /\ sessions \in [Sessions -> Handles \cup {NoHandle}]
  /\ runs \in [Runs ->
       [start: {"idle", "started"}, owner: Handles \cup {NoHandle}, result: Terminals \cup {"none"},
        incompatible: BOOLEAN, prompt: Requests, abort: Requests, acknowledged: BOOLEAN, settled: BOOLEAN,
        last: StopReasons \cup {"none"}, confirmed: BOOLEAN, timedOut: BOOLEAN,
        cancel: {"none", "aborting", "settling", "native", "connection_aborted", "already_terminal"},
        requested: SUBSET (1..MaxDialogs), resolved: SUBSET (1..MaxDialogs)]]
  /\ reads \in [Handles -> 0..MaxPendingRequests] /\ abandoned \in [Handles -> 0..MaxPendingRequests]
  /\ pendingInteractions \subseteq 1..Len(dialogs)
  /\ responses \in [1..MaxDialogs -> {"none", "sending", "ok", "error"}]
  /\ peers \in [Handles -> {"none", "open", "closing", "gone", "stuck"}]
  /\ commands \in [Handles -> Seq([type: {"prompt", "abort"}, run: Runs])]
  /\ remote \in [Handles -> Runs \cup {NoRun}] /\ said \in [Runs -> StopReasons \cup {"none"}]
  /\ created \subseteq Sessions /\ dialogs \in Seq(Runs)

Init ==
  /\ client = "none" /\ closing = "none"
  /\ handles = [h \in Handles |->
       [at |-> "free", kind |-> "none", source |-> NoSession, session |-> NoSession, active |-> NoRun,
        closed |-> FALSE, aborted |-> FALSE, forced |-> "none"]]
  /\ openingSessions = {} /\ forkingSessions = {} /\ sessions = [s \in Sessions |-> NoHandle]
  /\ runs = [r \in Runs |->
       [start |-> "idle", owner |-> NoHandle, result |-> "none", incompatible |-> FALSE, prompt |-> "none",
        abort |-> "none", acknowledged |-> FALSE, settled |-> FALSE, last |-> "none", confirmed |-> FALSE,
        timedOut |-> FALSE, cancel |-> "none", requested |-> {}, resolved |-> {}]]
  /\ reads = [h \in Handles |-> 0] /\ abandoned = [h \in Handles |-> 0]
  /\ pendingInteractions = {} /\ responses = [n \in 1..MaxDialogs |-> "none"]
  /\ peers = [h \in Handles |-> "none"] /\ commands = [h \in Handles |-> <<>>]
  /\ remote = [h \in Handles |-> NoRun] /\ said = [r \in Runs |-> "none"]
  /\ created = {} /\ dialogs = <<>>

-------------------------------------------------------------------------------
Terminal(r) == runs[r].result # "none"
InSession(h) == handles[h].at = "made"
Usable(h) == InSession(h) /\ ~handles[h].closed /\ ~handles[h].aborted /\ peers[h] = "open"
Open == {h \in Handles : \E s \in Sessions : sessions[s] = h}
DialogsOf(r) == {n \in pendingInteractions : dialogs[n] = r}

(* EventQueue: push() has a place, or the host reads too slowly. Terminal events always have one. *)
Room == BOOLEAN

(* Requests of a peer that wait for a response, and what a request may come to. *)
InFlight == {"sent", "taken", "declined"}
PendingOf(h) ==
  Cardinality({r \in Runs : runs[r].owner = h /\ runs[r].prompt \in InFlight})
  + Cardinality({r \in Runs : runs[r].owner = h /\ runs[r].abort \in InFlight}) + reads[h]
Request(h) == IF PendingOf(h) < MaxPendingRequests THEN "sent" ELSE "capacity"
Outcomes(request) ==
  CASE request = "taken" -> {"ok", "timeout"} [] request = "declined" -> {"remote_rejected", "timeout"}
    [] request = "sent" -> {"timeout"}        [] request = "capacity" -> {"capacity"} [] OTHER -> {}
Sent(h, command) == commands' = [commands EXCEPT ![h] = Append(@, command)]

-------------------------------------------------------------------------------
(* The end of a Run. *)

(* What a cancel() gets that waits for the settlement. *)
CancelAfter(cancel, result) ==
  IF cancel # "settling" THEN cancel
  ELSE CASE result = "cancelled" -> "native" [] result = "connection_aborted" -> result [] OTHER -> "already_terminal"

(* finish(): what was asked and not answered is forgotten, without an event: the Run is over.        *)
Finished(run, result) == [run EXCEPT !.result = result, !.cancel = CancelAfter(@, result)]

(* A dead peer rejects what waits for it: prompts and aborts, also of Runs that are over.            *)
Rejected(request) == IF request \in InFlight \cup {"capacity"} THEN "done" ELSE request
Cut(run) == [run EXCEPT !.prompt = Rejected(@), !.abort = Rejected(@),
                        !.cancel = IF @ = "aborting" THEN "connection_aborted" ELSE @]

ConnectionVars == <<runs, handles, peers, reads, abandoned, pendingInteractions>>

(* Mutant: the process is left alone. *)
EndConnectionOnly(hs, now, after, result) ==
  LET active == {handles[h].active : h \in hs} IN
  /\ runs' = [r \in Runs |->
       LET over == IF r \in active THEN Finished(now[r], result) ELSE now[r]
       IN  IF now[r].owner \in hs THEN Cut(over) ELSE over]
  /\ handles' = [h \in Handles |->
       IF h \in hs THEN [after[h] EXCEPT !.aborted = TRUE, !.active = NoRun] ELSE after[h]]
  /\ reads' = [h \in Handles |-> IF h \in hs THEN 0 ELSE reads[h]]
  /\ abandoned' = [h \in Handles |-> IF h \in hs THEN 0 ELSE abandoned[h]]
  /\ pendingInteractions' = {n \in pendingInteractions : dialogs[n] \notin active}
  /\ UNCHANGED peers

(* abortConnection, failProtocol and forceClose of the handles hs: the active Run ends with it, the  *)
(* peer rejects its requests and its process is told to end.                                        *)
EndConnection(hs, now, after, result) ==
  LET active == {handles[h].active : h \in hs} IN
  /\ runs' = [r \in Runs |->
       LET over == IF r \in active THEN Finished(now[r], result) ELSE now[r]
       IN  IF now[r].owner \in hs THEN Cut(over) ELSE over]
  /\ handles' = [h \in Handles |->
       IF h \in hs THEN [after[h] EXCEPT !.aborted = TRUE, !.active = NoRun] ELSE after[h]]
  /\ peers' = [h \in Handles |-> IF h \in hs /\ peers[h] = "open" THEN "closing" ELSE peers[h]]
  /\ reads' = [h \in Handles |-> IF h \in hs THEN 0 ELSE reads[h]]
  /\ abandoned' = [h \in Handles |-> IF h \in hs THEN 0 ELSE abandoned[h]]
  /\ pendingInteractions' = {n \in pendingInteractions : dialogs[n] \notin active}

Keep(now) == runs' = now /\ UNCHANGED <<handles, peers, reads, abandoned, pendingInteractions>>

AbortConnection(h, now) ==
  IF handles[h].aborted THEN Keep(now) ELSE EndConnection({h}, now, handles, "connection_aborted")

Finish(r, now, result) ==
  /\ runs' = [now EXCEPT ![r] = Finished(@, result)]
  /\ handles' = [handles EXCEPT ![runs[r].owner].active = NoRun]
  /\ pendingInteractions' = pendingInteractions \ DialogsOf(r)
  /\ UNCHANGED <<peers, reads, abandoned>>

(* Mutant: an aborted agent is a cancelled Run, whether the abort was acknowledged or not. *)
OutcomeUnconfirmed(run) ==
  IF ~run.acknowledged \/ ~run.settled THEN "none"
  ELSE CASE run.last = "stop" -> "completed" [] run.last = "aborted" -> "cancelled" [] OTHER -> "failed"

(* finishIfReady: the prompt was accepted and the agent settled. *)
Outcome(run) ==
  IF ~run.acknowledged \/ ~run.settled THEN "none"
  ELSE CASE run.last = "stop" -> "completed"
         [] run.last = "aborted" /\ run.cancel # "none" -> IF run.confirmed THEN "cancelled" ELSE "none"
         [] OTHER -> "failed"

FinishIfReady(r, now) ==
  IF Terminal(r) \/ Outcome(now[r]) = "none" THEN Keep(now) ELSE Finish(r, now, Outcome(now[r]))

-------------------------------------------------------------------------------
(* connect() *)

(* connectionOptions and validateProfile refuse a Profile; its process may not start. *)
ProfileOutcomes == {"ok", "profile_invalid", "spawn failed"}

Connect(profile) ==
  /\ client = "none" /\ profile \in ProfileOutcomes
  /\ client' = IF profile = "ok" THEN "probing" ELSE "failed"
  /\ UNCHANGED <<closing, openingSessions, forkingSessions, sessions, created, ConnectionVars, responses, process>>

(* The process asked for its version has exited, in a version that is known, or failed. *)
Probed(ok) ==
  /\ client = "probing" /\ client' = IF ok THEN "open" ELSE "failed"
  /\ UNCHANGED <<closing, openingSessions, forkingSessions, sessions, created, ConnectionVars, responses, process>>

-------------------------------------------------------------------------------
(* openSessionOnce, of createSession, resumeSession and the fork extension. *)

Opening(h, kind, source) ==
  /\ client = "open" /\ handles[h].at = "free"
  /\ handles' = [handles EXCEPT ![h].at = "spawn", ![h].kind = kind, ![h].source = source]
  /\ openingSessions' = openingSessions \cup {h}
  /\ UNCHANGED <<client, closing, sessions, created, runs, reads, abandoned, pendingInteractions, responses, peers,
                 process>>

Create(h) == Opening(h, "create", NoSession) /\ UNCHANGED forkingSessions

Resume(h, s) == s \in created \ forkingSessions /\ Opening(h, "resume", s) /\ UNCHANGED forkingSessions

(* Mutant: a source is forked under its Run. *)
ForkAnyway(h, s) ==
  /\ s \in created \ forkingSessions
  /\ Opening(h, "fork", s) /\ forkingSessions' = forkingSessions \cup {s}

(* The source is not active, or in use by no Run (assertForkable). *)
Fork(h, s) ==
  /\ s \in created \ forkingSessions
  /\ sessions[s] # NoHandle => Usable(sessions[s]) /\ handles[sessions[s]].active = NoRun
  /\ Opening(h, "fork", s) /\ forkingSessions' = forkingSessions \cup {s}

(* Mutant: an opening is forgotten when it failed, whatever became of its process. *)
ForgottenOpening(h, at, gone) ==
  /\ handles' = [handles EXCEPT ![h].at = at]
  /\ openingSessions' = openingSessions \ {h}
  /\ forkingSessions' = IF handles[h].kind = "fork" THEN forkingSessions \ {handles[h].source} ELSE forkingSessions

(* The opening has failed. It is kept when its process may be there. *)
OpeningFailed(h, at, gone) ==
  /\ handles' = [handles EXCEPT ![h].at = at]
  /\ openingSessions' = IF gone THEN openingSessions \ {h} ELSE openingSessions
  /\ forkingSessions' = IF handles[h].kind = "fork" THEN forkingSessions \ {handles[h].source} ELSE forkingSessions

(* There is no process; or there is one, and its transport refuses its options (all openings of a    *)
(* Client have the same: here each fares by itself).                                                *)
SpawnOutcomes == {"ok", "no process", "no transport"}

(* A Client that was closed meanwhile gives the process up at its first request. *)
Spawned(h, outcome) ==
  /\ handles[h].at = "spawn" /\ outcome \in SpawnOutcomes
  /\ CASE outcome = "ok" ->
            /\ handles' = [handles EXCEPT ![h].at = IF client = "open" THEN "get_state" ELSE "cleanup"]
            /\ peers' = [peers EXCEPT ![h] = IF client = "open" THEN "open" ELSE "closing"]
            /\ UNCHANGED <<openingSessions, forkingSessions>>
       [] outcome = "no process" -> OpeningFailed(h, "refused", TRUE) /\ UNCHANGED peers
       [] outcome = "no transport" ->
            /\ handles' = [handles EXCEPT ![h].at = "terminating"] /\ peers' = [peers EXCEPT ![h] = "closing"]
            /\ UNCHANGED <<openingSessions, forkingSessions>>
  /\ UNCHANGED <<client, closing, sessions, created, runs, reads, abandoned, pendingInteractions, responses, process>>

(* A request of the opening failed, or its answer is none the Client can use. *)
OpeningRejected(h) ==
  /\ handles[h].at \in {"get_state", "clone", "child get_state"}
  /\ handles' = [handles EXCEPT ![h].at = "cleanup"] /\ peers' = [peers EXCEPT ![h] = "closing"]
  /\ UNCHANGED <<opening, runs, reads, abandoned, pendingInteractions, responses, process>>

(* Mutant: a Session the Client has is given out again. *)
BoundAgain(h, s) ==
  /\ handles' = [handles EXCEPT ![h].at = "made", ![h].session = s] /\ sessions' = [sessions EXCEPT ![s] = h]
  /\ openingSessions' = openingSessions \ {h}
  /\ forkingSessions' = IF handles[h].kind = "fork" THEN forkingSessions \ {handles[h].source} ELSE forkingSessions
  /\ created' = created \cup {s} /\ UNCHANGED peers

(* bind(), unless the Client has the Session. *)
Bound(h, s) ==
  /\ IF sessions[s] = NoHandle
     THEN /\ handles' = [handles EXCEPT ![h].at = "made", ![h].session = s]
          /\ sessions' = [sessions EXCEPT ![s] = h] /\ openingSessions' = openingSessions \ {h}
          /\ forkingSessions' = IF handles[h].kind = "fork" THEN forkingSessions \ {handles[h].source}
                                ELSE forkingSessions
          /\ UNCHANGED peers
     ELSE /\ handles' = [handles EXCEPT ![h].at = "cleanup"] /\ peers' = [peers EXCEPT ![h] = "closing"]
          /\ UNCHANGED <<sessions, openingSessions, forkingSessions>>
  /\ created' = created \cup {s}

(* get_state answers an idle Session: for a resume and a fork, that of the reference. *)
StateAnswered(h, s) ==
  /\ handles[h].at = "get_state" /\ (handles[h].kind # "create" => s = handles[h].source)
  /\ IF handles[h].kind = "fork"
     THEN handles' = [handles EXCEPT ![h].at = "clone"]
          /\ UNCHANGED <<openingSessions, forkingSessions, sessions, created, peers>>
     ELSE Bound(h, s)
  /\ UNCHANGED <<client, closing, runs, reads, abandoned, pendingInteractions, responses, process>>

Cloned(h) ==
  /\ handles[h].at = "clone" /\ handles' = [handles EXCEPT ![h].at = "child get_state"]
  /\ UNCHANGED <<opening, runs, reads, abandoned, pendingInteractions, responses, peers, process>>

(* The clone has to be another Session. *)
ChildAnswered(h, s) ==
  /\ handles[h].at = "child get_state" /\ s # handles[h].source /\ Bound(h, s)
  /\ UNCHANGED <<client, closing, runs, reads, abandoned, pendingInteractions, responses, process>>

-------------------------------------------------------------------------------
(* Closing, and the end of a process. *)

(* forceClose: what peer.close() answers when the process has ended, or could not be ended, before.  *)
Forced(handle, peer) ==
  [handle EXCEPT !.closed = TRUE,
                 !.forced = IF @ # "none" THEN @
                           ELSE CASE peer = "gone" -> "ok" [] peer = "stuck" -> "failed" [] OTHER -> "waiting"]

Forget(hs) == sessions' = [s \in Sessions |-> IF sessions[s] \in hs THEN NoHandle ELSE sessions[s]]

CloseSession(h) ==
  /\ InSession(h) /\ handles[h].active = NoRun /\ handles[h].forced = "none"
  /\ handles[h].session \notin forkingSessions
  /\ EndConnection({h}, runs, [handles EXCEPT ![h] = Forced(@, peers[h])], "connection_aborted")
  /\ Forget({h} \cap {g \in Handles : peers[g] = "gone"})
  /\ UNCHANGED <<client, closing, openingSessions, forkingSessions, created, responses, process>>

(* closeOnce: every Session is closed by force, and what is being opened is given up. *)
Close ==
  /\ client = "open" /\ client' = "closed" /\ closing' = "waiting"
  /\ LET waiting == {h \in openingSessions : handles[h].at \in {"get_state", "clone", "child get_state"}} IN
     EndConnection(Open \cup waiting, runs,
       [h \in Handles |-> CASE h \in Open -> Forced(handles[h], peers[h])
                            [] h \in waiting -> [handles[h] EXCEPT !.at = "cleanup"]
                            [] OTHER -> handles[h]], "connection_aborted")
  /\ Forget({h \in Open : peers[h] = "gone"})
  /\ UNCHANGED <<openingSessions, forkingSessions, created, responses, process>>

(* What it waited for has settled: it fails when a process could not be ended. *)
Closed ==
  /\ closing = "waiting"
  /\ \A h \in openingSessions : handles[h].at \notin Unfinished
  /\ \A h \in Open : handles[h].forced # "waiting"
  /\ closing' = IF openingSessions # {} \/ \E h \in Open : handles[h].forced = "failed" THEN "failed" ELSE "ok"
  /\ UNCHANGED <<client, openingSessions, forkingSessions, sessions, created, ConnectionVars, responses, process>>

(* Mutant: a Session that is closed is forgotten, whatever became of its process. *)
PeerEndedForgetting(h, gone) ==
  /\ peers[h] = "closing" /\ peers' = [peers EXCEPT ![h] = IF gone THEN "gone" ELSE "stuck"]
  /\ IF handles[h].at \in {"cleanup", "terminating"} THEN OpeningFailed(h, "refused", gone) /\ UNCHANGED sessions
     ELSE /\ handles' = [handles EXCEPT ![h].forced = IF @ = "waiting" THEN IF gone THEN "ok" ELSE "failed" ELSE @]
          /\ Forget({h}) /\ UNCHANGED <<openingSessions, forkingSessions>>
  /\ commands' = [commands EXCEPT ![h] = <<>>] /\ remote' = [remote EXCEPT ![h] = IF gone THEN NoRun ELSE @]
  /\ UNCHANGED <<client, closing, created, runs, reads, abandoned, pendingInteractions, responses, said, dialogs>>

(* terminateChild: the process has exited, or is there after it was killed. Without a transport, a   *)
(* Client closed meanwhile reports that instead, and does not keep the opening.                     *)
PeerEnded(h, gone) ==
  /\ peers[h] = "closing" /\ peers' = [peers EXCEPT ![h] = IF gone THEN "gone" ELSE "stuck"]
  /\ IF handles[h].at \in {"cleanup", "terminating"}
     THEN LET lost == ~gone /\ handles[h].at = "terminating" /\ client = "closed" IN
          OpeningFailed(h, IF lost THEN "disowned" ELSE "refused", gone \/ lost) /\ UNCHANGED sessions
     ELSE /\ handles' = [handles EXCEPT ![h].forced = IF @ = "waiting" THEN IF gone THEN "ok" ELSE "failed" ELSE @]
          /\ Forget(IF gone /\ handles[h].forced = "waiting" THEN {h} ELSE {})
          /\ UNCHANGED <<openingSessions, forkingSessions>>
  /\ commands' = [commands EXCEPT ![h] = <<>>] /\ remote' = [remote EXCEPT ![h] = IF gone THEN NoRun ELSE @]
  /\ UNCHANGED <<client, closing, created, runs, reads, abandoned, pendingInteractions, responses, said, dialogs>>

(* fail(): the process ended, could not be written to, or does not speak the protocol.               *)
PeerFails(h, protocol) ==
  /\ peers[h] = "open"
  /\ IF InSession(h)
     THEN EndConnection({h},
            [r \in Runs |-> [runs[r] EXCEPT !.incompatible = @ \/ (protocol /\ r = handles[h].active)]],
            handles, IF protocol THEN "failed" ELSE "connection_aborted")
     ELSE /\ handles' = [handles EXCEPT ![h].at = "cleanup"] /\ peers' = [peers EXCEPT ![h] = "closing"]
          /\ UNCHANGED <<runs, reads, abandoned, pendingInteractions>>
  /\ UNCHANGED <<opening, responses, process>>

-------------------------------------------------------------------------------
(* start(), and its prompt. *)

(* Mutant: a Session whose fork is pending starts a Run. *)
StartRunAnyway(r, h) ==
  /\ runs[r].start = "idle" /\ Usable(h) /\ handles[h].active = NoRun
  /\ runs' = [runs EXCEPT ![r].start = "started", ![r].owner = h, ![r].prompt = Request(h)]
  /\ handles' = [handles EXCEPT ![h].active = r]
  /\ IF Request(h) = "sent" THEN Sent(h, [type |-> "prompt", run |-> r]) ELSE UNCHANGED commands
  /\ UNCHANGED <<opening, peers, reads, abandoned, pendingInteractions, responses, remote, said, dialogs>>

StartRun(r, h) ==
  /\ runs[r].start = "idle" /\ Usable(h) /\ handles[h].active = NoRun
  /\ handles[h].session \notin forkingSessions
  /\ runs' = [runs EXCEPT ![r].start = "started", ![r].owner = h, ![r].prompt = Request(h)]
  /\ handles' = [handles EXCEPT ![h].active = r]
  /\ IF Request(h) = "sent" THEN Sent(h, [type |-> "prompt", run |-> r]) ELSE UNCHANGED commands
  /\ UNCHANGED <<opening, peers, reads, abandoned, pendingInteractions, responses, remote, said, dialogs>>

(* Mutant: a prompt nobody answered in time is a refused one. *)
PromptForgiven(r, outcome) ==
  /\ outcome \in Outcomes(runs[r].prompt)
  /\ LET now == [runs EXCEPT ![r].prompt = "done", ![r].acknowledged = @ \/ outcome = "ok"] IN
     CASE outcome = "ok" -> FinishIfReady(r, now)
       [] outcome # "ok" /\ Terminal(r) -> Keep(now)
       [] outcome # "ok" /\ ~Terminal(r) -> Finish(r, now, "failed")
  /\ UNCHANGED <<opening, responses, process>>

(* acknowledgePrompt, or handlePromptFailure: only a rejection says that nothing was started. *)
PromptAnswered(r, outcome) ==
  /\ outcome \in Outcomes(runs[r].prompt)
  /\ LET now == [runs EXCEPT ![r].prompt = "done", ![r].acknowledged = @ \/ outcome = "ok"] IN
     CASE outcome = "ok" -> FinishIfReady(r, now)
       [] outcome # "ok" /\ Terminal(r) -> Keep(now)
       [] outcome = "remote_rejected" /\ ~Terminal(r) -> Finish(r, now, "failed")
       [] outcome \in {"timeout", "capacity"} /\ ~Terminal(r) -> AbortConnection(runs[r].owner, now)
  /\ UNCHANGED <<opening, responses, process>>

-------------------------------------------------------------------------------
(* cancel(), called by the host or by the timer of the Run. *)

Cancel(r, timer) ==
  /\ runs[r].start = "started" /\ ~Terminal(r)
  /\ IF timer THEN ~runs[r].timedOut ELSE runs[r].cancel = "none"
  /\ LET h == runs[r].owner  first == runs[r].cancel = "none" IN
     /\ runs' = [runs EXCEPT ![r].timedOut = @ \/ timer, ![r].cancel = IF first THEN "aborting" ELSE @,
                             ![r].abort = IF first THEN Request(h) ELSE @]
     /\ IF first /\ Request(h) = "sent" THEN Sent(h, [type |-> "abort", run |-> r]) ELSE UNCHANGED commands
  /\ UNCHANGED <<opening, handles, peers, reads, abandoned, pendingInteractions, responses, remote, said, dialogs>>

(* An abort that is acknowledged is no settlement. One that is not ends the connection, also when    *)
(* the Run ended meanwhile.                                                                         *)
AbortAnswered(r, outcome) ==
  /\ outcome \in Outcomes(runs[r].abort)
  /\ LET ok  == outcome = "ok"
         now == [runs EXCEPT ![r].abort = "done", ![r].confirmed = ok,
                             ![r].cancel = CASE ~ok -> "connection_aborted"
                                             [] ok /\ Terminal(r) -> CancelAfter("settling", runs[r].result)
                                             [] ok /\ ~Terminal(r) -> "settling"]
     IN IF ok THEN FinishIfReady(r, now) ELSE AbortConnection(runs[r].owner, now)
  /\ UNCHANGED <<opening, responses, process>>

(* Mutant: only the timer of the Run has a settlement window. *)
CancelGivesUpTimed(r) ==
  /\ runs[r].cancel = "settling" /\ runs[r].timedOut /\ AbortConnection(runs[r].owner, runs)
  /\ UNCHANGED <<opening, responses, process>>

(* Settlement takes longer than cancelSettlementTimeoutMs. *)
CancelGivesUp(r) ==
  /\ runs[r].cancel = "settling" /\ AbortConnection(runs[r].owner, runs)
  /\ UNCHANGED <<opening, responses, process>>

-------------------------------------------------------------------------------
(* Reads of the host (native client), and respond(). *)

Read(h) ==
  /\ client = "open" /\ Usable(h) /\ Request(h) = "sent" /\ reads' = [reads EXCEPT ![h] = @ + 1]
  /\ UNCHANGED <<opening, handles, runs, abandoned, pendingInteractions, responses, peers, process>>

ReadAnswered(h) ==
  /\ reads[h] > 0 /\ reads' = [reads EXCEPT ![h] = @ - 1]
  /\ UNCHANGED <<opening, handles, runs, abandoned, pendingInteractions, responses, peers, process>>

(* abandonPending: a response may come, for which there has to be a tombstone. *)
ReadAbandoned(h) ==
  /\ reads[h] > 0
  /\ IF abandoned[h] >= MaxPendingRequests THEN EndConnection({h}, runs, handles, "connection_aborted")
     ELSE /\ reads' = [reads EXCEPT ![h] = @ - 1] /\ abandoned' = [abandoned EXCEPT ![h] = @ + 1]
          /\ UNCHANGED <<handles, peers, runs, pendingInteractions>>
  /\ UNCHANGED <<opening, responses, process>>

LateResponse(h) ==
  /\ abandoned[h] > 0 /\ abandoned' = [abandoned EXCEPT ![h] = @ - 1]
  /\ UNCHANGED <<opening, handles, runs, reads, pendingInteractions, responses, peers, process>>

Respond(h, n) ==
  /\ Usable(h) /\ n \in pendingInteractions /\ runs[dialogs[n]].owner = h /\ responses[n] = "none"
  /\ responses' = [responses EXCEPT ![n] = "sending"]
  /\ UNCHANGED <<opening, handles, runs, reads, abandoned, pendingInteractions, peers, process>>

(* Mutant: a dialog is reported resolved whether its Run is over or not. *)
WrittenLate(n, ok, room) ==
  /\ responses[n] = "sending" /\ responses' = [responses EXCEPT ![n] = IF ok THEN "ok" ELSE "error"]
  /\ LET r == dialogs[n] IN
     IF ok /\ (room \/ Terminal(r))
     THEN /\ runs' = [runs EXCEPT ![r].resolved = @ \cup {n}]
          /\ pendingInteractions' = pendingInteractions \ {n}
          /\ UNCHANGED <<handles, peers, reads, abandoned>>
     ELSE AbortConnection(runs[r].owner, runs)
  /\ UNCHANGED <<opening, process>>

(* The Run may have ended while the answer was written. One that has not is told, which may find no  *)
(* place in its queue.                                                                              *)
Written(n, ok, room) ==
  /\ responses[n] = "sending" /\ responses' = [responses EXCEPT ![n] = IF ok THEN "ok" ELSE "error"]
  /\ LET r == dialogs[n] IN
     IF ok /\ (room \/ Terminal(r))
     THEN /\ runs' = [runs EXCEPT ![r].resolved = IF Terminal(r) THEN @ ELSE @ \cup {n}]
          /\ pendingInteractions' = pendingInteractions \ {n}
          /\ UNCHANGED <<handles, peers, reads, abandoned>>
     ELSE AbortConnection(runs[r].owner, runs)
  /\ UNCHANGED <<opening, process>>

-------------------------------------------------------------------------------
(* A process, and the events of its agent, which reach the active Run of its Session. *)

Running(h) == peers[h] \in {"open", "closing", "stuck"}

(* A prompt is accepted when the agent is idle. *)
Takes(h, accept) ==
  /\ Running(h) /\ commands[h] # <<>> /\ commands' = [commands EXCEPT ![h] = Tail(@)]
  /\ LET c == Head(commands[h])
         answer(request) == IF request # "sent" THEN request ELSE IF accept THEN "taken" ELSE "declined"
     IN IF c.type = "prompt"
        THEN /\ accept => remote[h] = NoRun
             /\ remote' = [remote EXCEPT ![h] = IF accept THEN c.run ELSE @]
             /\ runs' = [runs EXCEPT ![c.run].prompt = answer(@)]
        ELSE runs' = [runs EXCEPT ![c.run].abort = answer(@)] /\ UNCHANGED remote
  /\ UNCHANGED <<opening, handles, reads, abandoned, pendingInteractions, responses, peers, said, dialogs>>

Heard(h) == peers[h] = "open" /\ handles[h].active # NoRun

(* Mutant: the first message decides. *)
FirstMessage(h, reason) ==
  /\ Running(h) /\ remote[h] # NoRun /\ said' = [said EXCEPT ![remote[h]] = reason]
  /\ runs' = IF Heard(h) THEN [runs EXCEPT ![handles[h].active].last = IF @ = "none" THEN reason ELSE @] ELSE runs
  /\ UNCHANGED <<opening, handles, reads, abandoned, pendingInteractions, responses, peers, commands, remote, dialogs>>

(* message_end, also of an attempt the agent retries. *)
MessageEnds(h, reason) ==
  /\ Running(h) /\ remote[h] # NoRun /\ said' = [said EXCEPT ![remote[h]] = reason]
  /\ runs' = IF Heard(h) THEN [runs EXCEPT ![handles[h].active].last = reason] ELSE runs
  /\ UNCHANGED <<opening, handles, reads, abandoned, pendingInteractions, responses, peers, commands, remote, dialogs>>

(* agent_settled *)
Settles(h) ==
  /\ Running(h) /\ remote[h] # NoRun /\ remote' = [remote EXCEPT ![h] = NoRun]
  /\ IF Heard(h) THEN FinishIfReady(handles[h].active, [runs EXCEPT ![handles[h].active].settled = TRUE])
     ELSE Keep(runs)
  /\ UNCHANGED <<opening, responses, commands, said, dialogs>>

(* An event that finds no place in the queue. *)
Overflows(h) ==
  /\ Running(h) /\ remote[h] # NoRun /\ Heard(h) /\ AbortConnection(h, runs)
  /\ UNCHANGED <<opening, responses, process>>

(* extension_ui_request *)
Asks(h, room) ==
  /\ Running(h) /\ remote[h] # NoRun /\ Len(dialogs) < MaxDialogs /\ Heard(h)
  /\ dialogs' = Append(dialogs, remote[h])
  /\ IF room /\ Cardinality({n \in pendingInteractions : runs[dialogs[n]].owner = h}) < MaxPendingInteractions
     THEN /\ pendingInteractions' = pendingInteractions \cup {Len(dialogs')}
          /\ runs' = [runs EXCEPT ![handles[h].active].requested = @ \cup {Len(dialogs')}]
          /\ UNCHANGED <<handles, peers, reads, abandoned>>
     ELSE AbortConnection(h, runs)
  /\ UNCHANGED <<opening, responses, commands, remote, said>>

-------------------------------------------------------------------------------
OpeningStep(h) ==
  \/ \E outcome \in SpawnOutcomes : Spawned(h, outcome)
  \/ OpeningRejected(h) \/ Cloned(h) \/ \E s \in Sessions : StateAnswered(h, s) \/ ChildAnswered(h, s)

PeerStep(h) == \E gone \in BOOLEAN : PeerEnded(h, gone)
PromptRequest(r) == \E outcome \in Outcomes(runs[r].prompt) : PromptAnswered(r, outcome)
AbortRequest(r) == \E outcome \in Outcomes(runs[r].abort) : AbortAnswered(r, outcome)

Process(h) ==
  \/ \E accept \in BOOLEAN : Takes(h, accept)
  \/ \E reason \in StopReasons : MessageEnds(h, reason)
  \/ Settles(h) \/ Overflows(h) \/ \E room \in Room : Asks(h, room)

Next ==
  \/ (\E profile \in ProfileOutcomes : Connect(profile)) \/ (\E ok \in BOOLEAN : Probed(ok)) \/ Close \/ Closed
  \/ \E h \in Handles :
       \/ Create(h) \/ CloseSession(h) \/ \E s \in Sessions : Resume(h, s) \/ Fork(h, s)
       \/ OpeningStep(h) \/ PeerStep(h) \/ \E protocol \in BOOLEAN : PeerFails(h, protocol)
       \/ Read(h) \/ ReadAnswered(h) \/ ReadAbandoned(h) \/ LateResponse(h)
       \/ \E n \in 1..Len(dialogs) : Respond(h, n)
       \/ Process(h)
  \/ \E r \in Runs :
       \/ \E h \in Handles : StartRun(r, h)
       \/ PromptRequest(r) \/ AbortRequest(r) \/ CancelGivesUp(r) \/ \E timer \in BOOLEAN : Cancel(r, timer)
  \/ \E n \in 1..Len(dialogs), ok \in BOOLEAN, room \in Room : Written(n, ok, room)

Spec == Init /\ [][Next]_vars

(* Requests, the settlement of an abort and the end of a process have timers, and a write ends. The  *)
(* agent and the host have to do nothing.                                                           *)
Fairness ==
  /\ WF_vars(Closed)
  /\ \A h \in Handles : WF_vars(OpeningStep(h)) /\ WF_vars(PeerStep(h))
  /\ \A r \in Runs : WF_vars(PromptRequest(r)) /\ WF_vars(AbortRequest(r)) /\ WF_vars(CancelGivesUp(r))

FairSpec == Spec /\ Fairness

-------------------------------------------------------------------------------
(* A process works on the active Run of its Session, or is being ended: a prompt that was not        *)
(* answered, an abort without an end and a fork that is pending never leave a Session in use where   *)
(* an agent still works. A Session is given out once, and no dialog outlives its Run.                *)
SessionsExclusive ==
  /\ TypeOK
  /\ \A h \in Handles :
       /\ (remote[h] # NoRun /\ peers[h] = "open") => handles[h].active = remote[h]
       /\ handles[h].active # NoRun => peers[h] = "open" /\ handles[h].session \notin forkingSessions
       /\ (handles[h].kind = "fork" /\ handles[h].at \in {"clone", "child get_state"}) =>
            \A g \in Handles : (InSession(g) /\ handles[g].session = handles[h].source /\ peers[g] # "gone") =>
              (remote[g] = NoRun /\ Usable(g)) \/ handles[g].aborted
       /\ \A g \in Handles \ {h} :
            (InSession(g) /\ InSession(h) /\ handles[g].session = handles[h].session) =>
              "gone" \in {peers[g], peers[h]}
  /\ \A n \in pendingInteractions : ~Terminal(dialogs[n])

(* "The Client retains ownership records until cleanup succeeds, so a later close cannot report      *)
(* success for an unconfirmed child": of every process that may be there the Client has a record,    *)
(* and when close() has succeeded there is none. The code has one exception, which that sentence has *)
(* not: close() while a process that never got its transport is told to end, and does not.          *)
ProcessesOwned ==
  \A h \in {g \in Handles : handles[g].at # "disowned"} :
    /\ peers[h] \in {"open", "closing", "stuck"} => h \in openingSessions \/ h \in Open
    /\ closing = "ok" => peers[h] \in {"none", "gone"}

(* A Run is completed or cancelled when the agent, settled, said so last and, for a cancelled one,   *)
(* the abort was acknowledged; a lost connection is never reused; cancel() never says more than the  *)
(* Run came to.                                                                                     *)
EndsTruthful ==
  \A r \in Runs :
    /\ runs[r].result = "completed" => said[r] = "stop"
    /\ runs[r].result = "cancelled" => (said[r] = "aborted" /\ runs[r].confirmed)
    /\ (runs[r].result = "failed" /\ runs[r].acknowledged /\ ~runs[r].incompatible) => said[r] # "stop"
    /\ runs[r].result = "connection_aborted" => peers[runs[r].owner] # "open"
    /\ runs[r].cancel = "native" => runs[r].result = "cancelled"
    /\ runs[r].cancel \in {"already_terminal", "connection_aborted"} => Terminal(r)

(* Openings, prompts, cancel() and close() settle, whatever the processes do. *)
PiSettles ==
  /\ \A h \in Handles : handles[h].at \in Unfinished ~> handles[h].at \notin Unfinished
  /\ \A r \in Runs : /\ runs[r].prompt \in InFlight \cup {"capacity"} ~> runs[r].prompt = "done"
                     /\ runs[r].cancel \in {"aborting", "settling"} ~> Terminal(r)
                     /\ runs[r].cancel = "aborting" ~> runs[r].cancel # "aborting"
  /\ closing = "waiting" ~> closing \in {"ok", "failed"}

Contract == INSTANCE RunContract WITH
  Interactions <- 1..MaxDialogs,
  status <- [r \in Runs |-> CASE runs[r].start # "started" -> "none"
                             [] runs[r].start = "started" /\ Terminal(r) -> runs[r].result
                             [] runs[r].start = "started" /\ ~Terminal(r) -> "active"],
  requested <- [r \in Runs |-> runs[r].requested],
  resolved <- [r \in Runs |-> runs[r].resolved]

(* The Runs a Client hands out behave as the contract of a Run says. *)
ImplementsRunContract == Contract!Spec
===============================================================================
