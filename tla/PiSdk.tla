--------------------------------- MODULE PiSdk ---------------------------------
(* providers/pi over the embedded SDK: a factory of the host makes native Sessions, each of which    *)
(* becomes the property of one HarnessSession of one Client. A call of the factory that comes too    *)
(* late is disposed of when it comes. The prompt of a Run has to settle, and an abort that was asked *)
(* for has to be confirmed, before the last message of the agent decides how the Run ended.          *)
(*                                                                                                  *)
(* Abstracted: contents; the event queue, which has room or not; the elapsing of timers. What        *)
(* follows in promise callbacks without a wait is one step.                                         *)
EXTENDS Naturals, FiniteSets

CONSTANTS
  Natives,                \* objects the factory returns
  Openings,               \* createSession calls, and the Sessions they make
  Runs,                   \* start calls
  MaxSessions,            \* 16: sessions and openings together
  NoRun, NoNative, NoOpening

SdkAssumption ==
  NoRun \notin Runs /\ NoNative \notin Natives /\ NoOpening \notin Openings /\ MaxSessions \in Nat \ {0}

VARIABLES
  closed,                 \* of the Client
  openings,               \* per createSession: the call, its factory and its Session
  claimed,                \* natives some Session has had
  sessions,               \* Sessions the Client closes with itself
  runs                    \* per start call: its PiSdkRun

(* Of the host's natives. *)
VARIABLES
  natives,                \* what was called on them: "none", "owned", "disposed"
  working                 \* per Session: the Run whose prompt has not settled

sdkVars == <<closed, openings, claimed, sessions, runs, natives, working>>

StopReasons == {"stop", "aborted", "error"}
Terminals == {"completed", "cancelled", "failed", "connection_aborted"}

SdkTypeOK ==
  /\ closed \in BOOLEAN /\ claimed \subseteq Natives /\ sessions \subseteq Openings
  /\ openings \in [Openings ->
       [call: {"free", "waiting", "made", "refused"}, factory: {"none", "pending", "returned"}, aborted: BOOLEAN,
        native: Natives \cup {NoNative}, closed: BOOLEAN, active: Runs \cup {NoRun}]]
  /\ runs \in [Runs ->
       [owner: Openings \cup {NoOpening}, final: Terminals \cup {"none"},
        prompt: {"none", "queued", "prompting", "resolved", "rejected"}, last: StopReasons \cup {"none"},
        said: StopReasons \cup {"none"}, abort: {"none", "pending", "confirmed", "failed"},
        cancel: {"none", "waiting", "native", "connection_aborted", "already_terminal"}]]
  /\ natives \in [Natives -> {"none", "owned", "disposed"}] /\ working \in [Openings -> Runs \cup {NoRun}]

SdkInit ==
  /\ closed = FALSE /\ claimed = {} /\ sessions = {}
  /\ openings = [o \in Openings |-> [call |-> "free", factory |-> "none", aborted |-> FALSE, native |-> NoNative,
                                     closed |-> FALSE, active |-> NoRun]]
  /\ runs = [r \in Runs |-> [owner |-> NoOpening, final |-> "none", prompt |-> "none", last |-> "none",
                             said |-> "none", abort |-> "none", cancel |-> "none"]]
  /\ natives = [n \in Natives |-> "none"] /\ working = [o \in Openings |-> NoRun]

-------------------------------------------------------------------------------
(* createSession: the Session is ready, the factory fails, or the deadline or close() comes first.   *)

Waiting == {o \in Openings : openings[o].call = "waiting"}

Create(o) ==
  /\ ~closed /\ openings[o].call = "free" /\ Cardinality(sessions) + Cardinality(Waiting) < MaxSessions
  /\ openings' = [openings EXCEPT ![o].call = "waiting", ![o].factory = "pending"]
  /\ UNCHANGED <<closed, claimed, sessions, runs, natives, working>>

GivesUp(o) ==
  /\ openings[o].call = "waiting"
  /\ openings' = [openings EXCEPT ![o].call = "refused", ![o].aborted = TRUE]
  /\ UNCHANGED <<closed, claimed, sessions, runs, natives, working>>

FactoryFails(o) ==
  /\ openings[o].factory = "pending"
  /\ openings' = [openings EXCEPT ![o].factory = "returned", ![o].aborted = TRUE,
                                  ![o].call = IF @ = "waiting" THEN "refused" ELSE @]
  /\ UNCHANGED <<closed, claimed, sessions, runs, natives, working>>

(* Mutant: nobody looks whether the call was given up meanwhile. *)
LateNativeKept(o, n, idle) ==
  /\ openings[o].factory = "pending"
  /\ LET adopted == n \notin claimed /\ idle IN
     /\ openings' = [openings EXCEPT ![o].factory = "returned", ![o].aborted = TRUE,
                       ![o].native = IF adopted THEN n ELSE @,
                       ![o].call = IF @ # "waiting" THEN @ ELSE IF adopted THEN "made" ELSE "refused"]
     /\ claimed' = claimed \cup {n}
     /\ sessions' = IF adopted /\ openings[o].call = "waiting" THEN sessions \cup {o} ELSE sessions
     /\ natives' = IF n \in claimed THEN natives ELSE [natives EXCEPT ![n] = IF adopted THEN "owned" ELSE "disposed"]
  /\ UNCHANGED <<closed, runs, working>>

(* The factory returns an object, which is somebody's already, comes too late, is not idle (or has   *)
(* the identity of another), or becomes a Session.                                                  *)
FactoryReturns(o, n, idle) ==
  /\ openings[o].factory = "pending"
  /\ LET adopted == n \notin claimed /\ ~openings[o].aborted /\ idle IN
     /\ openings' = [openings EXCEPT ![o].factory = "returned", ![o].aborted = TRUE,
                       ![o].native = IF adopted THEN n ELSE @,
                       ![o].call = IF @ # "waiting" THEN @ ELSE IF adopted THEN "made" ELSE "refused"]
     /\ claimed' = claimed \cup {n}
     /\ sessions' = IF adopted THEN sessions \cup {o} ELSE sessions
     /\ natives' = IF n \in claimed THEN natives ELSE [natives EXCEPT ![n] = IF adopted THEN "owned" ELSE "disposed"]
  /\ UNCHANGED <<closed, runs, working>>

-------------------------------------------------------------------------------
(* The end of a Run, and of a Session. *)

(* What a cancel() gets that waits for the settlement. *)
CancelAfter(run, result) ==
  IF run.cancel # "waiting" \/ run.abort # "confirmed" THEN run.cancel
  ELSE CASE result = "cancelled" -> "native" [] result = "connection_aborted" -> result [] OTHER -> "already_terminal"

Finished(run, result) ==
  IF run.final # "none" THEN run ELSE [run EXCEPT !.final = result, !.cancel = CancelAfter(run, result)]

(* Mutant: an active Run does not notice that its Session is closed. *)
ReleaseOnly(os, now, result) ==
  /\ runs' = [r \in Runs |-> IF now[r].owner \in os /\ result # "connection_aborted" /\ openings[now[r].owner].active = r
                             THEN Finished(now[r], result) ELSE now[r]]
  /\ openings' = [o \in Openings |->
       IF o \in os THEN [openings[o] EXCEPT !.closed = TRUE, !.active = NoRun] ELSE openings[o]]
  /\ natives' = [n \in Natives |-> IF n \in {openings[o].native : o \in os} THEN "disposed" ELSE natives[n]]
  /\ sessions' = sessions \ os /\ UNCHANGED <<closed, claimed>>

(* close() of Sessions, by the host, the Client or a Run of theirs that ends with `result`.          *)
Release(os, now, result) ==
  /\ runs' = [r \in Runs |-> IF now[r].owner \in os /\ openings[now[r].owner].active = r
                             THEN Finished(now[r], result) ELSE now[r]]
  /\ openings' = [o \in Openings |->
       IF o \in os THEN [openings[o] EXCEPT !.closed = TRUE, !.active = NoRun] ELSE openings[o]]
  /\ natives' = [n \in Natives |-> IF n \in {openings[o].native : o \in os} THEN "disposed" ELSE natives[n]]
  /\ sessions' = sessions \ os /\ UNCHANGED <<closed, claimed>>

Disconnect(r, now) == Release({runs[r].owner}, now, "connection_aborted")
Fail(r, now) == Release({runs[r].owner}, now, "failed")

Finish(r, now, result) ==
  /\ runs' = [now EXCEPT ![r] = Finished(@, result)]
  /\ openings' = [openings EXCEPT ![runs[r].owner].active = NoRun]
  /\ UNCHANGED <<closed, claimed, sessions, natives>>

CloseSession(o) == o \in sessions /\ Release({o}, runs, "connection_aborted") /\ UNCHANGED working

Close ==
  /\ ~closed /\ closed' = TRUE
  /\ LET after == [o \in Openings |-> IF o \in Waiting THEN [openings[o] EXCEPT !.aborted = TRUE, !.call = "refused"]
                                      ELSE openings[o]]
     IN openings' = [o \in Openings |->
          IF o \in sessions THEN [after[o] EXCEPT !.closed = TRUE, !.active = NoRun] ELSE after[o]]
  /\ runs' = [r \in Runs |-> IF runs[r].owner \in sessions /\ openings[runs[r].owner].active = r
                             THEN Finished(runs[r], "connection_aborted") ELSE runs[r]]
  /\ natives' = [n \in Natives |-> IF n \in {openings[o].native : o \in sessions} THEN "disposed" ELSE natives[n]]
  /\ sessions' = {} /\ UNCHANGED <<claimed, working>>

-------------------------------------------------------------------------------
(* Runs. *)

Terminal(r) == runs[r].final # "none"

StartRun(r, o) ==
  /\ runs[r].owner = NoOpening /\ openings[o].call = "made" /\ ~openings[o].closed
  /\ openings[o].active = NoRun /\ working[o] = NoRun
  /\ runs' = [runs EXCEPT ![r].owner = o, ![r].prompt = "queued"]
  /\ openings' = [openings EXCEPT ![o].active = r]
  /\ UNCHANGED <<closed, claimed, sessions, natives, working>>

(* A Run that ended at once prompts nothing. *)
Prompts(r) ==
  /\ runs[r].prompt = "queued"
  /\ runs' = [runs EXCEPT ![r].prompt = IF Terminal(r) THEN "resolved" ELSE "prompting"]
  /\ working' = IF Terminal(r) THEN working ELSE [working EXCEPT ![runs[r].owner] = r]
  /\ UNCHANGED <<closed, openings, claimed, sessions, natives>>

Result(run) ==
  CASE run.last = "stop" -> "completed"
    [] run.last = "aborted" /\ run.abort = "confirmed" -> "cancelled" [] OTHER -> "failed"

(* Mutant: an abort that is not answered does not keep the Run from its end. *)
CompleteEarly(r, now) ==
  IF ~Terminal(r) /\ now[r].prompt = "resolved" THEN Finish(r, now, Result(now[r]))
  ELSE runs' = now /\ UNCHANGED <<closed, openings, claimed, sessions, natives>>

(* complete(): the prompt has settled, and an abort that was asked for is confirmed. *)
Complete(r, now) ==
  LET ready == ~Terminal(r) /\ now[r].prompt = "resolved" /\ now[r].abort \in {"none", "confirmed"}
      lost  == now[r].last = "none" /\ now[r].abort = "confirmed"
  IN CASE ~ready          -> runs' = now /\ UNCHANGED <<closed, openings, claimed, sessions, natives>>
       [] ready /\ lost   -> Disconnect(r, now)
       [] ready /\ ~lost  -> Finish(r, now, Result(now[r]))

PromptSettles(r, ok) ==
  /\ runs[r].prompt = "prompting" /\ working' = [working EXCEPT ![runs[r].owner] = NoRun]
  /\ IF ok THEN Complete(r, [runs EXCEPT ![r].prompt = "resolved"])
     ELSE Fail(r, [runs EXCEPT ![r].prompt = "rejected"])

(* message_end: an event of the native reaches the active Run while the Session listens. *)
MessageEnds(r, reason) ==
  /\ runs[r].prompt = "prompting" /\ working[runs[r].owner] = r
  /\ runs' = [runs EXCEPT ![r].said = reason,
                          ![r].last = IF openings[runs[r].owner].active = r THEN reason ELSE @]
  /\ UNCHANGED <<closed, openings, claimed, sessions, natives, working>>

(* An event that has no place in the queue or is too large, or that cannot be read. *)
EventFails(r, readable) ==
  /\ runs[r].prompt = "prompting" /\ openings[runs[r].owner].active = r
  /\ IF readable THEN Disconnect(r, runs) ELSE Fail(r, runs)
  /\ UNCHANGED working

TimerFires(r) ==
  /\ runs[r].owner # NoOpening /\ ~Terminal(r) /\ Disconnect(r, runs) /\ UNCHANGED working

Cancel(r) ==
  /\ runs[r].owner # NoOpening /\ ~Terminal(r) /\ runs[r].cancel = "none"
  /\ runs' = [runs EXCEPT ![r].cancel = "waiting", ![r].abort = "pending"]
  /\ UNCHANGED <<closed, openings, claimed, sessions, natives, working>>

(* abort() settles, or its deadline elapses. *)
AbortSettles(r, ok) ==
  /\ runs[r].abort = "pending"
  /\ LET now   == [runs EXCEPT ![r].abort = IF ok THEN "confirmed" ELSE "failed"]
         waits == [runs[r] EXCEPT !.abort = "confirmed"]
     IN IF ok THEN Complete(r, IF Terminal(r) THEN [now EXCEPT ![r].cancel = CancelAfter(waits, runs[r].final)] ELSE now)
        ELSE Disconnect(r, [now EXCEPT ![r].cancel = "connection_aborted"])
  /\ UNCHANGED working

(* Settlement takes longer than the deadline. *)
CancelGivesUp(r) ==
  runs[r].abort = "confirmed" /\ runs[r].cancel = "waiting" /\ Disconnect(r, runs) /\ UNCHANGED working

-------------------------------------------------------------------------------
AbortStep(r) == \E ok \in BOOLEAN : AbortSettles(r, ok)

SdkNext ==
  \/ Close
  \/ \E o \in Openings :
       \/ Create(o) \/ GivesUp(o) \/ FactoryFails(o) \/ CloseSession(o)
       \/ \E n \in Natives, idle \in BOOLEAN : FactoryReturns(o, n, idle)
  \/ \E r \in Runs :
       \/ \E o \in Openings : StartRun(r, o)
       \/ Prompts(r) \/ TimerFires(r) \/ Cancel(r) \/ AbortStep(r) \/ CancelGivesUp(r)
       \/ \E ok \in BOOLEAN : PromptSettles(r, ok) \/ EventFails(r, ok)
       \/ \E reason \in StopReasons : MessageEnds(r, reason)

SdkSpec == SdkInit /\ [][SdkNext]_sdkVars

(* Deadlines elapse: of createSession, of a Run, of abort() and of the settlement. The factory and   *)
(* the native have to do nothing.                                                                   *)
SdkFairness ==
  /\ \A o \in Openings : WF_sdkVars(GivesUp(o))
  /\ \A r \in Runs : WF_sdkVars(TimerFires(r)) /\ WF_sdkVars(AbortStep(r)) /\ WF_sdkVars(CancelGivesUp(r))

-------------------------------------------------------------------------------
(* Every native the host handed over is disposed of or is the property of one open Session, which    *)
(* the Client closes with itself, also when it came after createSession had failed; a Session that   *)
(* is in use has no prompt of a Run that is over.                                                   *)
NativesOwned ==
  /\ SdkTypeOK
  /\ \A n \in Natives :
       natives[n] = "owned" <=> (\E o \in sessions : openings[o].native = n /\ ~openings[o].closed)
  /\ \A o, p \in Openings : (o # p /\ openings[o].native # NoNative) => openings[o].native # openings[p].native
  /\ \A o \in sessions : working[o] \in {NoRun, openings[o].active}
  /\ closed => sessions = {}
  /\ Cardinality(sessions) + Cardinality(Waiting) <= MaxSessions

(* A Run is completed or cancelled when its prompt settled and the agent said so last, and no abort  *)
(* was without an answer then; cancel() says what the Run came to.                                  *)
SdkEndsTruthful ==
  \A r \in Runs :
    /\ runs[r].final = "completed" => (runs[r].prompt = "resolved" /\ runs[r].said = "stop")
    /\ runs[r].final = "cancelled" => (runs[r].said = "aborted" /\ runs[r].abort = "confirmed")
    /\ (runs[r].final \in {"completed", "cancelled"}) => runs[r].abort \in {"none", "confirmed"}
    /\ runs[r].cancel = "native" => runs[r].final = "cancelled"
    /\ runs[r].cancel = "connection_aborted" => Terminal(r)
    /\ (Terminal(r) /\ runs[r].final # "connection_aborted" /\ runs[r].abort = "none") => runs[r].cancel = "none"

(* createSession, Runs and cancel() settle. *)
SdkSettles ==
  /\ \A o \in Openings : openings[o].call = "waiting" ~> openings[o].call # "waiting"
  /\ \A r \in Runs : /\ runs[r].owner # NoOpening ~> Terminal(r)
                     /\ runs[r].cancel = "waiting" ~> runs[r].cancel # "waiting"

SdkContract == INSTANCE RunContract WITH
  Interactions <- {},
  status <- [r \in Runs |-> IF runs[r].owner = NoOpening THEN "none"
                             ELSE IF Terminal(r) THEN runs[r].final ELSE "active"],
  requested <- [r \in Runs |-> {}], resolved <- [r \in Runs |-> {}]

(* The Runs of the embedded SDK behave as the contract of a Run says. *)
SdkImplementsRunContract == SdkContract!Spec
===============================================================================
