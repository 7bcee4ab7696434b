-------------------------- MODULE HostRuntimeProofs --------------------------
(* Proofs about HostRuntime, for any number of calls on the chat, and after them about the two       *)
(* modules MCHost has beside it: the Fake Provider and the publication of a release.                *)
(* Released: what the entry points and the chat know of their handles at every stage of their       *)
(* setup and cleanup. Engaged: which calls may still be in progress at the provider.               *)
EXTENDS MCHost, FiniteSetTheorems, SequenceTheorems, TLAPS

(* The race and the cleanup go together; a chat exists only once both are over. *)
RaceInv ==
  /\ cleanup = "none" <=> outcome = "none"
  /\ stopped <=> outcome # "none" /\ ~ChatReturned
  /\ ChatReturned => cleanup = "done" /\ stage = "returned"
  /\ ~ChatReturned => closePromise = "unset" /\ ~busy /\ ~closed

(* A handle is open only where somebody knows it: the registry, or a variable of the entry point    *)
(* until its cleanup has come past it.                                                              *)
OpenIsOwned ==
  /\ handle["session"] = "open" => "session" \in owned
  /\ handle["client"] = "open" => stage \in Probes \/ "client" \in owned
  /\ stage \in {"prepare", "connect", "rejecting", "lateClient"} \cup Probes => owned = {}
  /\ stopped /\ "client" \in owned => handle["client"] # "open"
  /\ stopped /\ cleanup # "client" /\ "session" \in owned => handle["session"] # "open"

(* Only run() goes on to start a Run. *)
RunStages == stage \in {"start", "events", "handler", "closing"} => kind = "run"

(* The shared close of a chat has asked the handles it has come to. *)
ChatCloseInv ==
  /\ closePromise = "pending" => /\ toClose # <<>> /\ handle[Head(toClose)] # "open"
                                 /\ \A h \in Handles : handle[h] = "open" => h = toClose[Len(toClose)]
  /\ closePromise = "settled" => \A h \in Handles : handle[h] # "open"

Released == RaceInv /\ OpenIsOwned /\ ChatCloseInv

Live(r)    == task[r] \in {"starting", "active"}
Engaged(c) == op[c] \in InCall \/ Live(c)

(* A Run may outlive the send() that gave it up, but then the chat is closed. *)
EngagedInv ==
  /\ Live("main") => kind = "run"
  /\ \A c \in Calls : /\ Engaged(c) => ChatReturned
                      /\ Live(c) => op[c] \in InCall \/ closed
                      /\ op[c] = "aborting" => closed
                      /\ \A d \in Calls : Engaged(c) /\ Engaged(d) => c = d

HostInv == TypeOK /\ Released /\ RunStages /\ EngagedInv /\ BusyTracksCalls

-------------------------------------------------------------------------------
(* Handles, decisions and the order of a chat's close. *)

HandleStates == {"absent", "open", "closing", "closed", "failed"}

LEMMA HandleSteps ==
  ASSUME NEW hs \in [Handles -> HandleStates], NEW h \in Handles, NEW ok \in BOOLEAN
  PROVE  /\ Calling(hs, h) \in [Handles -> HandleStates]
         /\ Calling(hs, h)[h] = "closing"
         /\ \A g \in Handles : g # h => Calling(hs, h)[g] = hs[g]
         /\ Settling(hs, h, ok) \in [Handles -> HandleStates]
         /\ Settling(hs, h, ok)[h] \in {"closed", "failed"}
         /\ \A g \in Handles : g # h => Settling(hs, h, ok)[g] = hs[g]
  BY DEF Calling, Settling, HandleStates

LEMMA SettlingOpensNone ==
  ASSUME NEW hs \in [Handles -> HandleStates], NEW h \in Handles, NEW ok \in BOOLEAN,
         NEW g \in Handles, Settling(hs, h, ok)[g] = "open"
  PROVE  hs[g] = "open"
  BY DEF Settling

(* What Decide leaves: the old decision, or the new one with the Client asked to close. *)
LEMMA DecideSteps ==
  ASSUME NEW o \in {"ok", "timeout", "error"}, NEW hs \in [Handles -> HandleStates], Decide(o, hs)
  PROVE  \/ /\ outcome # "none" /\ handle' = hs
            /\ UNCHANGED <<outcome, stopped, cleanup>>
         \/ /\ outcome = "none" /\ outcome' = o
            /\ kind = "openSession" /\ o = "ok"
            /\ cleanup' = "done" /\ handle' = hs /\ stopped' = stopped
         \/ /\ outcome = "none" /\ outcome' = o
            /\ kind = "run" \/ o # "ok"
            /\ cleanup' = "client" /\ stopped' = TRUE
            /\ handle' \in [Handles -> HandleStates]
            /\ handle'["session"] = hs["session"]
            /\ "client" \in owned => handle'["client"] = "closing"
            /\ "client" \notin owned => handle'["client"] = hs["client"]
<1>1. CASE outcome # "none"
  BY <1>1 DEF Decide
<1>2. CASE outcome = "none" /\ kind = "openSession" /\ o = "ok"
  BY <1>2 DEF Decide
<1>3. CASE outcome = "none" /\ (kind = "run" \/ o # "ok")
  <2>1. /\ outcome' = o /\ cleanup' = "client" /\ stopped' = TRUE
        /\ handle' = IF "client" \in owned THEN Calling(hs, "client") ELSE hs
    BY <1>3 DEF Decide
  <2>2. CASE "client" \in owned
    BY <2>1, <2>2, HandleSteps, <1>3 DEF Handles
  <2>3. CASE "client" \notin owned
    BY <1>3, <2>1, <2>3
  <2> QED BY <2>2, <2>3
<1>4. outcome = "none" => (kind = "openSession" /\ o = "ok") \/ kind = "run" \/ o # "ok"
  BY <1>3 DEF Decide
<1> QED BY <1>1, <1>2, <1>3, <1>4

CloseOrders ==
  {<<>>, <<"client">>, <<"session">>, <<"client", "session">>, <<"session", "client">>}

LEMMA OrderSteps ==
  ASSUME NEW q \in CloseOrders, q # <<>>
  PROVE  /\ Head(q) \in Handles /\ Tail(q) \in CloseOrders
         /\ q[Len(q)] \in Handles
         /\ Tail(q) = <<>> => Head(q) = q[Len(q)]
         /\ Tail(q) # <<>> => /\ Head(Tail(q)) = q[Len(q)]
                             /\ Tail(q)[Len(Tail(q))] = q[Len(q)]
                             /\ Head(q) # q[Len(q)]
<1>1. CASE q = <<"client">>
  BY <1>1 DEF Handles, CloseOrders
<1>4. CASE q = <<"session">>
  BY <1>4 DEF Handles, CloseOrders
<1>2. CASE q = <<"client", "session">>
  BY <1>2 DEF Handles, CloseOrders
<1>3. CASE q = <<"session", "client">>
  BY <1>3 DEF Handles, CloseOrders
<1> QED BY <1>1, <1>2, <1>3, <1>4 DEF CloseOrders

-------------------------------------------------------------------------------
(* Types. *)

Stages == {"prepare", "connect", "rejecting", "lateClient", "create", "lateSession", "start",
           "events", "handler", "closing", "returned", "threw"} \cup Probes

SetupTyped ==
  /\ kind \in {"run", "openSession"} /\ stage \in Stages
  /\ stopped \in BOOLEAN /\ cleanupFailed \in BOOLEAN
  /\ outcome \in {"none", "ok", "timeout", "error"}
  /\ owned \subseteq Handles
  /\ cleanup \in {"none", "client", "session", "done"}

HandleTyped == handle \in [Handles -> HandleStates]
TaskTyped   == task \in [Calls \cup {"main"} -> {"none", "starting", "active", "settled"}]

ChatTyped ==
  /\ closed \in BOOLEAN /\ busy \in BOOLEAN
  /\ closePromise \in {"unset", "pending", "settled"}
  /\ toClose \in CloseOrders
  /\ op \in [Calls -> InCall \cup {"idle", "refused", "ok", "failed"}]

Typed == SetupTyped /\ HandleTyped /\ TaskTyped /\ ChatTyped

LEMMA TypedIsTypeOK == Typed <=> TypeOK
  BY DEF Typed, SetupTyped, HandleTyped, TaskTyped, ChatTyped, TypeOK, Stages, HandleStates,
         CloseOrders

LEMMA ChatUntouched == ChatTyped /\ UNCHANGED chatVars => ChatTyped'
  BY DEF ChatTyped, chatVars

LEMMA SetupUntouched == SetupTyped /\ UNCHANGED setupVars => SetupTyped'
  BY DEF SetupTyped, setupVars

LEMMA DecideTyped ==
  ASSUME Typed, NEW o \in {"ok", "timeout", "error"}, NEW hs \in [Handles -> HandleStates],
         Decide(o, hs), stage' \in Stages, owned' \subseteq Handles,
         UNCHANGED <<kind, cleanupFailed>>
  PROVE  SetupTyped' /\ HandleTyped'
<1>1. /\ outcome' \in {"none", "ok", "timeout", "error"}
      /\ cleanup' \in {"none", "client", "session", "done"}
      /\ stopped' \in BOOLEAN /\ handle' \in [Handles -> HandleStates]
  BY DecideSteps DEF Typed, SetupTyped
<1> QED BY <1>1 DEF Typed, SetupTyped, HandleTyped

LEMMA ThrowTyped ==
  ASSUME Typed, NEW hs \in [Handles -> HandleStates], Throw(hs), owned' = owned,
         UNCHANGED <<kind, cleanupFailed>>
  PROVE  SetupTyped' /\ HandleTyped'
<1>1. stage' \in Stages /\ owned' \subseteq Handles
  BY DEF Throw, Stages, Typed, SetupTyped
<1> QED BY <1>1, DecideTyped DEF Throw

(* Steps of the setup that decide nothing. *)
LEMMA UndecidedTyped ==
  ASSUME Typed, stage' \in Stages, owned' \subseteq Handles,
         handle' \in [Handles -> HandleStates],
         UNCHANGED <<kind, outcome, stopped, cleanup, cleanupFailed>>
  PROVE  SetupTyped' /\ HandleTyped'
  BY DEF Typed, SetupTyped, HandleTyped

LEMMA SetupStepTyped == Typed /\ SetupNext => Typed'
<1> SUFFICES ASSUME Typed, SetupNext PROVE Typed'
  OBVIOUS
<1> USE DEF Stages, Probes
<1>h. handle \in [Handles -> HandleStates] /\ "client" \in Handles /\ "session" \in Handles
  BY DEF Typed, HandleTyped, Handles
<1>o. owned \subseteq Handles /\ stage \in Stages
  BY DEF Typed, SetupTyped
<1>c. Calling(handle, "client") \in [Handles -> HandleStates]
  BY <1>h, HandleSteps
<1>s. Calling(handle, "session") \in [Handles -> HandleStates]
  BY <1>h, HandleSteps
<1>t. \A h \in Handles, ok \in BOOLEAN : Settling(handle, h, ok) \in [Handles -> HandleStates]
  BY <1>h, HandleSteps
<1>1. CASE Prepared
  BY <1>1, <1>h, <1>o, ThrowTyped, UndecidedTyped, ChatUntouched DEF Prepared, Typed, TaskTyped
<1>2. CASE FactoryConnected
  BY <1>h, <1>2, <1>o, ThrowTyped, UndecidedTyped, ChatUntouched DEF HandleStates, FactoryConnected, Typed, TaskTyped
<1>3. CASE ProbeSettles
  BY <1>3, <1>h, <1>o, <1>c, UndecidedTyped, ChatUntouched DEF ProbeSettles, Connected, Typed, TaskTyped
<1>4. CASE RejectedHandleClosed
  <2>1. PICK h \in Handles, ok \in BOOLEAN : Throw(Settling(handle, h, ok))
    BY <1>4, <1>h DEF RejectedHandleClosed
  <2>2. SetupTyped' /\ HandleTyped'
    BY <1>4, <1>t, <2>1, ThrowTyped DEF RejectedHandleClosed
  <2> QED BY <1>4, <2>2, ChatUntouched DEF RejectedHandleClosed, Typed, TaskTyped
<1>5. CASE CreateSettles
  <2>0. [handle EXCEPT !["session"] = "open"] \in [Handles -> HandleStates]
    BY <1>h DEF HandleStates
  <2>1. CASE KeepSession
    BY <1>5, <2>1, <1>h, <1>o, <2>0, UndecidedTyped, ChatUntouched, DecideTyped DEF KeepSession, CreateSettles, Typed, TaskTyped
  <2>2. CASE LateSession
    BY <1>5, <2>2, <1>o, <1>s, UndecidedTyped, ChatUntouched DEF LateSession, CreateSettles, Typed, TaskTyped
  <2>3. CASE Throw(handle) /\ UNCHANGED <<owned, task>>
    BY <1>5, <2>3, <1>h, ThrowTyped, ChatUntouched DEF CreateSettles, Typed, TaskTyped
  <2> QED BY <1>5, <2>1, <2>2, <2>3 DEF CreateSettles
<1>6. CASE StartSettles
  BY <1>6, <1>h, <1>o, ThrowTyped, UndecidedTyped, ChatUntouched DEF StartSettles, Typed, TaskTyped
<1>7. CASE EventArrives
  BY <1>7, <1>h, <1>o, ThrowTyped, UndecidedTyped, ChatUntouched DEF EventArrives, Typed, TaskTyped
<1>8. CASE HandlerSettles
  BY <1>8, <1>h, <1>o, ThrowTyped, UndecidedTyped, ChatUntouched DEF HandlerSettles, Typed, TaskTyped
<1>9. CASE EventsEnd
  BY <1>9, <1>h, <1>o, <1>s, ThrowTyped, UndecidedTyped, ChatUntouched DEF EventsEnd, Typed, TaskTyped
<1>10. CASE SessionClosed
  BY <1>10, <1>h, <1>t, ThrowTyped, <1>o, DecideTyped, ChatUntouched DEF SessionClosed, Typed, TaskTyped
<1>11. CASE Deadline
  BY <1>11, <1>h, <1>o, DecideTyped, ChatUntouched DEF Deadline, Typed, TaskTyped
<1>12. CASE ClientCleanedUp
  <2>1. PICK ok \in BOOLEAN :
          LET hs == IF "client" \in owned THEN Settling(handle, "client", ok) ELSE handle IN
          /\ cleanupFailed' = (cleanupFailed \/ ("client" \in owned /\ ~ok))
          /\ handle' = IF "session" \in owned THEN Calling(hs, "session") ELSE hs
    BY <1>12 DEF ClientCleanedUp
  <2> DEFINE hs == IF "client" \in owned THEN Settling(handle, "client", ok) ELSE handle
  <2>2. hs \in [Handles -> HandleStates]
    BY <1>h, <1>t
  <2>3. handle' = IF "session" \in owned THEN Calling(hs, "session") ELSE hs
    BY <2>1
  <2> HIDE DEF hs
  <2>4. HandleTyped'
    BY <1>h, <2>2, <2>3, HandleSteps DEF HandleTyped
  <2>5. cleanupFailed' \in BOOLEAN
    BY <2>1 DEF Typed, SetupTyped
  <2>6. SetupTyped'
    BY <1>12, <2>5 DEF ClientCleanedUp, Typed, SetupTyped
  <2> QED BY <1>12, <2>4, <2>6, ChatUntouched DEF ClientCleanedUp, Typed, TaskTyped
<1>13. CASE SessionCleanedUp
  BY <1>13, <1>h, <1>t, ChatUntouched DEF SessionCleanedUp, Typed, SetupTyped, HandleTyped, TaskTyped
<1> QED BY <1>1, <1>2, <1>3, <1>4, <1>5, <1>6, <1>7, <1>8, <1>9, <1>10, <1>11, <1>12, <1>13
        DEF SetupNext

LEMMA CloseChatTyped ==
  ASSUME Typed, NEW abort \in BOOLEAN, CloseChat(abort)
  PROVE  /\ closed' \in BOOLEAN /\ closePromise' \in {"unset", "pending", "settled"}
         /\ toClose' \in CloseOrders /\ HandleTyped'
<1>1. handle \in [Handles -> HandleStates] /\ toClose \in CloseOrders
  BY DEF Typed, HandleTyped, ChatTyped
<1>2. CASE closePromise # "unset"
  BY <1>1, <1>2 DEF CloseChat, Typed, ChatTyped, HandleTyped
<1>3. CASE closePromise = "unset"
  BY <1>3, OrderSteps, <1>1, HandleSteps DEF CloseChat, CloseOrders, HandleTyped
<1> QED BY <1>2, <1>3

LEMMA SendFailsTyped ==
  ASSUME Typed, NEW c \in Calls, SendFails(c)
  PROVE  ChatTyped' /\ HandleTyped'
<1>1. /\ closed' \in BOOLEAN /\ closePromise' \in {"unset", "pending", "settled"}
      /\ toClose' \in CloseOrders /\ HandleTyped'
  BY CloseChatTyped DEF SendFails
<1> QED BY <1>1 DEF SendFails, Typed, ChatTyped, InCall

LEMMA ChatCloseProceedsTyped ==
  ASSUME Typed, ChatCloseProceeds, toClose # <<>>
  PROVE  Typed'
<1>1. handle \in [Handles -> HandleStates] /\ toClose \in CloseOrders
  BY DEF Typed, HandleTyped, ChatTyped
<1>2. Head(toClose) \in Handles /\ toClose' = Tail(toClose) /\ toClose' \in CloseOrders
  BY <1>1, OrderSteps DEF ChatCloseProceeds
<1>3. PICK ok \in BOOLEAN :
        LET hs == Settling(handle, Head(toClose), ok) IN
        IF toClose' = <<>> THEN handle' = hs /\ closePromise' = "settled"
        ELSE handle' = Calling(hs, Head(toClose')) /\ UNCHANGED closePromise
  BY DEF ChatCloseProceeds
<1>4. Settling(handle, Head(toClose), ok) \in [Handles -> HandleStates]
  BY <1>1, <1>2, HandleSteps
<1>5. toClose' # <<>> => Head(toClose') \in Handles
  BY <1>2, OrderSteps
<1>6. handle' \in [Handles -> HandleStates]
  BY <1>3, <1>4, <1>5, HandleSteps
<1>7. closePromise' \in {"unset", "pending", "settled"}
  BY <1>3 DEF Typed, ChatTyped
<1> QED BY <1>2, <1>6, <1>7, SetupUntouched
        DEF ChatCloseProceeds, Typed, HandleTyped, TaskTyped, ChatTyped

LEMMA CallStepTyped ==
  ASSUME Typed, NEW c \in Calls,
         \/ CallBegins(c) \/ CallStarted(c) \/ CallNotStarted(c) \/ SendEvent(c)
         \/ SendHandled(c) \/ SendDeadline(c) \/ SendRejects(c) \/ ResultSeen(c)
  PROVE  Typed'
<1>1. /\ task \in [Calls \cup {"main"} -> {"none", "starting", "active", "settled"}]
      /\ op \in [Calls -> InCall \cup {"idle", "refused", "ok", "failed"}]
  BY DEF Typed, TaskTyped, ChatTyped
<1>2. SetupTyped'
  BY SetupUntouched
  DEF Typed, CallBegins, CallStarted, CallNotStarted, SendEvent, SendHandled, SendDeadline,
      SendRejects, ResultSeen
<1>3. CASE CallBegins(c)
  BY <1>1, <1>3, <1>2 DEF CallBegins, TaskTyped, InCall, Typed, ChatTyped, HandleTyped
<1>4. CASE CallStarted(c)
  BY <1>1, <1>4, <1>2 DEF CallStarted, TaskTyped, InCall, Typed, ChatTyped, HandleTyped
<1>5. CASE CallNotStarted(c)
  BY <1>1, <1>5, <1>2, SendFailsTyped, ChatUntouched DEF CallNotStarted, TaskTyped, StartRefused, Typed, ChatTyped, HandleTyped
<1>6. CASE SendEvent(c) \/ SendHandled(c) \/ SendDeadline(c)
  BY <1>1, <1>6, <1>2, SendFailsTyped DEF SendEvent, SendHandled, SendDeadline, TaskTyped, Typed, ChatTyped, HandleTyped, InCall
<1>7. CASE SendRejects(c) \/ ResultSeen(c)
  BY <1>1, <1>2, <1>7 DEF SendRejects, ResultSeen, Typed, TaskTyped, ChatTyped, HandleTyped
<1> QED BY <1>3, <1>4, <1>5, <1>6, <1>7

(* While a close is pending something is left to close: needed for the order to keep its type. *)
LEMMA StepTyped ==
  Typed /\ (closePromise = "pending" => toClose # <<>>) /\ [Next]_vars => Typed'
<1> SUFFICES ASSUME Typed, closePromise = "pending" => toClose # <<>>, [Next]_vars PROVE Typed'
  OBVIOUS
<1>1. CASE SetupNext
  BY <1>1, SetupStepTyped
<1>2. CASE HostCloses
  BY <1>2, CloseChatTyped, SetupUntouched DEF Typed, ChatTyped, HostCloses, TaskTyped
<1>3. CASE ChatCloseProceeds
  BY <1>3, ChatCloseProceedsTyped DEF ChatCloseProceeds
<1>4. ASSUME NEW c \in Calls,
             \/ CallBegins(c) \/ CallStarted(c) \/ CallNotStarted(c) \/ SendEvent(c)
             \/ SendHandled(c) \/ SendDeadline(c) \/ SendRejects(c) \/ ResultSeen(c)
      PROVE  Typed'
  BY <1>4, CallStepTyped
<1>5. ASSUME NEW r \in Calls \cup {"main"}, RunEnds(r) PROVE Typed'
  BY <1>5, SetupUntouched, ChatUntouched DEF RunEnds, Typed, TaskTyped, HandleTyped
<1>6. CASE UNCHANGED vars
  BY <1>6, SetupUntouched, ChatUntouched DEF vars, Typed, HandleTyped, TaskTyped
<1> QED BY <1>1, <1>2, <1>3, <1>4, <1>5, <1>6 DEF Next, ChatNext

LEMMA InitTyped == Init => Typed
  BY DEF Init, Typed, SetupTyped, HandleTyped, TaskTyped, ChatTyped, Stages, HandleStates,
         CloseOrders, Handles

-------------------------------------------------------------------------------
(* Released. *)

EarlyStages == {"prepare", "connect", "rejecting", "lateClient"} \cup Probes

(* Steps of the setup that decide nothing keep the race; what they open must be owned. *)
LEMMA UndecidedReleased ==
  ASSUME Released, ~ChatReturned, UNCHANGED <<kind, outcome, stopped, cleanup, chatVars>>,
         OpenIsOwned'
  PROVE  Released'
  BY DEF Released, RaceInv, ChatCloseInv, ChatReturned, chatVars

LEMMA DecideReleased ==
  ASSUME Typed, Released, ~ChatReturned,
         NEW o \in {"ok", "timeout", "error"}, NEW hs \in [Handles -> HandleStates],
         Decide(o, hs), kind = "run" \/ o # "ok", UNCHANGED <<kind, chatVars>>,
         owned' \subseteq owned, "client" \in owned => "client" \in owned',
         hs["session"] = "open" => handle["session"] = "open" /\ "session" \in owned',
         hs["client"] = "open" => /\ handle["client"] = "open"
                                  /\ stage' \in Probes \/ "client" \in owned,
         stage' \in EarlyStages => owned = {}
  PROVE  Released'
<1>1. CASE /\ outcome # "none" /\ handle' = hs
           /\ UNCHANGED <<outcome, stopped, cleanup>>
  BY <1>1, UndecidedReleased DEF Released, OpenIsOwned, EarlyStages
<1>2. CASE /\ outcome = "none" /\ outcome' = o
           /\ cleanup' = "client" /\ stopped' = TRUE
           /\ handle' \in [Handles -> HandleStates]
           /\ handle'["session"] = hs["session"]
           /\ "client" \in owned => handle'["client"] = "closing"
           /\ "client" \notin owned => handle'["client"] = hs["client"]
  BY <1>2 DEF Released, OpenIsOwned, EarlyStages, RaceInv, ChatCloseInv, ChatReturned, chatVars
<1> QED BY <1>1, <1>2, DecideSteps

LEMMA ThrowReleased ==
  ASSUME Typed, Released, ~ChatReturned, stage \notin Probes,
         NEW hs \in [Handles -> HandleStates], Throw(hs), UNCHANGED <<kind, owned, chatVars>>,
         \A h \in Handles : hs[h] = "open" => handle[h] = "open"
  PROVE  Released'
<1>1. stage' = "threw" /\ Decide("error", hs)
  BY DEF Throw
<1>2. hs["session"] = "open" => handle["session"] = "open" /\ "session" \in owned'
  BY DEF Released, OpenIsOwned, Handles
<1>3. hs["client"] = "open" => handle["client"] = "open" /\ "client" \in owned
  BY DEF Released, OpenIsOwned, Handles
<1>4. stage' \notin EarlyStages
  BY <1>1 DEF EarlyStages, Probes
<1> QED BY <1>1, <1>2, <1>3, <1>4, DecideReleased

LEMMA RunStagesKept == RunStages /\ [Next]_vars => RunStages'
<1> SUFFICES ASSUME RunStages, [Next]_vars PROVE RunStages'
  OBVIOUS
<1>1. CASE SetupNext
  BY <1>1
  DEF SetupNext, Prepared, FactoryConnected, ProbeSettles, Connected, RejectedHandleClosed,
      CreateSettles, KeepSession, LateSession, StartSettles, EventArrives, HandlerSettles,
      EventsEnd, SessionClosed, Deadline, ClientCleanedUp, SessionCleanedUp, Throw, Probes,
      RunStages
<1>2. CASE UNCHANGED setupVars
  BY <1>2 DEF setupVars, RunStages
<1> QED BY <1>1, <1>2
  DEF Next, ChatNext, HostCloses, ChatCloseProceeds, CallBegins, CallStarted, CallNotStarted,
      SendEvent, SendHandled, SendDeadline, SendRejects, ResultSeen, RunEnds, vars

LEMMA SetupStepReleased == Typed /\ Released /\ RunStages /\ SetupNext => Released'
<1> SUFFICES ASSUME Typed, Released, RunStages, SetupNext PROVE Released'
  OBVIOUS
<1>h. handle \in [Handles -> HandleStates] /\ "client" \in Handles /\ "session" \in Handles
  BY DEF Typed, HandleTyped, Handles
<1>t. \A h \in Handles, ok \in BOOLEAN :
        /\ Settling(handle, h, ok) \in [Handles -> HandleStates]
        /\ \A g \in Handles : Settling(handle, h, ok)[g] = "open" => handle[g] = "open"
  BY <1>h, HandleSteps, SettlingOpensNone
<1>r. stage # "returned" => ~ChatReturned
  BY DEF Released, RaceInv
<1>1. CASE Prepared
  BY <1>1, <1>h, <1>r, ThrowReleased, UndecidedReleased DEF Prepared, Probes, Released, OpenIsOwned
<1>2. CASE FactoryConnected
  BY <1>2, <1>h, <1>r, ThrowReleased, UndecidedReleased DEF FactoryConnected, Probes, Released, OpenIsOwned
<1>3. CASE ProbeSettles
  <2>0. stage # "returned" /\ owned = {}
    BY <1>3 DEF ProbeSettles, Probes, Released, OpenIsOwned
  <2>c. /\ Calling(handle, "client")["client"] = "closing"
        /\ Calling(handle, "client")["session"] = handle["session"]
    BY <1>h, HandleSteps DEF Handles
  <2>1. CASE handle' = handle
    BY <1>3, <2>0, <2>1, <2>c, <1>r, UndecidedReleased DEF ProbeSettles, Connected, Released, OpenIsOwned, Probes
  <2>2. CASE handle' = Calling(handle, "client") /\ stage' \in {"rejecting", "lateClient"}
             /\ owned' = owned
    BY <2>0, <2>2, <2>c, <1>3, <1>r, UndecidedReleased DEF ProbeSettles, Released, OpenIsOwned, Probes
  <2> QED BY <1>3, <2>1, <2>2 DEF ProbeSettles, Connected
<1>4. CASE RejectedHandleClosed
  <2>1. PICK h \in Handles, ok \in BOOLEAN : Throw(Settling(handle, h, ok))
    BY <1>4, <1>h DEF RejectedHandleClosed
  <2>2. stage # "returned" /\ stage \notin Probes
    BY <1>4 DEF RejectedHandleClosed, Probes
  <2> QED BY <1>4, <1>t, <1>r, <2>1, <2>2, ThrowReleased DEF RejectedHandleClosed
<1>5. CASE CreateSettles
  <2>0. /\ [handle EXCEPT !["session"] = "open"] \in [Handles -> HandleStates]
        /\ [handle EXCEPT !["session"] = "open"]["client"] = handle["client"]
        /\ [handle EXCEPT !["session"] = "open"]["session"] = "open"
        /\ stage = "create" /\ stage # "returned" /\ stage \notin Probes
    BY <1>5, <1>h DEF HandleStates, CreateSettles, Probes
  <2>1. CASE KeepSession
    <3>1. CASE kind = "run"
      <4>1. /\ handle'["session"] = "open" /\ handle'["client"] = handle["client"]
            /\ owned' = owned \cup {"session"} /\ stage' = "start" /\ ~stopped /\ stopped' = stopped
        BY <2>0, <2>1, <3>1 DEF KeepSession
      <4>2. OpenIsOwned'
        BY <2>0, <4>1 DEF Released, OpenIsOwned, Probes
      <4> QED BY <1>5, <1>r, <2>0, <2>1, <3>1, <4>2, UndecidedReleased
              DEF KeepSession, CreateSettles
    <3>2. CASE kind # "run"
      <4>1. outcome = "none" /\ ~stopped
        BY <1>r, <2>0, <2>1 DEF KeepSession, Released, RaceInv
      <4>2. /\ outcome' = "ok" /\ cleanup' = "done" /\ stopped' = stopped
            /\ handle' = [handle EXCEPT !["session"] = "open"]
        BY <2>0, <2>1, <3>2, <4>1, DecideSteps DEF KeepSession
      <4>3. stage' = "returned" /\ kind' = kind /\ kind = "openSession"
        BY <1>5, <2>1, <3>2 DEF KeepSession, CreateSettles
      <4>4. OpenIsOwned'
        BY <2>0, <2>1, <4>1, <4>2, <4>3 DEF KeepSession, Released, OpenIsOwned, Probes
      <4>5. RaceInv' /\ ChatCloseInv'
        BY <1>5, <1>r, <2>0, <4>1, <4>2, <4>3
        DEF CreateSettles, Released, RaceInv, ChatCloseInv, ChatReturned, chatVars
      <4> QED BY <4>4, <4>5 DEF Released
    <3> QED BY <3>1, <3>2
  <2>2. CASE LateSession
    <3>1. /\ handle'["session"] = "closing" /\ handle'["client"] = handle["client"]
      BY <1>h, <2>2, HandleSteps DEF LateSession, Handles
    <3>2. OpenIsOwned'
      BY <1>5, <2>0, <2>2, <3>1 DEF LateSession, CreateSettles, Released, OpenIsOwned, Probes
    <3> QED BY <1>5, <1>r, <2>0, <2>2, <3>2, UndecidedReleased DEF LateSession, CreateSettles
  <2>3. CASE Throw(handle) /\ UNCHANGED owned
    BY <1>5, <1>h, <1>r, <2>0, <2>3, ThrowReleased DEF CreateSettles
  <2> QED BY <1>5, <2>1, <2>2, <2>3 DEF CreateSettles
<1>6. CASE StartSettles \/ EventArrives \/ HandlerSettles \/ EventsEnd
  <2>0. /\ stage \in {"start", "events", "handler"} /\ stage # "returned"
        /\ stage \notin Probes /\ UNCHANGED <<kind, owned, chatVars>>
    BY <1>6 DEF StartSettles, EventArrives, HandlerSettles, EventsEnd, Probes
  <2>1. CASE Throw(handle)
    BY <1>h, <1>r, <2>0, <2>1, ThrowReleased
  <2>2. CASE /\ stage' \in {"events", "handler"} /\ handle' = handle
             /\ UNCHANGED <<outcome, stopped, cleanup>>
    BY <2>0, <2>2, <1>r, UndecidedReleased DEF Released, OpenIsOwned, Probes
  <2>3. CASE /\ stage' = "closing" /\ handle' = Calling(handle, "session")
             /\ UNCHANGED <<outcome, stopped, cleanup>>
    BY <1>h, <2>3, HandleSteps, <2>0, <1>r, UndecidedReleased DEF Handles, Released, OpenIsOwned, Probes
  <2> QED BY <1>6, <2>1, <2>2, <2>3 DEF StartSettles, EventArrives, HandlerSettles, EventsEnd
<1>7. CASE SessionClosed
  <2>0. stage = "closing" /\ stage # "returned" /\ stage \notin Probes
    BY <1>7 DEF SessionClosed, Probes
  <2>1. CASE Throw(Settling(handle, "session", FALSE)) /\ UNCHANGED owned
    BY <1>7, <1>h, <1>t, <1>r, <2>0, <2>1, ThrowReleased DEF SessionClosed
  <2>2. CASE /\ stage' = "returned" /\ owned' = owned \ {"session"}
             /\ Decide("ok", Settling(handle, "session", TRUE))
    <3> DEFINE hs == Settling(handle, "session", TRUE)
    <3>1. /\ hs \in [Handles -> HandleStates] /\ hs["session"] # "open"
          /\ hs["client"] = handle["client"]
      BY <1>h, HandleSteps DEF Handles
    <3>2. hs["client"] = "open" => "client" \in owned
      BY <2>0, <3>1 DEF Released, OpenIsOwned
    <3>3. stage' \notin EarlyStages
      BY <2>2 DEF EarlyStages, Probes
    <3>4. Decide("ok", hs)
      BY <2>2
    <3> HIDE DEF hs
    <3>5. kind = "run"
      BY <2>0 DEF RunStages
    <3> QED BY <1>7, <1>r, <2>0, <2>2, <3>1, <3>2, <3>3, <3>4, <3>5, DecideReleased DEF SessionClosed
  <2> QED BY <1>7, <2>1, <2>2 DEF SessionClosed
<1>8. CASE Deadline
  BY <1>8, <1>h, DecideReleased DEF Deadline, ChatReturned, Released, OpenIsOwned, EarlyStages
<1>9. CASE ClientCleanedUp
  <2>0. ~ChatReturned /\ stopped
    BY <1>9 DEF ClientCleanedUp, Released, RaceInv
  <2>1. PICK ok \in BOOLEAN :
          handle' = LET hs == IF "client" \in owned THEN Settling(handle, "client", ok) ELSE handle
                    IN  IF "session" \in owned THEN Calling(hs, "session") ELSE hs
    BY <1>9 DEF ClientCleanedUp
  <2> DEFINE hs == IF "client" \in owned THEN Settling(handle, "client", ok) ELSE handle
  <2>2. hs \in [Handles -> HandleStates]
    BY <1>h, <1>t
  <2>3. /\ hs["session"] = handle["session"]
        /\ IF "client" \in owned THEN hs["client"] # "open" ELSE hs["client"] = handle["client"]
    BY <1>h, HandleSteps DEF Handles
  <2>4. handle' = IF "session" \in owned THEN Calling(hs, "session") ELSE hs
    BY <2>1
  <2> HIDE DEF hs
  <2>5. /\ handle'["client"] = hs["client"]
        /\ IF "session" \in owned THEN handle'["session"] = "closing"
           ELSE handle'["session"] = hs["session"]
    BY <1>h, <2>2, <2>4, HandleSteps DEF Handles
  <2>6. OpenIsOwned'
    BY <1>9, <2>0, <2>3, <2>5 DEF ClientCleanedUp, Released, OpenIsOwned
  <2>7. RaceInv' /\ ChatCloseInv'
    BY <1>9, <2>0 DEF ClientCleanedUp, Released, RaceInv, ChatCloseInv, ChatReturned, chatVars
  <2> QED BY <2>6, <2>7 DEF Released
<1>10. CASE SessionCleanedUp
  BY <1>10, <1>h, <1>t DEF SessionCleanedUp, Released, RaceInv, OpenIsOwned, ChatCloseInv, ChatReturned, chatVars
<1> QED BY <1>1, <1>2, <1>3, <1>4, <1>5, <1>6, <1>7, <1>8, <1>9, <1>10 DEF SetupNext

(* Steps of the chat open nothing: what is left to see is that its close comes past both handles. *)
LEMMA ChatReleased ==
  ASSUME Released, ChatReturned, UNCHANGED setupVars,
         \A h \in Handles : handle'[h] = "open" => handle[h] = "open",
         ChatCloseInv'
  PROVE  Released'
<1>1. ChatReturned' /\ ~stopped'
  BY DEF Released, RaceInv, ChatReturned, setupVars
<1>2. RaceInv'
  BY <1>1 DEF Released, RaceInv, ChatReturned, setupVars
<1>3. OpenIsOwned'
  BY <1>1 DEF Released, OpenIsOwned, setupVars, Handles
<1> QED BY <1>2, <1>3 DEF Released

LEMMA CloseChatReleased ==
  ASSUME Typed, Released, ChatReturned, UNCHANGED setupVars, NEW abort \in BOOLEAN, CloseChat(abort)
  PROVE  Released'
<1>1. CASE closePromise # "unset"
  BY <1>1, ChatReleased DEF CloseChat, Released, ChatCloseInv
<1>2. CASE closePromise = "unset"
  <2>1. /\ closePromise' = "pending" /\ handle' = Calling(handle, Head(toClose'))
        /\ toClose' \in {<<"client", "session">>, <<"session", "client">>}
    BY <1>2 DEF CloseChat
  <2>2. toClose' # <<>> /\ Tail(toClose') # <<>> /\ toClose' \in CloseOrders
    <3>1. CASE toClose' = <<"client", "session">>
      BY <3>1 DEF CloseOrders
    <3>2. CASE toClose' = <<"session", "client">>
      BY <3>2 DEF CloseOrders
    <3> QED BY <2>1, <3>1, <3>2
  <2>3. /\ Head(toClose') \in Handles /\ toClose'[Len(toClose')] \in Handles
        /\ Head(toClose') # toClose'[Len(toClose')]
    BY <2>2, OrderSteps
  <2>4. /\ handle'[Head(toClose')] = "closing"
        /\ \A h \in Handles : h # Head(toClose') => handle'[h] = handle[h]
    BY <2>1, <2>3, HandleSteps DEF Typed, HandleTyped
  <2>5. \A h \in Handles : h # Head(toClose') => h = toClose'[Len(toClose')]
    BY <2>3 DEF Handles
  <2>6. ChatCloseInv'
    BY <2>1, <2>2, <2>4, <2>5 DEF ChatCloseInv
  <2>7. \A h \in Handles : handle'[h] = "open" => handle[h] = "open"
    BY <2>4
  <2> QED BY <2>6, <2>7, ChatReleased
<1> QED BY <1>1, <1>2

LEMMA ChatCloseProceedsReleased ==
  ASSUME Typed, Released, ChatCloseProceeds
  PROVE  Released'
<1>1. handle \in [Handles -> HandleStates] /\ toClose \in CloseOrders
  BY DEF Typed, HandleTyped, ChatTyped
<1>2. /\ ChatReturned /\ UNCHANGED setupVars
      /\ toClose # <<>> /\ toClose' = Tail(toClose) /\ closePromise = "pending"
      /\ \A h \in Handles : handle[h] = "open" => h = toClose[Len(toClose)]
  BY DEF ChatCloseProceeds, Released, RaceInv, ChatCloseInv
<1>3. PICK ok \in BOOLEAN :
        LET hs == Settling(handle, Head(toClose), ok) IN
        IF toClose' = <<>> THEN handle' = hs /\ closePromise' = "settled"
        ELSE handle' = Calling(hs, Head(toClose')) /\ UNCHANGED closePromise
  BY DEF ChatCloseProceeds
<1> DEFINE hs == Settling(handle, Head(toClose), ok)
<1>4. IF toClose' = <<>> THEN handle' = hs /\ closePromise' = "settled"
      ELSE handle' = Calling(hs, Head(toClose')) /\ UNCHANGED closePromise
  BY <1>3
<1>5. Head(toClose) \in Handles
  BY <1>1, <1>2, OrderSteps
<1>6. /\ hs \in [Handles -> HandleStates] /\ hs[Head(toClose)] # "open"
      /\ \A h \in Handles : hs[h] = "open" => handle[h] = "open"
  BY <1>1, <1>5, HandleSteps, SettlingOpensNone
<1> HIDE DEF hs
<1>7. \A h \in Handles : handle'[h] # "open"
  <2>1. CASE toClose' = <<>>
    BY <1>1, <1>2, <1>4, <1>6, <2>1, OrderSteps
  <2>2. CASE toClose' # <<>>
    <3>1. Head(toClose') = toClose[Len(toClose)] /\ Head(toClose') \in Handles
      BY <1>1, <1>2, <2>2, OrderSteps
    <3>2. /\ handle'[Head(toClose')] = "closing"
          /\ \A h \in Handles : h # Head(toClose') => handle'[h] = hs[h]
      BY <1>4, <1>6, <2>2, <3>1, HandleSteps
    <3> QED BY <1>2, <1>6, <3>1, <3>2
  <2> QED BY <2>1, <2>2
<1>8. toClose' # <<>> => Head(toClose') \in Handles
  BY <1>1, <1>2, OrderSteps
<1>9. ChatCloseInv'
  BY <1>4, <1>7, <1>2, <1>8 DEF ChatCloseInv
<1> QED BY <1>2, <1>7, <1>9, ChatReleased

LEMMA CallStepReleased ==
  ASSUME Typed, Released, EngagedInv, NEW c \in Calls,
         \/ CallBegins(c) \/ CallStarted(c) \/ CallNotStarted(c) \/ SendEvent(c)
         \/ SendHandled(c) \/ SendDeadline(c) \/ SendRejects(c) \/ ResultSeen(c)
  PROVE  Released'
<1>1. ChatReturned /\ UNCHANGED setupVars
  BY DEF EngagedInv, Engaged, Live, InCall, CallBegins, CallStarted, CallNotStarted, SendEvent,
         SendHandled, SendDeadline, SendRejects, ResultSeen
<1>2. CASE CloseChat(TRUE)
  BY <1>1, <1>2, CloseChatReleased
<1>3. CASE UNCHANGED <<closePromise, toClose, handle>>
  BY <1>1, <1>3, ChatReleased DEF Released, ChatCloseInv
<1> QED BY <1>2, <1>3
        DEF CallBegins, CallStarted, CallNotStarted, StartRefused, SendFails, SendEvent,
            SendHandled, SendDeadline, SendRejects, ResultSeen, chatVars

LEMMA StepReleased == Typed /\ Released /\ RunStages /\ EngagedInv /\ [Next]_vars => Released'
<1> SUFFICES ASSUME Typed, Released, RunStages, EngagedInv, [Next]_vars PROVE Released'
  OBVIOUS
<1>1. CASE SetupNext
  BY <1>1, SetupStepReleased
<1>2. CASE HostCloses
  BY <1>2, CloseChatReleased DEF Typed, ChatTyped, HostCloses
<1>3. CASE ChatCloseProceeds
  BY <1>3, ChatCloseProceedsReleased
<1>4. ASSUME NEW c \in Calls,
             \/ CallBegins(c) \/ CallStarted(c) \/ CallNotStarted(c) \/ SendEvent(c)
             \/ SendHandled(c) \/ SendDeadline(c) \/ SendRejects(c) \/ ResultSeen(c)
      PROVE  Released'
  BY <1>4, CallStepReleased
<1>5. CASE UNCHANGED <<setupVars, chatVars, handle>>
  BY <1>5 DEF Released, RaceInv, OpenIsOwned, ChatCloseInv, ChatReturned, setupVars, chatVars
<1>6. ASSUME NEW r \in Calls \cup {"main"}, RunEnds(r) PROVE Released'
  BY <1>5, <1>6 DEF RunEnds
<1> QED BY <1>1, <1>2, <1>3, <1>4, <1>5, <1>6 DEF Next, ChatNext, vars

-------------------------------------------------------------------------------
(* Engaged. *)

(* Only the call that takes a step changes; it may become engaged only if no one is. *)
LEMMA OneCallSteps ==
  ASSUME EngagedInv, BusyTracksCalls, NEW c \in Calls, ChatReturned, ChatReturned', kind' = kind,
         Engaged(c) \/ \A d \in Calls : ~Engaged(d),
         \A d \in Calls : d # c => op'[d] = op[d] /\ task'[d] = task[d],
         task'["main"] = task["main"], closed => closed',
         Live(c)' => op'[c] \in InCall \/ closed',
         op'[c] = "aborting" => closed',
         busy' <=> op'[c] \in InCall
  PROVE  EngagedInv' /\ BusyTracksCalls'
<1>1. \A d \in Calls : d # c => ~Engaged(d) /\ (Engaged(d)' <=> Engaged(d))
  BY DEF EngagedInv, Engaged, Live
<1>2. (Live("main") => kind = "run")'
  BY DEF EngagedInv, Live
<1>3. ASSUME NEW d \in Calls
      PROVE  /\ Live(d)' => op'[d] \in InCall \/ closed'
             /\ op'[d] = "aborting" => closed'
  BY <1>3 DEF EngagedInv, Live
<1>4. \A d, e \in Calls : Engaged(d)' /\ Engaged(e)' => d = e
  BY <1>1
<1>5. EngagedInv'
  BY <1>2, <1>3, <1>4 DEF EngagedInv
<1>6. \A d \in Calls : op'[d] \in InCall => d = c
  BY <1>1 DEF Engaged
<1> QED BY <1>5, <1>6 DEF BusyTracksCalls


LEMMA CallStepEngaged ==
  ASSUME Typed, EngagedInv, BusyTracksCalls, NEW c \in Calls,
         \/ CallBegins(c) \/ CallStarted(c) \/ CallNotStarted(c) \/ SendEvent(c)
         \/ SendHandled(c) \/ SendDeadline(c) \/ SendRejects(c) \/ ResultSeen(c)
  PROVE  EngagedInv' /\ BusyTracksCalls'
<1>0. /\ task \in [Calls \cup {"main"} -> {"none", "starting", "active", "settled"}]
      /\ op \in [Calls -> InCall \cup {"idle", "refused", "ok", "failed"}]
      /\ busy \in BOOLEAN /\ c # "main"
  BY CallsAssumption DEF Typed, TaskTyped, ChatTyped, Calls
<1>1. ChatReturned /\ ChatReturned' /\ kind' = kind
  BY DEF EngagedInv, Engaged, Live, InCall, CallBegins, CallStarted, CallNotStarted, SendEvent,
         SendHandled, SendDeadline, SendRejects, ResultSeen, ChatReturned, setupVars
<1>2. /\ \A d \in Calls : d # c => op'[d] = op[d] /\ task'[d] = task[d]
      /\ task'["main"] = task["main"]
  <2>1. \/ op' = op \/ \E o \in InCall \cup {"refused", "ok", "failed"} : op' = [op EXCEPT ![c] = o]
    BY DEF CallBegins, CallStarted, CallNotStarted, StartRefused, SendFails, SendEvent,
           SendHandled, SendDeadline, SendRejects, ResultSeen, InCall, chatVars
  <2>2. \/ task' = task \/ \E t \in {"starting", "active", "settled"} : task' = [task EXCEPT ![c] = t]
    BY DEF CallBegins, CallStarted, CallNotStarted, SendEvent,
           SendHandled, SendDeadline, SendRejects, ResultSeen
  <2> QED BY <1>0, <2>1, <2>2
<1>b. op[c] \in InCall => busy
  BY DEF BusyTracksCalls
<1>i. op[c] \notin InCall /\ Engaged(c) => ~busy
  BY DEF BusyTracksCalls, EngagedInv, Engaged
<1>3. CASE CallBegins(c)
  BY <1>3, <1>0, <1>1, <1>2, OneCallSteps DEF CallBegins, EngagedInv, InCall, Engaged, Live, BusyTracksCalls
<1>4. CASE CallStarted(c)
  BY <1>0, <1>4, <1>1, <1>2, <1>b, <1>i, OneCallSteps DEF CallStarted, Engaged, Live, InCall, EngagedInv
<1>5. CASE CallNotStarted(c)
  <2>1. Engaged(c) /\ ~Live(c)'
    BY <1>0, <1>5 DEF CallNotStarted, Engaged, Live
  <2>2. CASE StartRefused(c)
    BY <1>0, <2>2, <1>1, <1>2, <2>1, OneCallSteps DEF StartRefused, InCall
  <2>3. CASE op[c] = "starting" /\ SendFails(c)
    BY <1>0, <2>3, <1>1, <1>2, <1>b, <2>1, OneCallSteps DEF SendFails, CloseChat, InCall
  <2>4. CASE UNCHANGED <<chatVars, handle>>
    BY <2>4, <1>1, <1>2, <1>b, <1>i, <2>1, OneCallSteps DEF chatVars, EngagedInv
  <2> QED BY <1>5, <2>2, <2>3, <2>4 DEF CallNotStarted
<1>6. CASE SendEvent(c) \/ SendHandled(c) \/ SendDeadline(c)
  <2>1. /\ op[c] \in InCall /\ op'[c] \in InCall /\ busy' = busy /\ (closed => closed')
        /\ op'[c] = "aborting" => closed'
    BY <1>0, <1>6 DEF SendEvent, SendHandled, SendDeadline, SendFails, CloseChat, InCall
  <2>2. Engaged(c)
    BY <2>1 DEF Engaged
  <2> QED BY <1>1, <1>2, <1>b, <2>1, <2>2, OneCallSteps
<1>7. CASE SendRejects(c) \/ ResultSeen(c)
  BY <1>0, <1>7, <1>1, <1>2, OneCallSteps DEF SendRejects, ResultSeen, InCall, Engaged, EngagedInv, Live
<1> QED BY <1>3, <1>4, <1>5, <1>6, <1>7

(* A step that leaves the calls alone, and engages no one anew. *)
LEMMA NoCallSteps ==
  ASSUME EngagedInv, BusyTracksCalls, ChatReturned => ChatReturned', kind' = kind,
         op' = op, busy' = busy, closed => closed',
         \A d \in Calls : Live(d)' => Live(d), Live("main")' => kind = "run"
  PROVE  EngagedInv' /\ BusyTracksCalls'
<1>1. \A d \in Calls : Engaged(d)' => Engaged(d)
  BY DEF Engaged, Live
<1>2. BusyTracksCalls'
  BY DEF BusyTracksCalls
<1> QED BY <1>1, <1>2 DEF EngagedInv

(* A step of the setup touches no call, and a chat once returned stays so. *)
LEMMA SetupStepKeeps ==
  ASSUME SetupNext
  PROVE  /\ UNCHANGED <<kind, chatVars>> /\ (outcome # "none" => outcome' = outcome)
         /\ \/ task' = task
            \/ kind = "run" /\ task' = [task EXCEPT !["main"] = "starting"]
            \/ stage = "start" /\ \E t \in {"active", "settled"} : task' = [task EXCEPT !["main"] = t]
<1>1. UNCHANGED <<kind, chatVars>> /\ (outcome # "none" => outcome' = outcome)
  BY DEF SetupNext, Prepared, FactoryConnected, ProbeSettles, RejectedHandleClosed,
      CreateSettles, KeepSession, LateSession, StartSettles, EventArrives, HandlerSettles,
      EventsEnd, SessionClosed, Deadline, ClientCleanedUp, SessionCleanedUp, Throw, Decide
<1>2. \/ task' = task
      \/ kind = "run" /\ task' = [task EXCEPT !["main"] = "starting"]
      \/ stage = "start" /\ \E t \in {"active", "settled"} : task' = [task EXCEPT !["main"] = t]
  BY DEF SetupNext, Prepared, FactoryConnected, ProbeSettles, RejectedHandleClosed,
      CreateSettles, KeepSession, LateSession, StartSettles, EventArrives, HandlerSettles,
      EventsEnd, SessionClosed, Deadline, ClientCleanedUp, SessionCleanedUp
<1> QED BY <1>1, <1>2

LEMMA StepEngaged ==
  Typed /\ Released /\ RunStages /\ EngagedInv /\ BusyTracksCalls /\ [Next]_vars
    => EngagedInv' /\ BusyTracksCalls'
<1> SUFFICES ASSUME Typed, Released, RunStages, EngagedInv, BusyTracksCalls, [Next]_vars
             PROVE  EngagedInv' /\ BusyTracksCalls'
  OBVIOUS
<1>0. /\ task \in [Calls \cup {"main"} -> {"none", "starting", "active", "settled"}]
      /\ "main" \notin Calls
  BY CallsAssumption DEF Typed, TaskTyped, Calls
<1>m. Live("main") => kind = "run"
  BY DEF EngagedInv
<1>1. CASE SetupNext
  BY <1>1, SetupStepKeeps, <1>0, <1>m, NoCallSteps DEF ChatReturned, RunStages, Live, chatVars
<1>2. CASE HostCloses \/ ChatCloseProceeds
  BY <1>2, <1>m, NoCallSteps DEF HostCloses, ChatCloseProceeds, CloseChat, ChatReturned, setupVars, Live
<1>3. ASSUME NEW c \in Calls,
             \/ CallBegins(c) \/ CallStarted(c) \/ CallNotStarted(c) \/ SendEvent(c)
             \/ SendHandled(c) \/ SendDeadline(c) \/ SendRejects(c) \/ ResultSeen(c)
      PROVE  EngagedInv' /\ BusyTracksCalls'
  BY <1>3, CallStepEngaged
<1>4. ASSUME NEW r \in Calls \cup {"main"}, RunEnds(r)
      PROVE  EngagedInv' /\ BusyTracksCalls'
  BY <1>0, <1>4, <1>m, NoCallSteps DEF RunEnds, Live, ChatReturned, setupVars, chatVars
<1>5. CASE UNCHANGED vars
  BY <1>5, <1>m, NoCallSteps DEF ChatReturned, vars, setupVars, chatVars, Live
<1> QED BY <1>1, <1>2, <1>3, <1>4, <1>5 DEF Next, ChatNext

-------------------------------------------------------------------------------
(* The invariant and what follows from it. *)

LEMMA HostInvInductive == Spec => []HostInv
<1>1. Init => HostInv
  <2> SUFFICES ASSUME Init PROVE HostInv
    OBVIOUS
  <2>1. TypeOK /\ Released /\ RunStages
    BY InitTyped, TypedIsTypeOK
    DEF Init, Released, RaceInv, OpenIsOwned, ChatCloseInv, RunStages, ChatReturned, Handles, Probes
  <2>2. (\A c \in Calls : op[c] = "idle") /\ \A r \in Calls \cup {"main"} : task[r] = "none"
    BY DEF Init
  <2>3. EngagedInv /\ BusyTracksCalls
    BY <2>2 DEF Init, EngagedInv, BusyTracksCalls, Engaged, Live, InCall
  <2> QED BY <2>1, <2>3 DEF HostInv
<1>2. HostInv /\ [Next]_vars => HostInv'
  <2> SUFFICES ASSUME HostInv, [Next]_vars PROVE HostInv'
    OBVIOUS
  <2>1. Typed /\ Released /\ RunStages /\ EngagedInv /\ BusyTracksCalls
    BY TypedIsTypeOK DEF HostInv
  <2>2. closePromise = "pending" => toClose # <<>>
    BY <2>1 DEF Released, ChatCloseInv
  <2>3. TypeOK'
    BY <2>1, <2>2, StepTyped
    DEF Typed, SetupTyped, HandleTyped, TaskTyped, ChatTyped, TypeOK, Stages, HandleStates,
        CloseOrders
  <2> QED BY <2>1, <2>3, StepReleased, RunStagesKept, StepEngaged DEF HostInv
<1> QED BY <1>1, <1>2, PTL DEF Spec

(* Every variable keeps its type: in particular the order of a chat's close is one of the four    *)
(* that are left of two handles, in session.ts's close(abort).                                      *)
THEOREM HostTypeCorrect == Spec => []TypeOK
<1>1. HostInv => TypeOK
  BY DEF HostInv
<1> QED BY <1>1, HostInvInductive, PTL

(* However the deadline, the provider and the host's calls interleave, what run() or openSession() *)
(* opened is released when the call or the chat's close has settled.                                *)
THEOREM HandlesAreReleased == Spec => []HandlesReleased
<1>1. HostInv => HandlesReleased
  BY DEF HostInv, Released, RaceInv, OpenIsOwned, ChatCloseInv, HandlesReleased, ChatReturned, Handles
<1> QED BY <1>1, HostInvInductive, PTL

(* `busy` is set exactly while one of any number of send() and start() calls is in progress.       *)
THEOREM BusyIsExact == Spec => []BusyTracksCalls
<1>1. HostInv => BusyTracksCalls
  BY DEF HostInv
<1> QED BY <1>1, HostInvInductive, PTL

(* However many calls a host makes on a chat, the provider has at most one Run in progress: a Run  *)
(* that outlives the send() which gave it up has closed the chat to every other.                    *)
THEOREM OneRun == Spec => []OneRunAtATime
<1>1. HostInv => OneRunAtATime
  <2> SUFFICES ASSUME HostInv PROVE OneRunAtATime
    OBVIOUS
  <2> DEFINE L == {r \in DOMAIN task : task[r] \in {"starting", "active"}}
  <2>1. DOMAIN task = Calls \cup {"main"}
    BY DEF HostInv, TypeOK
  <2>2. \A r, s \in L : r = s
    BY <2>1 DEF HostInv, EngagedInv, Engaged, Live, ChatReturned
  <2>3. CASE L = {}
    BY <2>3, FS_EmptySet DEF OneRunAtATime
  <2>4. CASE L # {}
    <3>1. PICK r \in L : TRUE
      BY <2>4
    <3>2. L = {r}
      BY <2>2, <3>1
    <3>3. Cardinality(L) = 1
      BY <3>2, FS_Singleton
    <3> QED BY <3>3 DEF OneRunAtATime
  <2> QED BY <2>3, <2>4
<1> QED BY <1>1, HostInvInductive, PTL

-------------------------------------------------------------------------------
(* What the entry points of HostRuntime and the calls on a chat tell their caller, and in which      *)
(* order handles are closed. It rests on HostInv.                                                  *)

(* Stages at which run() has not started its Run. *)
RunlessStages == {"prepare", "connect", "rejecting", "lateClient", "create", "lateSession"} \cup Probes

(* What the setup has done by the stage it is at. *)
SetupInv ==
  /\ stage \in {"create", "lateSession", "start", "events", "handler", "closing"} => "client" \in owned
  /\ "session" \in owned => "client" \in owned
  /\ stage \in Probes \/ (stage = "create" /\ ~stopped) => handle["client"] = "open"
  /\ stage \in RunlessStages => task["main"] = "none"
  /\ stage = "closing" => task["main"] = "settled"
  /\ cleanup \in {"none", "client"} => ~cleanupFailed

(* run() has its result only after its Run has ended and its Session is closed; what is left is the  *)
(* close() of the Client, and its failure is on record.                                             *)
ResultInv ==
  kind = "run" /\ outcome = "ok" =>
     /\ stage = "returned" /\ task["main"] = "settled"
     /\ owned = {"client"} /\ handle["session"] = "closed"
     /\ cleanup \in {"session", "done"} /\ ~cleanupFailed => handle["client"] = "closed"

Gone(h) == handle[h] \in {"closed", "failed"}

(* The shared close of a chat: not begun, under way with one or two handles to go, or over. *)
CloseInv ==
  /\ ChatReturned /\ closePromise = "unset" => ~closed /\ \A h \in Handles : handle[h] = "open"
  /\ closePromise = "pending" =>
       /\ closed
       /\ \A h \in Handles : Gone(h) \/ h = Head(toClose) \/ h = toClose[Len(toClose)]
       /\ Head(toClose) # toClose[Len(toClose)] => handle[toClose[Len(toClose)]] = "open"
  /\ closePromise = "settled" => closed /\ \A h \in Handles : Gone(h)
  /\ \A c \in Sends : op[c] = "failed" => closePromise = "settled"

OutcomeInv == SetupInv /\ ResultInv /\ CloseInv

-------------------------------------------------------------------------------
(* The setup. *)

LEMMA ThrowKeepsSetupInv ==
  ASSUME HostInv, SetupInv, NEW hs, Throw(hs), UNCHANGED <<owned, cleanupFailed>>
  PROVE  SetupInv'
<1>1. cleanup' \in {"none", "client"} => cleanup \in {"none", "client"}
  BY DEF HostInv, Released, RaceInv, Throw, Decide
<1> QED BY <1>1 DEF SetupInv, Throw, RunlessStages, Probes

LEMMA SetupKeepsSetupInv == HostInv /\ SetupInv /\ SetupNext => SetupInv'
<1> SUFFICES ASSUME HostInv, SetupInv, SetupNext PROVE SetupInv'
  OBVIOUS
<1> USE DEF Probes, RunlessStages
<1>t. /\ handle \in [Handles -> HandleStates] /\ "client" \in Handles /\ "session" \in Handles
      /\ task \in [Calls \cup {"main"} -> {"none", "starting", "active", "settled"}]
      /\ cleanupFailed \in BOOLEAN
  BY DEF HostInv, TypeOK, HandleStates, Handles
<1>c. /\ cleanup = "none" <=> outcome = "none"
      /\ stage \in Probes => owned = {}
  BY DEF HostInv, Released, RaceInv, OpenIsOwned
<1>h. ASSUME NEW hs, Throw(hs), UNCHANGED <<owned, cleanupFailed>> PROVE SetupInv'
  BY <1>h, ThrowKeepsSetupInv
<1>1. CASE Prepared
  BY <1>t, <1>h, <1>1 DEF SetupInv, Prepared
<1>0. CASE FactoryConnected
  BY <1>t, <1>h, <1>0 DEF SetupInv, FactoryConnected
<1>2. CASE ProbeSettles
  BY <1>t, <1>2 DEF SetupInv, ProbeSettles, Connected
<1>3. CASE RejectedHandleClosed
  BY <1>h, <1>3 DEF RejectedHandleClosed
<1>4. CASE CreateSettles
  BY <1>4, <1>c, <1>t, <1>h DEF SetupInv, CreateSettles, KeepSession, Decide, LateSession
<1>5. CASE StartSettles
  BY <1>t, <1>h, <1>5 DEF SetupInv, StartSettles
<1>6. CASE EventArrives \/ HandlerSettles \/ EventsEnd
  BY <1>t, <1>h, <1>6 DEF SetupInv, EventArrives, HandlerSettles, EventsEnd
<1>7. CASE SessionClosed
  BY <1>c, <1>7, <1>h DEF Decide, SetupInv, SessionClosed
<1>8. CASE Deadline
  BY <1>c, <1>8 DEF Deadline, Decide, SetupInv
<1>9. CASE ClientCleanedUp
  BY <1>9, <1>c DEF ClientCleanedUp, HostInv, Released, RaceInv, ChatReturned, SetupInv
<1>10. CASE SessionCleanedUp
  BY <1>10, <1>c DEF SessionCleanedUp, HostInv, Released, RaceInv, ChatReturned, SetupInv
<1> QED BY <1>0, <1>1, <1>2, <1>3, <1>4, <1>5, <1>6, <1>7, <1>8, <1>9, <1>10 DEF SetupNext

LEMMA SetupKeepsResultInv == HostInv /\ SetupInv /\ ResultInv /\ SetupNext => ResultInv'
<1> SUFFICES ASSUME HostInv, SetupInv, ResultInv, SetupNext, kind = "run", outcome' = "ok"
             PROVE  ResultInv'
  BY SetupStepKeeps DEF ResultInv
<1>t. /\ handle \in [Handles -> HandleStates] /\ "client" \in Handles /\ "session" \in Handles
      /\ cleanupFailed \in BOOLEAN /\ owned \subseteq Handles
  BY DEF HostInv, TypeOK, HandleStates, Handles
<1>c. cleanup = "none" <=> outcome = "none"
  BY DEF HostInv, Released, RaceInv
<1>1. CASE outcome = "ok"
  <2>1. ClientCleanedUp \/ SessionCleanedUp
    BY <1>1 DEF ResultInv, SetupNext, Prepared, FactoryConnected, ProbeSettles, Probes,
         RejectedHandleClosed, CreateSettles, StartSettles, EventArrives, HandlerSettles, EventsEnd,
         SessionClosed, Deadline
  <2>2. stage = "returned" /\ task["main"] = "settled" /\ owned = {"client"} /\ handle["session"] = "closed"
    BY <1>1 DEF ResultInv
  <2>3. CASE ClientCleanedUp
    <3>1. PICK ok \in BOOLEAN : /\ handle' = Settling(handle, "client", ok)
                                /\ cleanupFailed' = (cleanupFailed \/ ~ok)
      BY <2>2, <2>3 DEF ClientCleanedUp
    <3>2. handle'["session"] = "closed" /\ (ok => handle'["client"] = "closed")
      BY <1>t, <2>2, <3>1 DEF Settling
    <3> QED BY <2>2, <2>3, <3>1, <3>2 DEF ClientCleanedUp, ResultInv
  <2>4. CASE SessionCleanedUp
    BY <1>t, <2>2, <2>4, <1>1 DEF SessionCleanedUp, ResultInv
  <2> QED BY <2>1, <2>3, <2>4
<1>2. CASE outcome # "ok"
  <2>1. SessionClosed /\ outcome = "none"
    BY <1>2 DEF SetupNext, Prepared, FactoryConnected, ProbeSettles, RejectedHandleClosed,
         CreateSettles, KeepSession, LateSession, StartSettles, EventArrives, HandlerSettles, EventsEnd,
         SessionClosed, Deadline, ClientCleanedUp, SessionCleanedUp, Throw, Decide
  <2>2. /\ stage' = "returned" /\ owned' = owned \ {"session"} /\ cleanup' = "client"
        /\ handle' = Calling(Settling(handle, "session", TRUE), "client") \/ "client" \notin owned
    BY <1>2, <2>1 DEF SessionClosed, Throw, Decide
  <2>3. "client" \in owned /\ task["main"] = "settled"
    BY <2>1 DEF SessionClosed, SetupInv
  <2>4. handle'["session"] = "closed"
    BY <1>t, <2>2, <2>3 DEF Calling, Settling, HandleStates
  <2>5. owned' = {"client"}
    BY <1>t, <2>2, <2>3 DEF Handles
  <2> QED BY <2>1, <2>2, <2>3, <2>4, <2>5 DEF SessionClosed, ResultInv
<1> QED BY <1>1, <1>2

LEMMA SetupBeforeChat == HostInv /\ SetupNext => ~ChatReturned
  BY DEF HostInv, Released, RaceInv, ChatReturned, SetupNext, Prepared, FactoryConnected,
         ProbeSettles, Probes, RejectedHandleClosed, CreateSettles, StartSettles, EventArrives,
         HandlerSettles, EventsEnd, SessionClosed, Deadline, ClientCleanedUp, SessionCleanedUp

LEMMA SetupKeepsCloseInv == HostInv /\ SetupInv /\ CloseInv /\ SetupNext => CloseInv'
<1> SUFFICES ASSUME HostInv, SetupInv, CloseInv, SetupNext PROVE CloseInv'
  OBVIOUS
<1>1. ~ChatReturned
  BY SetupBeforeChat
<1>2. closePromise = "unset" /\ ~closed /\ UNCHANGED chatVars
  BY <1>1, SetupStepKeeps DEF HostInv, Released, RaceInv
<1>3. \A c \in Sends : op'[c] # "failed"
  BY <1>2 DEF CloseInv, chatVars
<1>4. ChatReturned' => \A h \in Handles : handle'[h] = "open"
  <2> SUFFICES ASSUME ChatReturned' PROVE \A h \in Handles : handle'[h] = "open"
    OBVIOUS
  <2>1. kind = "openSession" /\ outcome # "ok" /\ outcome' = "ok"
    BY <1>1, SetupStepKeeps DEF ChatReturned
  <2>2. CreateSettles /\ KeepSession
    BY <2>1 DEF SetupNext, Prepared, FactoryConnected, ProbeSettles, RejectedHandleClosed,
         CreateSettles, KeepSession, LateSession, StartSettles, EventArrives, HandlerSettles, EventsEnd,
         SessionClosed, Deadline, ClientCleanedUp, SessionCleanedUp, Throw, Decide,
         HostInv, RunStages
  <2>3. handle' = [handle EXCEPT !["session"] = "open"] /\ handle["client"] = "open"
    BY <2>1, <2>2 DEF CreateSettles, KeepSession, Decide, SetupInv
  <2> QED BY <2>3 DEF Handles, HostInv, TypeOK
<1> QED BY <1>2, <1>3, <1>4 DEF CloseInv, chatVars
-------------------------------------------------------------------------------
(* The chat. *)

CallStep(c) ==
  \/ CallBegins(c) \/ CallStarted(c) \/ CallNotStarted(c) \/ SendEvent(c)
  \/ SendHandled(c) \/ SendDeadline(c) \/ SendRejects(c) \/ ResultSeen(c)

LEMMA CallStepOfChat ==
  ASSUME HostInv, NEW c \in Calls, CallStep(c)
  PROVE  ChatReturned /\ UNCHANGED setupVars
  BY DEF HostInv, EngagedInv, Engaged, Live, InCall, CallStep, CallBegins, CallStarted, CallNotStarted,
         SendEvent, SendHandled, SendDeadline, SendRejects, ResultSeen

LEMMA CloseOrderOf ==
  ASSUME HostInv, closePromise = "pending"
  PROVE  /\ toClose # <<>> /\ Head(toClose) \in Handles /\ toClose[Len(toClose)] \in Handles
         /\ Tail(toClose) = <<>> => Head(toClose) = toClose[Len(toClose)]
         /\ Tail(toClose) # <<>> => /\ Head(Tail(toClose)) = toClose[Len(toClose)]
                                   /\ Tail(toClose)[Len(Tail(toClose))] = toClose[Len(toClose)]
                                   /\ Head(toClose) # toClose[Len(toClose)]
  BY OrderSteps DEF HostInv, Released, ChatCloseInv, TypeOK, CloseOrders

LEMMA CloseChatKeeps ==
  ASSUME HostInv, CloseInv, ChatReturned, ChatReturned', NEW abort \in BOOLEAN, CloseChat(abort),
         \A c \in Sends : op'[c] = "failed" => op[c] = "failed"
  PROVE  CloseInv'
<1>1. CASE closePromise # "unset"
  BY <1>1 DEF CloseChat, CloseInv, Gone
<1>2. CASE closePromise = "unset"
  <2>1. PICK g \in Handles, h \in Handles :
          g # h /\ toClose' = <<g, h>> /\ handle' = Calling(handle, g)
    BY <1>2 DEF CloseChat, Handles
  <2>2. handle \in [Handles -> HandleStates] /\ handle[h] = "open"
    BY <1>2 DEF HostInv, TypeOK, HandleStates, CloseInv
  <2>3. handle'[h] = "open"
    BY <2>1, <2>2, HandleSteps
  <2>4. closed' /\ closePromise' = "pending"
    BY <1>2 DEF CloseChat
  <2>5. \A k \in Handles : k = g \/ k = h
    BY <2>1 DEF Handles
  <2>6. Head(toClose') = g /\ toClose'[Len(toClose')] = h
    BY <2>1
  <2>7. \A c \in Sends : op'[c] # "failed"
    BY <1>2 DEF CloseInv
  <2> QED BY <2>3, <2>4, <2>5, <2>6, <2>7 DEF CloseInv
<1> QED BY <1>1, <1>2

LEMMA ChatCloseProceedsKeeps == HostInv /\ CloseInv /\ ChatCloseProceeds => CloseInv'
<1> SUFFICES ASSUME HostInv, CloseInv, ChatCloseProceeds PROVE CloseInv'
  OBVIOUS
<1> DEFINE g == Head(toClose)
           h == toClose[Len(toClose)]
<1>1. closePromise = "pending" /\ toClose' = Tail(toClose) /\ closed' = closed /\ op' = op /\ closed
  BY DEF ChatCloseProceeds, CloseInv
<1>2. PICK ok \in BOOLEAN :
        IF toClose' = <<>>
        THEN handle' = Settling(handle, Head(toClose), ok) /\ closePromise' = "settled"
        ELSE /\ handle' = Calling(Settling(handle, Head(toClose), ok), Head(toClose'))
             /\ closePromise' = "pending"
  BY <1>1 DEF ChatCloseProceeds
<1>3. handle \in [Handles -> HandleStates] /\ g \in Handles /\ h \in Handles
  BY <1>1, CloseOrderOf DEF HostInv, TypeOK, HandleStates
<1> DEFINE hs == Settling(handle, g, ok)
<1>4. /\ hs \in [Handles -> HandleStates] /\ hs[g] \in {"closed", "failed"}
      /\ \A k \in Handles : k # g => hs[k] = handle[k]
  BY <1>3, HandleSteps
<1>5. \A c \in Sends : op'[c] # "failed"
  BY <1>1 DEF CloseInv
<1>6. \A k \in Handles : Gone(k) \/ k = g \/ k = h
  BY <1>1 DEF CloseInv
<1>7. CASE Tail(toClose) = <<>>
  BY <1>1, <1>2, <1>7, CloseOrderOf, <1>4, <1>6 DEF Gone, CloseInv
<1>8. CASE Tail(toClose) # <<>>
  <2>1. /\ handle' = Calling(hs, h) /\ closePromise' = "pending"
        /\ Head(toClose') = h /\ toClose'[Len(toClose')] = h
    BY <1>1, <1>2, <1>8, CloseOrderOf
  <2>2. PICK last \in Handles : last = h
    BY <1>3
  <2>3. \A k \in Handles : k # last => handle'[k] = hs[k]
    BY <1>4, <2>1, <2>2, HandleSteps
  <2>4. \A k \in Handles : k # last => handle'[k] \in {"closed", "failed"}
    BY <1>4, <1>6, <2>2, <2>3 DEF Gone
  <2> QED BY <1>1, <1>5, <2>1, <2>2, <2>4 DEF CloseInv, Gone
<1> QED BY <1>7, <1>8

LEMMA CallStepKeepsCloseInv ==
  ASSUME HostInv, CloseInv, NEW c \in Calls, CallStep(c)
  PROVE  CloseInv'
<1>0. ChatReturned /\ ChatReturned'
  BY CallStepOfChat DEF ChatReturned, setupVars
<1>1. /\ op \in [Calls -> InCall \cup {"idle", "refused", "ok", "failed"}]
      /\ Sends \subseteq Calls /\ (c \in Starts => c \notin Sends)
  BY CallsAssumption DEF HostInv, TypeOK, Calls
<1>2. CASE SendFails(c)
  BY <1>1, <1>2, <1>0, CloseChatKeeps DEF SendFails, Calls
<1>3. CASE UNCHANGED <<closed, closePromise, toClose, handle>>
  <2>1. \A d \in Sends : op'[d] = "failed" => op[d] = "failed" \/ closePromise = "settled"
    <3>1. CASE CallBegins(c) \/ CallStarted(c)
      BY <1>1, <3>1 DEF CallBegins, CallStarted
    <3>2. CASE CallNotStarted(c)
      BY <3>2, <1>1 DEF CallNotStarted, StartRefused, SendFails, chatVars
    <3>3. CASE SendEvent(c) \/ SendHandled(c) \/ SendDeadline(c) \/ ResultSeen(c)
      BY <1>1, <3>3 DEF SendEvent, SendHandled, SendDeadline, ResultSeen, SendFails
    <3>4. CASE SendRejects(c)
      BY <3>4 DEF SendRejects
    <3> QED BY <3>1, <3>2, <3>3, <3>4 DEF CallStep
  <2> QED BY <1>0, <1>3, <2>1 DEF CloseInv, Gone
<1> QED BY <1>2, <1>3 DEF CallStep, CallBegins, CallStarted, CallNotStarted, StartRefused, SendEvent,
                          SendHandled, SendDeadline, SendRejects, ResultSeen, chatVars

(* Steps of the chat leave the setup where it was. *)
LEMMA ChatKeepsSetup ==
  ASSUME HostInv, SetupInv, ResultInv, ChatReturned, UNCHANGED setupVars
  PROVE  SetupInv' /\ ResultInv'
<1>1. stage = "returned" /\ kind = "openSession"
  BY DEF HostInv, Released, RaceInv, ChatReturned
<1> QED BY <1>1 DEF SetupInv, ResultInv, setupVars, RunlessStages, Probes

LEMMA StepOutcome == HostInv /\ HostInv' /\ OutcomeInv /\ [Next]_vars => OutcomeInv'
<1> SUFFICES ASSUME HostInv, HostInv', OutcomeInv, [Next]_vars PROVE OutcomeInv'
  OBVIOUS
<1>i. SetupInv /\ ResultInv /\ CloseInv
  BY DEF OutcomeInv
<1>1. CASE SetupNext
  BY <1>i, <1>1, SetupKeepsSetupInv, SetupKeepsResultInv, SetupKeepsCloseInv DEF OutcomeInv
<1>2. CASE HostCloses
  BY <1>2, <1>i, CloseChatKeeps, ChatKeepsSetup DEF HostCloses, ChatReturned, setupVars, HostInv, TypeOK, OutcomeInv
<1>3. CASE ChatCloseProceeds
  BY <1>3, <1>i, ChatCloseProceedsKeeps, ChatKeepsSetup DEF ChatCloseProceeds, HostInv, Released, RaceInv, OutcomeInv
<1>4. ASSUME NEW c \in Calls, CallStep(c) PROVE OutcomeInv'
  BY <1>i, <1>4, CallStepOfChat, CallStepKeepsCloseInv, ChatKeepsSetup DEF OutcomeInv
<1>5. ASSUME NEW r \in Calls \cup {"main"}, RunEnds(r) PROVE OutcomeInv'
  <2>1. UNCHANGED <<setupVars, chatVars, handle>>
    BY <1>5 DEF RunEnds
  <2>2. task'["main"] = task["main"] \/ (task["main"] = "active" /\ task'["main"] = "settled")
    BY <1>5 DEF RunEnds, HostInv, TypeOK
  <2> QED BY <1>i, <2>1, <2>2 DEF OutcomeInv, SetupInv, ResultInv, CloseInv, Gone, ChatReturned,
                                  setupVars, chatVars, RunlessStages, Probes
<1>6. CASE UNCHANGED vars
  BY <1>i, <1>6 DEF OutcomeInv, SetupInv, ResultInv, CloseInv, Gone, ChatReturned,
                    vars, setupVars, chatVars
<1> QED BY <1>1, <1>2, <1>3, <1>4, <1>5, <1>6 DEF Next, ChatNext, CallStep

LEMMA OutcomeInvInductive == Spec => []OutcomeInv
<1>1. Init => OutcomeInv
  BY DEF Init, OutcomeInv, SetupInv, ResultInv, CloseInv, ChatReturned, Probes, Calls
<1> QED BY <1>1, StepOutcome, HostInvInductive, PTL DEF Spec

(* run() gives a result only once its Run has ended and both handles are closed without an error,  *)
(* and a send() rejects only once both handles of the chat were closed, whatever the provider and  *)
(* the deadline do, for any number of calls on the chat (run.ts:48-133, session.ts:118-195).        *)
THEOREM OutcomesAreTrue == Spec => []OutcomesAreAuthoritative
<1>1. HostInv /\ OutcomeInv => OutcomesAreAuthoritative
  <2> SUFFICES ASSUME HostInv, OutcomeInv PROVE OutcomesAreAuthoritative
    OBVIOUS
  <2>1. (kind = "run" /\ cleanup = "done" /\ Answer = "ok") =>
          task["main"] = "settled" /\ \A h \in Handles : handle[h] = "closed"
    BY DEF OutcomeInv, ResultInv, Answer, Handles
  <2>2. \A c \in Sends : op[c] = "failed" =>
          closed /\ \A h \in Handles : handle[h] \in {"closed", "failed"}
    BY DEF OutcomeInv, CloseInv, Gone
  <2> QED BY <2>1, <2>2 DEF OutcomesAreAuthoritative
<1> QED BY <1>1, HostInvInductive, OutcomeInvInductive, PTL

-------------------------------------------------------------------------------
(* The order of closing. *)

NoneLive == \A r \in DOMAIN task : task[r] \notin {"starting", "active"}

(* The Session is asked to close only under no Run, or after its Client's close() has settled. *)
SessionCloses == handle["session"] # "closing" /\ handle'["session"] = "closing"
SessionFree   == NoneLive \/ handle'["client"] \in {"closed", "failed"}

LEMMA NoChatNoneLive ==
  ASSUME HostInv, ~ChatReturned, task["main"] \notin {"starting", "active"}
  PROVE  NoneLive
  BY DEF HostInv, TypeOK, EngagedInv, Engaged, Live, NoneLive

LEMMA SetupOrdered == HostInv /\ SetupInv /\ SetupNext /\ SessionCloses => SessionFree
<1> SUFFICES ASSUME HostInv, SetupInv, SetupNext, SessionCloses PROVE SessionFree
  OBVIOUS
<1>t. /\ handle \in [Handles -> HandleStates] /\ "client" \in Handles /\ "session" \in Handles
      /\ ~ChatReturned
  BY SetupBeforeChat DEF HostInv, TypeOK, HandleStates, Handles
<1>h. ASSUME NEW hs \in [Handles -> HandleStates], NEW o, Decide(o, hs), hs["session"] # "closing"
      PROVE  FALSE
  BY <1>h, <1>t DEF Decide, Calling, SessionCloses
<1>s. ASSUME NEW h \in Handles, NEW ok \in BOOLEAN
      PROVE  /\ Settling(handle, h, ok) \in [Handles -> HandleStates]
             /\ Settling(handle, h, ok)["session"] # "closing"
  BY <1>t, HandleSteps DEF Settling, SessionCloses
<1>o. [handle EXCEPT !["session"] = "open"] \in [Handles -> HandleStates]
  BY <1>t DEF HandleStates
<1>1. CASE Prepared \/ FactoryConnected \/ ProbeSettles
  BY <1>t, <1>h, <1>1 DEF Prepared, FactoryConnected, ProbeSettles, Connected, Throw, Calling, SessionCloses
<1>2. CASE RejectedHandleClosed
  BY <1>t, <1>h, <1>s, <1>2 DEF RejectedHandleClosed, Throw
<1>3. CASE CreateSettles
  BY <1>t, <1>h, <1>o, <1>3, NoChatNoneLive
     DEF KeepSession, SessionCloses, CreateSettles, SetupInv, RunlessStages, SessionFree, Throw
<1>4. CASE StartSettles \/ EventArrives \/ HandlerSettles \/ Deadline
  BY <1>t, <1>h, <1>4 DEF StartSettles, EventArrives, HandlerSettles, Deadline, Throw, SessionCloses
<1>5. CASE EventsEnd
  BY <1>t, <1>5, NoChatNoneLive DEF EventsEnd, SessionFree
<1>6. CASE SessionClosed
  BY <1>t, <1>h, <1>s, <1>6 DEF SessionClosed, Throw
<1>7. CASE ClientCleanedUp
  <2>1. PICK ok \in BOOLEAN :
          LET hs == IF "client" \in owned THEN Settling(handle, "client", ok) ELSE handle IN
          handle' = IF "session" \in owned THEN Calling(hs, "session") ELSE hs
    BY <1>7 DEF ClientCleanedUp
  <2>2. CASE "session" \in owned
    <3>1. handle' = Calling(Settling(handle, "client", ok), "session")
      BY <2>1, <2>2 DEF SetupInv
    <3>2. /\ Settling(handle, "client", ok) \in [Handles -> HandleStates]
          /\ Settling(handle, "client", ok)["client"] \in {"closed", "failed"}
      BY <1>t, HandleSteps
    <3>3. handle'["client"] \in {"closed", "failed"}
      <4>1. PICK hs \in [Handles -> HandleStates] : hs = Settling(handle, "client", ok)
        BY <3>2
      <4>2. "client" # "session"
        OBVIOUS
      <4>3. handle' = [hs EXCEPT !["session"] = "closing"]
        BY <3>1, <4>1 DEF Calling
      <4> QED BY <1>t, <3>2, <4>1, <4>2, <4>3
    <3> QED BY <3>3 DEF SessionFree
  <2>3. CASE "session" \notin owned
    BY <1>t, <1>s, <2>1, <2>3 DEF SessionCloses
  <2> QED BY <2>2, <2>3
<1>8. CASE SessionCleanedUp
  BY <1>t, <1>s, <1>8 DEF SessionCleanedUp, SessionCloses
<1> QED BY <1>1, <1>2, <1>3, <1>4, <1>5, <1>6, <1>7, <1>8 DEF SetupNext

(* A handle of a chat is asked to close once. *)
OnceAsked ==
  ChatReturned => \A h \in Handles :
    handle[h] # "closing" /\ handle'[h] = "closing" => handle[h] = "open"

LEMMA CloseChatOrdered ==
  ASSUME HostInv, CloseInv, ChatReturned, NEW abort \in BOOLEAN, CloseChat(abort), busy => abort
  PROVE  (SessionCloses => SessionFree) /\ OnceAsked
<1>1. CASE closePromise # "unset"
  BY <1>1 DEF CloseChat, SessionCloses, OnceAsked
<1>2. CASE closePromise = "unset"
  <2>1. ~closed /\ \A h \in Handles : handle[h] = "open"
    BY <1>2 DEF CloseInv
  <2>2. handle' = Calling(handle, IF abort THEN "client" ELSE "session")
    BY <1>2 DEF CloseChat
  <2>3. SessionCloses => ~abort
    BY <2>1, <2>2 DEF Calling, SessionCloses, Handles, HostInv, TypeOK
  <2>4. ~abort => NoneLive
    BY <2>1 DEF HostInv, TypeOK, EngagedInv, Live, BusyTracksCalls, NoneLive, ChatReturned
  <2> QED BY <2>1, <2>3, <2>4 DEF SessionFree, OnceAsked
<1> QED BY <1>1, <1>2

LEMMA ChatCloseOrdered ==
  ASSUME HostInv, CloseInv, ChatCloseProceeds
  PROVE  (SessionCloses => SessionFree) /\ OnceAsked
<1>1. closePromise = "pending" /\ toClose' = Tail(toClose)
  BY DEF ChatCloseProceeds
<1>2. PICK g \in Handles, h \in Handles : g = Head(toClose) /\ h = toClose[Len(toClose)]
  BY <1>1, CloseOrderOf
<1>3. PICK ok \in BOOLEAN :
        IF toClose' = <<>> THEN handle' = Settling(handle, g, ok)
        ELSE handle' = Calling(Settling(handle, g, ok), Head(toClose'))
  BY <1>2 DEF ChatCloseProceeds
<1>4. /\ Settling(handle, g, ok) \in [Handles -> HandleStates]
      /\ Settling(handle, g, ok)[g] \in {"closed", "failed"}
      /\ \A k \in Handles : k # g => Settling(handle, g, ok)[k] = handle[k]
  BY <1>2, HandleSteps DEF HostInv, TypeOK, HandleStates
<1>5. CASE Tail(toClose) = <<>>
  BY <1>1, <1>3, <1>4, <1>5 DEF SessionCloses, OnceAsked, Handles
<1>6. CASE Tail(toClose) # <<>>
  BY <1>1, <1>2, <1>3, <1>6, CloseOrderOf, <1>4, HandleSteps DEF CloseInv, Handles, SessionCloses, SessionFree, OnceAsked
<1> QED BY <1>5, <1>6

LEMMA StepOrdered ==
  HostInv /\ OutcomeInv /\ Next => (SessionCloses => SessionFree) /\ OnceAsked
<1> SUFFICES ASSUME HostInv, OutcomeInv, Next PROVE (SessionCloses => SessionFree) /\ OnceAsked
  OBVIOUS
<1>i. SetupInv /\ CloseInv
  BY DEF OutcomeInv
<1>1. ASSUME handle' = handle PROVE (SessionCloses => SessionFree) /\ OnceAsked
  BY <1>1 DEF SessionCloses, OnceAsked
<1>2. CASE SetupNext
  BY <1>i, <1>2, SetupOrdered, SetupBeforeChat DEF OnceAsked
<1>3. CASE HostCloses
  BY <1>i, <1>3, CloseChatOrdered DEF HostInv, TypeOK, HostCloses
<1>4. CASE ChatCloseProceeds
  BY <1>i, <1>4, ChatCloseOrdered
<1>5. ASSUME NEW c \in Calls, CallStep(c) PROVE (SessionCloses => SessionFree) /\ OnceAsked
  <2>1. CASE CloseChat(TRUE)
    BY <1>i, <1>5, <2>1, CallStepOfChat, CloseChatOrdered
  <2>2. handle' = handle \/ CloseChat(TRUE)
    BY <1>5 DEF CallStep, CallBegins, CallStarted, CallNotStarted, StartRefused, SendFails, SendEvent,
                SendHandled, SendDeadline, SendRejects, ResultSeen
  <2> QED BY <1>1, <2>1, <2>2
<1>6. ASSUME NEW r \in Calls \cup {"main"}, RunEnds(r)
      PROVE  (SessionCloses => SessionFree) /\ OnceAsked
  BY <1>1, <1>6 DEF RunEnds
<1> QED BY <1>2, <1>3, <1>4, <1>5, <1>6 DEF Next, ChatNext, CallStep

(* Whichever path closes a Session, no Run is in progress on it or its Client's close() has already *)
(* settled, and however many callers close a chat, each of its handles is asked to close once, for *)
(* any number of calls (run.ts; close(abort) of session.ts).                                        *)
THEOREM ClosedOnceInOrder == Spec => ClosesOnceInOrder
<1>1. HostInv /\ OutcomeInv /\ [Next]_vars =>
        [ /\ handle["session"] # "closing" /\ handle'["session"] = "closing"
             => \/ \A r \in DOMAIN task : task[r] \notin {"starting", "active"}
                \/ handle'["client"] \in {"closed", "failed"}
          /\ ChatReturned => \A h \in Handles :
               handle[h] # "closing" /\ handle'[h] = "closing" => handle[h] = "open" ]_vars
  BY StepOrdered DEF SessionCloses, SessionFree, NoneLive, OnceAsked
<1> QED BY <1>1, HostInvInductive, OutcomeInvInductive, PTL DEF Spec, ClosesOnceInOrder

-------------------------------------------------------------------------------
(* The Fake Provider. *)

FakeHandle ==
  [at : {"none"}, ownedRun : {NoRun}]
    \cup [at : {"open", "closed"}, ownedRun : Runs \cup {NoRun}, client : Clients, native : Natives]

FakeEnds == {"completed", "cancelled", "connection_aborted"}

FakeEvents ==
  {"run.started", "interaction.requested", "interaction.resolved", "message.delta", "message.completed"} \cup FakeEnds

FakeRunRecord ==
  [at : {"none", "active"} \cup FakeEnds, pending : BOOLEAN, timer : BOOLEAN,
   completion : {"none", "queued", "ran"}, emitted : Seq(FakeEvents)]

FakeReader == [at : {"idle", "running", "waiting", "returned"}, run : Runs \cup {NoRun}, index : Nat]

FakeTyped ==
  /\ options \in [cancelMode : {"native", "adapter_controlled", "unsupported"}, interaction : BOOLEAN]
  /\ shut \subseteq Clients /\ activeRuns \in [Clients -> SUBSET Runs]
  /\ DOMAIN natives \subseteq Natives /\ natives \in [DOMAIN natives -> Runs \cup {NoRun}]
  /\ handles \in [SessionHandles -> FakeHandle]
  /\ fakeRuns \in [Runs -> FakeRunRecord]
  /\ readers \in [Readers -> FakeReader]

(* The stream of a Run that began, and of one that ended. *)
BegunWith(run) ==
  run.emitted = IF run.pending THEN <<"run.started", "interaction.requested">> ELSE <<"run.started">>

EndedBy(events, status) ==
  /\ Len(events) # 0 /\ events[Len(events)] = status
  /\ \A i \in 1..Len(events) : events[i] = status => i = Len(events)
  /\ \A i \in 1..Len(events) : events[i] = "interaction.requested"
       => \E j \in (i + 1)..(Len(events) - 1) : events[j] = "interaction.resolved"
  /\ \A i \in 1..Len(events) : events[i] = "interaction.resolved"
       => \E j \in 1..Len(events) : events[j] = "interaction.requested"

(* A Run says what its state is. *)
StreamInv ==
  \A r \in Runs :
    /\ fakeRuns[r].at = "none" =>
         fakeRuns[r].emitted = <<>> /\ ~fakeRuns[r].pending /\ fakeRuns[r].completion = "none"
    /\ fakeRuns[r].at = "active" => BegunWith(fakeRuns[r])
    /\ fakeRuns[r].at \in FakeEnds => EndedBy(fakeRuns[r].emitted, fakeRuns[r].at) /\ ~fakeRuns[r].pending
    /\ fakeRuns[r].at # "active" => ~fakeRuns[r].timer

(* Who knows of a Run under way: its native Session and its client, which is open, and both forget   *)
(* it with its end; and the handle that started it, which is open as long.                          *)
KnownInv ==
  /\ \A n \in DOMAIN natives : natives[n] # NoRun => fakeRuns[natives[n]].at = "active"
  /\ \A r \in Runs : fakeRuns[r].at = "active" =>
       (\E n \in DOMAIN natives : natives[n] = r) /\ \E c \in Clients : r \in activeRuns[c]
  /\ \A c \in Clients : \A r \in activeRuns[c] : fakeRuns[r].at = "active" /\ c \notin shut

OwnedInv ==
  \A h \in SessionHandles :
    /\ handles[h].at # "none" => handles[h].native \in DOMAIN natives
    /\ handles[h].ownedRun # NoRun =>
         /\ handles[h].at # "none" /\ fakeRuns[handles[h].ownedRun].at # "none"
         /\ fakeRuns[handles[h].ownedRun].at = "active" =>
              natives[handles[h].native] = handles[h].ownedRun /\ handles[h].at = "open"

(* An iterator is no further than the stream of its Run, and returned only at its end. *)
ReadInv ==
  \A k \in Readers : readers[k].at # "idle" =>
    /\ readers[k].run \in Runs /\ fakeRuns[readers[k].run].at # "none"
    /\ readers[k].index <= Len(fakeRuns[readers[k].run].emitted)
    /\ readers[k].at = "returned" => /\ fakeRuns[readers[k].run].at \in FakeEnds
                                     /\ readers[k].index = Len(fakeRuns[readers[k].run].emitted)

FakeInv == FakeTyped /\ StreamInv /\ KnownInv /\ OwnedInv /\ ReadInv

(* What a step makes of a Run. *)
Rests(r)  ==
  /\ UNCHANGED <<fakeRuns[r].at, fakeRuns[r].pending, fakeRuns[r].timer, fakeRuns[r].emitted>>
  /\ fakeRuns[r].at = "none" => UNCHANGED fakeRuns[r].completion
Begins(r) == fakeRuns[r].at = "none" /\ fakeRuns'[r].at = "active" /\ BegunWith(fakeRuns'[r])
Finishes(r) ==
  /\ fakeRuns[r].at = "active" /\ fakeRuns'[r].at \in FakeEnds
  /\ ~fakeRuns'[r].pending /\ ~fakeRuns'[r].timer
  /\ fakeRuns'[r].emitted = Fake!FinalEvents(fakeRuns[r], fakeRuns'[r].at)

(* What it makes of an iterator. *)
Woken(k) ==
  /\ readers'[k].run = readers[k].run /\ readers'[k].index = readers[k].index
  /\ readers'[k].at # readers[k].at => readers[k].at = "waiting" /\ readers'[k].at = "running"

FakeMoves == \A r \in Runs : Rests(r) \/ Begins(r) \/ Finishes(r)

LEMMA Joined ==
  ASSUME NEW s \in Seq(FakeEvents), NEW t \in Seq(FakeEvents)
  PROVE  /\ s \o t \in Seq(FakeEvents) /\ Len(s \o t) = Len(s) + Len(t)
         /\ \A i \in 1..Len(s) : (s \o t)[i] = s[i]
         /\ \A i \in 1..Len(t) : (s \o t)[Len(s) + i] = t[i]
<1>1. /\ s \o t \in Seq(FakeEvents) /\ Len(s \o t) = Len(s) + Len(t) /\ Len(s) \in Nat /\ Len(t) \in Nat
      /\ \A i \in 1..Len(s) + Len(t) : (s \o t)[i] = IF i <= Len(s) THEN s[i] ELSE t[i - Len(s)]
  BY ConcatProperties, LenProperties
<1>2. ASSUME NEW i \in 1..Len(t)
      PROVE  Len(s) + i \in 1..Len(s) + Len(t) /\ ~(Len(s) + i <= Len(s)) /\ (Len(s) + i) - Len(s) = i
  BY <1>1
<1> QED BY <1>1, <1>2

LEMMA FinalEventsEnd ==
  ASSUME NEW run \in FakeRunRecord, BegunWith(run), NEW status \in FakeEnds
  PROVE  /\ Fake!FinalEvents(run, status) \in Seq(FakeEvents)
         /\ EndedBy(Fake!FinalEvents(run, status), status)
         /\ Len(Fake!FinalEvents(run, status)) >= Len(run.emitted)
         /\ run.pending => \E i \in 1..Len(Fake!FinalEvents(run, status)) :
                             Fake!FinalEvents(run, status)[i] = "interaction.requested"
<1> DEFINE last == <<status>>
           told == IF status = "completed" THEN <<"message.delta", "message.completed">> ELSE <<>>
           answered == IF run.pending THEN <<"interaction.resolved">> ELSE <<>>
           first == run.emitted \o answered
           middle == first \o told
           events == middle \o last
<1>1. /\ last \in Seq(FakeEvents) /\ told \in Seq(FakeEvents) /\ answered \in Seq(FakeEvents)
      /\ run.emitted \in Seq(FakeEvents)
  <2>1. <<status>> \in Seq(FakeEvents)
    BY DEF FakeEvents
  <2>2. <<"message.delta", "message.completed">> \in Seq(FakeEvents) /\ <<>> \in Seq(FakeEvents)
    BY DEF FakeEvents
  <2>3. <<"interaction.resolved">> \in Seq(FakeEvents)
    BY DEF FakeEvents
  <2> QED BY <2>1, <2>2, <2>3 DEF FakeRunRecord
<1>2. events = Fake!FinalEvents(run, status)
  BY DEF Fake!FinalEvents
<1>3. Len(last) = 1 /\ last[1] = status
  OBVIOUS
<1>4. /\ status = "completed" =>
           Len(told) = 2 /\ told[1] = "message.delta" /\ told[2] = "message.completed"
      /\ status # "completed" => Len(told) = 0
  OBVIOUS
<1>5. /\ run.pending => Len(answered) = 1 /\ answered[1] = "interaction.resolved"
      /\ ~run.pending => Len(answered) = 0
  OBVIOUS
<1>6. /\ run.pending =>
           Len(run.emitted) = 2 /\ run.emitted[1] = "run.started" /\ run.emitted[2] = "interaction.requested"
      /\ ~run.pending => Len(run.emitted) = 1 /\ run.emitted[1] = "run.started"
  BY DEF BegunWith
<1> HIDE DEF last, told, answered
<1>7. /\ first \in Seq(FakeEvents) /\ Len(first) = Len(run.emitted) + Len(answered)
      /\ \A i \in 1..Len(run.emitted) : first[i] = run.emitted[i]
      /\ \A i \in 1..Len(answered) : first[Len(run.emitted) + i] = answered[i]
  BY <1>1, Joined
<1> HIDE DEF first
<1>8. /\ middle \in Seq(FakeEvents) /\ Len(middle) = Len(first) + Len(told)
      /\ \A i \in 1..Len(first) : middle[i] = first[i]
      /\ \A i \in 1..Len(told) : middle[Len(first) + i] = told[i]
  BY <1>1, <1>7, Joined
<1> HIDE DEF middle
<1>9. /\ events \in Seq(FakeEvents) /\ Len(events) = Len(middle) + Len(last)
      /\ \A i \in 1..Len(middle) : events[i] = middle[i]
      /\ \A i \in 1..Len(last) : events[Len(middle) + i] = last[i]
  BY <1>1, <1>8, Joined
<1> HIDE DEF events
<1>10. CASE run.pending
  <2>1. Len(first) = 3 /\ first[1] = "run.started" /\ first[2] = "interaction.requested"
        /\ first[3] = "interaction.resolved"
    <3>1. 1 \in 1..Len(answered)
      BY <1>5, <1>10
    <3>2. 1 \in 1..Len(run.emitted)
      BY <1>6, <1>10
    <3>3. 2 \in 1..Len(run.emitted)
      BY <1>6, <1>10
    <3>4. first[1] = run.emitted[1] /\ first[2] = run.emitted[2]
      BY <1>7, <3>2, <3>3
    <3>5. first[Len(run.emitted) + 1] = answered[1]
      BY <1>7, <3>1
    <3>6. Len(run.emitted) = 2 /\ Len(answered) = 1
      BY <1>5, <1>6, <1>10
    <3>7. first[3] = answered[1] /\ Len(first) = 3
      BY <1>7, <3>5, <3>6
    <3> QED BY <1>5, <1>6, <1>10, <3>4, <3>7
  <2>2. middle[1] = "run.started" /\ middle[2] = "interaction.requested" /\ middle[3] = "interaction.resolved"
    BY <1>8, <2>1
  <2>3. CASE status = "completed"
    <3>1. Len(middle) = 5 /\ middle[4] = "message.delta" /\ middle[5] = "message.completed"
      <4>1. 1 \in 1..Len(told) /\ 2 \in 1..Len(told)
        BY <1>4, <2>3
      <4>2. middle[Len(first) + 1] = told[1]
        BY <1>8, <4>1
      <4>3. middle[Len(first) + 2] = told[2]
        BY <1>8, <4>1
      <4>4. Len(told) = 2 /\ told[1] = "message.delta" /\ told[2] = "message.completed"
        BY <1>4, <2>3
      <4>5. Len(middle) = Len(first) + Len(told)
        BY <1>8
      <4> QED BY <2>1, <4>2, <4>3, <4>4, <4>5
    <3>2. /\ Len(events) = 6 /\ events[1] = "run.started" /\ events[2] = "interaction.requested"
          /\ events[3] = "interaction.resolved" /\ events[4] = "message.delta"
          /\ events[5] = "message.completed" /\ events[6] = "completed"
      BY <1>3, <1>9, <2>2, <2>3, <3>1
    <3>3. 3 \in (2 + 1)..(Len(events) - 1)
      BY <3>2
    <3>4. ASSUME NEW i \in 1..Len(events)
          PROVE  i = 1 \/ i = 2 \/ i = 3 \/ i = 4 \/ i = 5 \/ i = 6
      BY <3>2
    <3>5. \A i \in 1..Len(events) : events[i] = status => i = Len(events)
      BY <2>3, <3>2, <3>4
    <3>6. \A i \in 1..Len(events) : events[i] = "interaction.requested" => i = 2
      BY <3>2, <3>4
    <3>7. 2 \in 1..Len(events)
      BY <3>2
    <3>8. EndedBy(events, status)
      BY <2>3, <3>2, <3>3, <3>5, <3>6, <3>7 DEF EndedBy
    <3>9. Len(run.emitted) = 2
      BY <1>6, <1>10
    <3>10. Len(events) >= Len(run.emitted)
      BY <3>2, <3>9
    <3>11. \E i \in 1..Len(events) : events[i] = "interaction.requested"
      BY <3>2, <3>7
    <3> QED BY <1>2, <1>9, <3>8, <3>10, <3>11
  <2>4. CASE status # "completed"
    <3>1. Len(middle) = 3
      BY <1>4, <1>8, <2>1, <2>4
    <3>2. /\ Len(events) = 4 /\ events[1] = "run.started" /\ events[2] = "interaction.requested"
          /\ events[3] = "interaction.resolved" /\ events[4] = status
      BY <1>3, <1>9, <2>2, <3>1
    <3>3. 3 \in (2 + 1)..(Len(events) - 1)
      BY <3>2
    <3>4. ASSUME NEW i \in 1..Len(events)
          PROVE  i = 1 \/ i = 2 \/ i = 3 \/ i = 4
      BY <3>2
    <3>5. \A i \in 1..Len(events) : events[i] = status => i = Len(events)
      BY <3>2, <3>4 DEF FakeEnds
    <3>6. \A i \in 1..Len(events) : events[i] = "interaction.requested" => i = 2
      BY <3>2, <3>4 DEF FakeEnds
    <3>7. 2 \in 1..Len(events)
      BY <3>2
    <3>8. EndedBy(events, status)
      BY <3>2, <3>3, <3>5, <3>6, <3>7 DEF EndedBy
    <3>9. Len(run.emitted) = 2
      BY <1>6, <1>10
    <3>10. Len(events) >= Len(run.emitted)
      BY <3>2, <3>9
    <3>11. \E i \in 1..Len(events) : events[i] = "interaction.requested"
      BY <3>2, <3>7
    <3> QED BY <1>2, <1>9, <3>8, <3>10, <3>11
  <2> QED BY <2>3, <2>4
<1>11. CASE ~run.pending
  <2>1. Len(first) = 1 /\ first[1] = "run.started"
    BY <1>5, <1>6, <1>7, <1>11
  <2>2. middle[1] = "run.started"
    BY <1>8, <2>1
  <2>3. CASE status = "completed"
    <3>1. Len(middle) = 3 /\ middle[2] = "message.delta" /\ middle[3] = "message.completed"
      <4>1. 1 \in 1..Len(told) /\ 2 \in 1..Len(told)
        BY <1>4, <2>3
      <4>2. middle[Len(first) + 1] = told[1]
        BY <1>8, <4>1
      <4>3. middle[Len(first) + 2] = told[2]
        BY <1>8, <4>1
      <4>4. Len(told) = 2 /\ told[1] = "message.delta" /\ told[2] = "message.completed"
        BY <1>4, <2>3
      <4>5. Len(middle) = Len(first) + Len(told)
        BY <1>8
      <4> QED BY <2>1, <4>2, <4>3, <4>4, <4>5
    <3>2. /\ Len(events) = 4 /\ events[1] = "run.started" /\ events[2] = "message.delta"
          /\ events[3] = "message.completed" /\ events[4] = "completed"
      BY <1>3, <1>9, <3>1, <2>2, <2>3
    <3>3. ASSUME NEW i \in 1..Len(events)
          PROVE  i = 1 \/ i = 2 \/ i = 3 \/ i = 4
      BY <3>2
    <3>4. \A i \in 1..Len(events) : events[i] = status => i = Len(events)
      BY <2>3, <3>2, <3>3
    <3>5. \A i \in 1..Len(events) :
            events[i] # "interaction.requested" /\ events[i] # "interaction.resolved"
      BY <3>2, <3>3
    <3>6. EndedBy(events, status)
      BY <2>3, <3>2, <3>4, <3>5 DEF EndedBy
    <3>7. Len(run.emitted) = 1
      BY <1>6, <1>11
    <3>8. Len(events) >= Len(run.emitted)
      BY <3>2, <3>7
    <3> QED BY <1>2, <1>9, <1>11, <3>6, <3>8
  <2>4. CASE status # "completed"
    <3>1. Len(middle) = 1
      BY <1>4, <1>8, <2>1, <2>4
    <3>2. Len(events) = 2 /\ events[1] = "run.started" /\ events[2] = status
      BY <1>3, <1>9, <3>1, <2>2
    <3>3. ASSUME NEW i \in 1..Len(events)
          PROVE  i = 1 \/ i = 2
      BY <3>2
    <3>4. \A i \in 1..Len(events) : events[i] = status => i = Len(events)
      BY <3>2, <3>3 DEF FakeEnds
    <3>5. \A i \in 1..Len(events) :
            events[i] # "interaction.requested" /\ events[i] # "interaction.resolved"
      BY <3>2, <3>3 DEF FakeEnds
    <3>6. EndedBy(events, status)
      BY <3>2, <3>4, <3>5 DEF EndedBy
    <3>7. Len(run.emitted) = 1
      BY <1>6, <1>11
    <3>8. Len(events) >= Len(run.emitted)
      BY <3>2, <3>7
    <3> QED BY <1>2, <1>9, <1>11, <3>6, <3>8
  <2> QED BY <2>3, <2>4
<1> QED BY <1>10, <1>11 DEF FakeRunRecord

LEMMA FakeInitInv == ASSUME Fake!FakeInit PROVE FakeInv
<1>1. FakeTyped
  BY DEF Fake!FakeInit, FakeTyped, FakeHandle, FakeRunRecord, FakeReader
<1> QED BY <1>1 DEF Fake!FakeInit, FakeInv, StreamInv, KnownInv, OwnedInv, ReadInv, FakeEnds

(* finish() of Runs that are under way: what it makes of each, and of who knows of them.             *)
LEMMA FinishMoves ==
  ASSUME FakeInv, NEW over \in SUBSET Runs, \A r \in over : fakeRuns[r].at = "active",
         NEW status \in FakeEnds, Fake!Finish(over, status)
  PROVE  /\ fakeRuns' \in [Runs -> FakeRunRecord] /\ readers' \in [Readers -> FakeReader]
         /\ activeRuns' \in [Clients -> SUBSET Runs]
         /\ DOMAIN natives' = DOMAIN natives /\ natives' \in [DOMAIN natives -> Runs \cup {NoRun}]
         /\ FakeMoves
         /\ \A r \in Runs : IF r \in over THEN fakeRuns'[r].at \in FakeEnds ELSE fakeRuns'[r] = fakeRuns[r]
         /\ \A n \in DOMAIN natives : natives'[n] = IF natives[n] \in over THEN NoRun ELSE natives[n]
         /\ \A c \in Clients : activeRuns'[c] = activeRuns[c] \ over
         /\ \A k \in Readers : Woken(k)
<1>1. fakeRuns \in [Runs -> FakeRunRecord] /\ readers \in [Readers -> FakeReader]
      /\ activeRuns \in [Clients -> SUBSET Runs] /\ natives \in [DOMAIN natives -> Runs \cup {NoRun}]
  BY DEF FakeInv, FakeTyped
<1>2. ASSUME NEW r \in over
      PROVE  /\ fakeRuns'[r] = [fakeRuns[r] EXCEPT !.at = status, !.pending = FALSE, !.timer = FALSE,
                                                   !.emitted = Fake!FinalEvents(fakeRuns[r], status)]
             /\ fakeRuns'[r] \in FakeRunRecord /\ Finishes(r)
  BY <1>1, FinalEventsEnd DEF Fake!Finish, FakeInv, StreamInv, FakeRunRecord, Finishes
<1>3. ASSUME NEW r \in Runs, r \notin over
      PROVE  fakeRuns'[r] = fakeRuns[r] /\ fakeRuns'[r] \in FakeRunRecord /\ Rests(r)
  BY <1>1, <1>3 DEF Fake!Finish, Rests
<1>4. fakeRuns' \in [Runs -> FakeRunRecord]
  BY <1>2, <1>3 DEF Fake!Finish
<1>5. FakeMoves /\ \A r \in Runs : IF r \in over THEN fakeRuns'[r].at \in FakeEnds ELSE fakeRuns'[r] = fakeRuns[r]
  BY <1>2, <1>3 DEF FakeMoves, Finishes
<1>6. /\ readers' \in [Readers -> FakeReader]
      /\ \A k \in Readers : Woken(k)
  <2>1. ASSUME NEW k \in Readers
        PROVE  \/ readers'[k] = readers[k]
               \/ readers[k].at = "waiting" /\ readers'[k] = [readers[k] EXCEPT !.at = "running"]
    BY DEF Fake!Finish, Fake!Wake
  <2>2. ASSUME NEW k \in Readers
        PROVE  /\ readers'[k] \in FakeReader
               /\ Woken(k)
    <3>1. readers[k] \in FakeReader
      BY <1>1
    <3>2. CASE readers'[k] = readers[k]
      BY <3>1, <3>2 DEF Woken
    <3>3. CASE readers[k].at = "waiting" /\ readers'[k] = [readers[k] EXCEPT !.at = "running"]
      <4>1. PICK reader : reader = [readers[k] EXCEPT !.at = "running"]
        OBVIOUS
      <4>2. /\ reader \in FakeReader /\ reader.at = "running"
            /\ reader.run = readers[k].run /\ reader.index = readers[k].index
        BY <3>1, <4>1 DEF FakeReader
      <4>3. readers'[k] = reader
        BY <3>3, <4>1
      <4> QED BY <3>3, <4>2, <4>3 DEF Woken
    <3> QED BY <2>1, <3>2, <3>3
  <2>3. readers' = [k \in Readers |-> readers'[k]]
    BY DEF Fake!Finish, Fake!Wake
  <2> QED BY <2>2, <2>3
<1>7. /\ activeRuns' \in [Clients -> SUBSET Runs]
      /\ \A c \in Clients : activeRuns'[c] = activeRuns[c] \ over
  BY <1>1 DEF Fake!Finish
<1>8. /\ DOMAIN natives' = DOMAIN natives /\ natives' \in [DOMAIN natives -> Runs \cup {NoRun}]
      /\ \A n \in DOMAIN natives : natives'[n] = IF natives[n] \in over THEN NoRun ELSE natives[n]
  BY <1>1 DEF Fake!Finish
<1> QED BY <1>4, <1>5, <1>6, <1>7, <1>8

(* The stream and the iterators, whatever a step does. *)
LEMMA MovesKeepStreams ==
  ASSUME FakeInv, FakeMoves, fakeRuns' \in [Runs -> FakeRunRecord]
  PROVE  /\ StreamInv'
         /\ \A r \in Runs : /\ fakeRuns[r].at \in FakeEnds =>
                                 fakeRuns'[r].at \in FakeEnds /\ fakeRuns'[r].emitted = fakeRuns[r].emitted
                            /\ fakeRuns[r].at # "none" =>
                                 /\ fakeRuns'[r].at # "none"
                                 /\ Len(fakeRuns'[r].emitted) \in Nat /\ Len(fakeRuns[r].emitted) \in Nat
                                 /\ Len(fakeRuns'[r].emitted) >= Len(fakeRuns[r].emitted)
<1> SUFFICES ASSUME NEW r \in Runs
             PROVE  /\ fakeRuns'[r].at = "none" => /\ fakeRuns'[r].emitted = <<>> /\ ~fakeRuns'[r].pending
                                                  /\ fakeRuns'[r].completion = "none"
                    /\ fakeRuns'[r].at = "active" => BegunWith(fakeRuns'[r])
                    /\ fakeRuns'[r].at \in FakeEnds =>
                         EndedBy(fakeRuns'[r].emitted, fakeRuns'[r].at) /\ ~fakeRuns'[r].pending
                    /\ fakeRuns'[r].at # "active" => ~fakeRuns'[r].timer
                    /\ fakeRuns[r].at \in FakeEnds =>
                         fakeRuns'[r].at \in FakeEnds /\ fakeRuns'[r].emitted = fakeRuns[r].emitted
                    /\ fakeRuns[r].at # "none" =>
                         /\ fakeRuns'[r].at # "none"
                         /\ Len(fakeRuns'[r].emitted) \in Nat /\ Len(fakeRuns[r].emitted) \in Nat
                         /\ Len(fakeRuns'[r].emitted) >= Len(fakeRuns[r].emitted)
  BY DEF StreamInv, BegunWith
<1>1. fakeRuns[r] \in FakeRunRecord /\ fakeRuns'[r] \in FakeRunRecord
  BY DEF FakeInv, FakeTyped
<1>2. Len(fakeRuns'[r].emitted) \in Nat /\ Len(fakeRuns[r].emitted) \in Nat
  BY <1>1, LenProperties DEF FakeRunRecord
<1>3. CASE Rests(r)
  BY <1>2, <1>3 DEF Rests, FakeInv, StreamInv, BegunWith
<1>4. CASE Begins(r)
  BY <1>4 DEF Begins, FakeEnds
<1>5. CASE Finishes(r)
  BY <1>5, <1>1, FinalEventsEnd, <1>2 DEF Finishes, FakeInv, StreamInv, FakeEnds
<1> QED BY <1>3, <1>4, <1>5 DEF FakeMoves

(* A step that ends Runs, of cancel(), an answer, a timer, the microtask, or a client that closes. *)
LEMMA FinishKeeps ==
  ASSUME FakeInv, NEW over \in SUBSET Runs, \A r \in over : fakeRuns[r].at = "active",
         NEW status \in FakeEnds, Fake!Finish(over, status), UNCHANGED <<options, handles>>,
         \/ UNCHANGED shut
         \/ \E c \in Clients : shut' = shut \cup {c} /\ over = activeRuns[c]
  PROVE  FakeInv' /\ FakeMoves
<1> USE DEF FakeInv
<1>1. /\ fakeRuns' \in [Runs -> FakeRunRecord] /\ readers' \in [Readers -> FakeReader]
      /\ activeRuns' \in [Clients -> SUBSET Runs]
      /\ DOMAIN natives' = DOMAIN natives /\ natives' \in [DOMAIN natives -> Runs \cup {NoRun}]
      /\ FakeMoves
      /\ \A r \in Runs : IF r \in over THEN fakeRuns'[r].at \in FakeEnds ELSE fakeRuns'[r] = fakeRuns[r]
      /\ \A n \in DOMAIN natives : natives'[n] = IF natives[n] \in over THEN NoRun ELSE natives[n]
      /\ \A c \in Clients : activeRuns'[c] = activeRuns[c] \ over
      /\ \A k \in Readers : Woken(k)
  BY FinishMoves
<1>2. FakeTyped'
  BY <1>1 DEF FakeTyped
<1>3. /\ StreamInv'
      /\ \A r \in Runs : /\ fakeRuns[r].at \in FakeEnds =>
                              fakeRuns'[r].at \in FakeEnds /\ fakeRuns'[r].emitted = fakeRuns[r].emitted
                         /\ fakeRuns[r].at # "none" =>
                              /\ fakeRuns'[r].at # "none"
                              /\ Len(fakeRuns'[r].emitted) \in Nat /\ Len(fakeRuns[r].emitted) \in Nat
                              /\ Len(fakeRuns'[r].emitted) >= Len(fakeRuns[r].emitted)
  BY <1>1, MovesKeepStreams
<1>4. \A n \in DOMAIN natives : natives[n] \in Runs \cup {NoRun}
  BY DEF FakeTyped
<1>5. "active" \notin FakeEnds /\ "none" \notin FakeEnds /\ NoRun \notin Runs
  BY HostsAssumption DEF FakeEnds, Fake!NoRunAssumption
<1>6. KnownInv'
  <2>1. ASSUME NEW n \in DOMAIN natives, natives'[n] # NoRun
        PROVE  fakeRuns'[natives'[n]].at = "active"
    BY <1>1, <1>4, <2>1 DEF KnownInv
  <2>2. ASSUME NEW r \in Runs, fakeRuns'[r].at = "active"
        PROVE  (\E n \in DOMAIN natives' : natives'[n] = r) /\ \E c \in Clients : r \in activeRuns'[c]
    <3>1. r \notin over /\ fakeRuns[r].at = "active"
      BY <1>1, <1>5, <2>2
    <3>2. PICK n \in DOMAIN natives : natives[n] = r
      BY <3>1 DEF KnownInv
    <3>3. PICK c \in Clients : r \in activeRuns[c]
      BY <3>1 DEF KnownInv
    <3> QED BY <1>1, <3>1, <3>2, <3>3
  <2>3. ASSUME NEW c \in Clients, NEW r \in activeRuns'[c]
        PROVE  fakeRuns'[r].at = "active" /\ c \notin shut'
    BY <1>1, <2>3 DEF FakeTyped, KnownInv
  <2> QED BY <1>1, <2>1, <2>2, <2>3 DEF KnownInv
<1>7. OwnedInv'
  <2> SUFFICES ASSUME NEW h \in SessionHandles
               PROVE  /\ handles[h].at # "none" => handles[h].native \in DOMAIN natives
                      /\ handles[h].ownedRun # NoRun =>
                           /\ handles[h].at # "none" /\ fakeRuns'[handles[h].ownedRun].at # "none"
                           /\ fakeRuns'[handles[h].ownedRun].at = "active" =>
                                natives'[handles[h].native] = handles[h].ownedRun /\ handles[h].at = "open"
    BY <1>1 DEF OwnedInv
  <2>1. handles[h].ownedRun \in Runs \cup {NoRun}
    BY DEF FakeTyped, FakeHandle
  <2>2. handles[h].at # "none" => handles[h].native \in DOMAIN natives
    BY DEF OwnedInv
  <2>3. CASE handles[h].ownedRun # NoRun
    BY <1>1, <1>3, <1>5, <2>1, <2>2, <2>3 DEF OwnedInv
  <2> QED BY <2>2, <2>3
<1>8. ReadInv'
  <2> SUFFICES ASSUME NEW k \in Readers, readers'[k].at # "idle"
               PROVE  /\ readers'[k].run \in Runs /\ fakeRuns'[readers'[k].run].at # "none"
                      /\ readers'[k].index <= Len(fakeRuns'[readers'[k].run].emitted)
                      /\ readers'[k].at = "returned" =>
                           /\ fakeRuns'[readers'[k].run].at \in FakeEnds
                           /\ readers'[k].index = Len(fakeRuns'[readers'[k].run].emitted)
    BY DEF ReadInv
  <2>1. readers[k].at # "idle" /\ readers[k].index \in Nat
    BY <1>1 DEF FakeTyped, FakeReader, Woken
  <2>2. /\ readers[k].run \in Runs /\ fakeRuns[readers[k].run].at # "none"
        /\ readers[k].index <= Len(fakeRuns[readers[k].run].emitted)
    BY <2>1 DEF ReadInv
  <2>3. CASE readers'[k].at = "returned"
    BY <1>1, <1>3, <2>1, <2>2, <2>3 DEF ReadInv, Woken
  <2>4. readers'[k].index <= Len(fakeRuns'[readers'[k].run].emitted)
    BY <1>1, <1>3, <2>1, <2>2 DEF Woken
  <2> QED BY <1>1, <1>3, <2>2, <2>3, <2>4 DEF Woken
<1> QED BY <1>1, <1>2, <1>3, <1>6, <1>7, <1>8

(* A step that begins or ends no Run. *)
LEMMA RestKeeps ==
  ASSUME FakeInv, \A r \in Runs : Rests(r), fakeRuns' \in [Runs -> FakeRunRecord],
         UNCHANGED <<options, shut, activeRuns>>, FakeTyped'
  PROVE  /\ FakeMoves /\ StreamInv'
         /\ UNCHANGED natives => KnownInv'
         /\ UNCHANGED <<natives, handles>> => OwnedInv'
         /\ UNCHANGED readers => ReadInv'
<1> USE DEF FakeInv
<1>1. FakeMoves /\ StreamInv'
  BY MovesKeepStreams DEF FakeMoves
<1>2. ASSUME UNCHANGED natives PROVE KnownInv'
  BY <1>2 DEF FakeTyped, KnownInv, Rests
<1>3. ASSUME UNCHANGED <<natives, handles>> PROVE OwnedInv'
  BY <1>3 DEF FakeTyped, FakeHandle, OwnedInv, Rests
<1>4. ASSUME UNCHANGED readers PROVE ReadInv'
  BY <1>4 DEF ReadInv, Rests
<1> QED BY <1>1, <1>2, <1>3, <1>4

LEMMA ScheduledRests ==
  ASSUME FakeInv, NEW r \in Runs, fakeRuns[r].at # "none", Fake!Scheduled(r)
  PROVE  fakeRuns' \in [Runs -> FakeRunRecord] /\ \A q \in Runs : Rests(q)
<1>1. PICK then \in {"none", "queued", "ran"} :
        fakeRuns' = [fakeRuns EXCEPT ![r] = [fakeRuns[r] EXCEPT !.completion = then]]
  BY DEF Fake!Scheduled, FakeInv, FakeTyped, FakeRunRecord
<1> QED BY <1>1 DEF FakeInv, FakeTyped, FakeRunRecord, Rests

LEMMA AwaitResultKeeps ==
  ASSUME FakeInv, NEW r \in Runs, Fake!AwaitResult(r) PROVE FakeInv' /\ FakeMoves
<1>1. fakeRuns' \in [Runs -> FakeRunRecord] /\ \A q \in Runs : Rests(q)
  BY ScheduledRests DEF Fake!AwaitResult
<1>2. UNCHANGED <<options, shut, activeRuns, natives, handles, readers>>
  BY DEF Fake!AwaitResult
<1>3. FakeTyped'
  BY <1>1, <1>2 DEF FakeInv, FakeTyped
<1> QED BY <1>1, <1>2, <1>3, RestKeeps DEF FakeInv

LEMMA ReadEventsKeeps ==
  ASSUME FakeInv, NEW k \in Readers, NEW r \in Runs, Fake!ReadEvents(k, r) PROVE FakeInv' /\ FakeMoves
<1>1. fakeRuns' \in [Runs -> FakeRunRecord] /\ \A q \in Runs : Rests(q)
  BY ScheduledRests DEF Fake!ReadEvents
<1>2. /\ UNCHANGED <<options, shut, activeRuns, natives, handles>> /\ fakeRuns[r].at # "none"
      /\ readers' = [readers EXCEPT ![k] = [at |-> "running", run |-> r, index |-> 0]]
  BY DEF Fake!ReadEvents
<1>3. readers \in [Readers -> FakeReader] /\ readers' \in [Readers -> FakeReader]
  BY <1>2 DEF FakeInv, FakeTyped, FakeReader
<1>4. FakeTyped'
  BY <1>1, <1>2, <1>3 DEF FakeInv, FakeTyped
<1>5. FakeMoves /\ StreamInv' /\ KnownInv' /\ OwnedInv'
  BY <1>1, <1>2, <1>4, RestKeeps
<1>6. ASSUME NEW j \in Readers, readers'[j].at # "idle"
      PROVE  /\ readers'[j].run \in Runs /\ fakeRuns'[readers'[j].run].at # "none"
             /\ readers'[j].index <= Len(fakeRuns'[readers'[j].run].emitted)
             /\ readers'[j].at = "returned" =>
                  /\ fakeRuns'[readers'[j].run].at \in FakeEnds
                  /\ readers'[j].index = Len(fakeRuns'[readers'[j].run].emitted)
  BY <1>2, <1>3, <1>1, LenProperties, <1>6 DEF FakeRunRecord, Rests, FakeInv, ReadInv
<1>7. ReadInv'
  BY <1>6 DEF ReadInv
<1> QED BY <1>4, <1>5, <1>7 DEF FakeInv

LEMMA ReaderRunsKeeps ==
  ASSUME FakeInv, NEW k \in Readers, Fake!ReaderRuns(k) PROVE FakeInv' /\ FakeMoves
<1> DEFINE q == readers[k].run
<1>1. UNCHANGED <<options, shut, activeRuns, natives, handles, fakeRuns>> /\ readers[k].at = "running"
  BY DEF Fake!ReaderRuns
<1>2. /\ readers \in [Readers -> FakeReader] /\ q \in Runs /\ fakeRuns[q].at # "none"
      /\ readers[k].index \in Nat /\ readers[k].index <= Len(fakeRuns[q].emitted)
      /\ fakeRuns \in [Runs -> FakeRunRecord] /\ fakeRuns[q] \in FakeRunRecord
  BY <1>1 DEF FakeInv, FakeTyped, FakeReader, ReadInv
<1>3. Len(fakeRuns[q].emitted) \in Nat
  BY <1>2, LenProperties DEF FakeRunRecord
<1>4. PICK reader \in FakeReader :
        /\ readers' = [readers EXCEPT ![k] = reader] /\ reader.run = q
        /\ reader.at # "idle" /\ reader.index <= Len(fakeRuns[q].emitted)
        /\ reader.at = "returned" => fakeRuns[q].at \in FakeEnds /\ reader.index = Len(fakeRuns[q].emitted)
  <2>1. CASE readers[k].index < Len(fakeRuns[q].emitted)
    <3>1. readers' = [readers EXCEPT ![k] = [readers[k] EXCEPT !.index = readers[k].index + 1]]
      BY <2>1 DEF Fake!ReaderRuns
    <3>2. readers[k].index + 1 \in Nat /\ readers[k].index + 1 <= Len(fakeRuns[q].emitted)
      BY <1>2, <1>3, <2>1
    <3>3. readers[k] \in FakeReader
      BY <1>2
    <3>4. PICK reader : reader = [readers[k] EXCEPT !.index = readers[k].index + 1]
      OBVIOUS
    <3>5. reader \in FakeReader /\ reader.run = q /\ reader.at = "running" /\ reader.index = readers[k].index + 1
      BY <1>1, <3>2, <3>3, <3>4 DEF FakeReader
    <3>6. readers' = [readers EXCEPT ![k] = reader] /\ reader.index <= Len(fakeRuns[q].emitted)
      BY <3>1, <3>2, <3>4, <3>5
    <3>7. reader.at # "idle" /\ reader.at # "returned"
      BY <3>5
    <3> QED BY <3>5, <3>6, <3>7
  <2>2. CASE ~(readers[k].index < Len(fakeRuns[q].emitted))
    <3>1. PICK at \in {"returned", "waiting"} :
            /\ readers' = [readers EXCEPT ![k] = [readers[k] EXCEPT !.at = at]]
            /\ at = "returned" => Fake!IsTerminal(q)
      BY <1>2, <2>2 DEF Fake!ReaderRuns
    <3>2. at = "returned" => fakeRuns[q].at \in FakeEnds
      BY <1>2, <3>1 DEF Fake!IsTerminal, FakeRunRecord
    <3>3. readers[k].index = Len(fakeRuns[q].emitted)
      BY <1>2, <1>3, <2>2
    <3>4. readers[k] \in FakeReader
      BY <1>2
    <3>5. PICK reader : reader = [readers[k] EXCEPT !.at = at]
      OBVIOUS
    <3>6. reader \in FakeReader /\ reader.run = q /\ reader.at = at /\ reader.index = readers[k].index
      BY <3>4, <3>5 DEF FakeReader
    <3>7. readers' = [readers EXCEPT ![k] = reader] /\ reader.index <= Len(fakeRuns[q].emitted)
      BY <1>2, <3>1, <3>5, <3>6
    <3>8. /\ reader.at # "idle"
          /\ reader.at = "returned" => fakeRuns[q].at \in FakeEnds /\ reader.index = Len(fakeRuns[q].emitted)
      BY <3>2, <3>3, <3>6
    <3> QED BY <3>6, <3>7, <3>8
  <2> QED BY <2>1, <2>2
<1>5. readers' \in [Readers -> FakeReader] /\ readers'[k] = reader
      /\ \A j \in Readers : j # k => readers'[j] = readers[j]
  BY <1>2, <1>4
<1>6. FakeTyped' /\ \A r \in Runs : Rests(r)
  BY <1>1, <1>5 DEF FakeInv, FakeTyped, Rests
<1>7. FakeMoves /\ StreamInv' /\ KnownInv' /\ OwnedInv'
  BY <1>1, <1>2, <1>6, RestKeeps
<1>8. ReadInv'
  BY <1>1, <1>2, <1>4, <1>5 DEF FakeInv, ReadInv
<1> QED BY <1>6, <1>7, <1>8 DEF FakeInv

LEMMA EndsKeep ==
  ASSUME FakeInv, NEW r \in Runs, Fake!Completes(r) \/ Fake!TimerFires(r) \/ Fake!Cancel(r)
                                  \/ \E h \in SessionHandles : Fake!Respond(h, r)
  PROVE  FakeInv' /\ FakeMoves
<1>1. fakeRuns \in [Runs -> FakeRunRecord]
  BY DEF FakeInv, FakeTyped
<1>2. CASE fakeRuns[r].at = "active" /\ UNCHANGED <<options, shut, handles>>
           /\ \E status \in FakeEnds : Fake!Finish({r}, status)
  BY <1>2, FinishKeeps
<1>3. CASE /\ fakeRuns' = [fakeRuns EXCEPT ![r].completion = "ran"] /\ fakeRuns[r].at # "none"
           /\ UNCHANGED <<options, shut, activeRuns, natives, handles, readers>>
  <2>1. fakeRuns' = [fakeRuns EXCEPT ![r] = [fakeRuns[r] EXCEPT !.completion = "ran"]]
    BY <1>3
  <2>2. PICK run : run = [fakeRuns[r] EXCEPT !.completion = "ran"]
    OBVIOUS
  <2>3. fakeRuns[r] \in FakeRunRecord
    BY <1>1
  <2>4. /\ run \in FakeRunRecord /\ run.at = fakeRuns[r].at /\ run.pending = fakeRuns[r].pending
        /\ run.timer = fakeRuns[r].timer /\ run.emitted = fakeRuns[r].emitted
    BY <2>2, <2>3 DEF FakeRunRecord
  <2>5. /\ fakeRuns' \in [Runs -> FakeRunRecord] /\ fakeRuns'[r] = run
        /\ \A q \in Runs : q # r => fakeRuns'[q] = fakeRuns[q]
    BY <1>1, <2>1, <2>2, <2>4
  <2>6. ASSUME NEW q \in Runs PROVE Rests(q)
    BY <1>3, <2>4, <2>5 DEF Rests
  <2>7. FakeTyped'
    <3>1. FakeTyped
      BY DEF FakeInv
    <3>2. fakeRuns' \in [Runs -> FakeRunRecord]
      BY <2>5
    <3>3. /\ options' = options /\ shut' = shut /\ activeRuns' = activeRuns /\ natives' = natives
          /\ handles' = handles /\ readers' = readers
      BY <1>3
    <3> QED BY ONLY <3>1, <3>2, <3>3, Zenon DEF FakeTyped
  <2> QED BY <1>3, <2>5, <2>6, <2>7, RestKeeps DEF FakeInv
<1>4. CASE Fake!Completes(r)
  BY <1>4, <1>2, <1>3 DEF FakeInv, StreamInv, Fake!Completes, Fake!IsTerminal, FakeEnds
<1>5. CASE Fake!TimerFires(r)
  BY <1>1, <1>2, <1>5 DEF Fake!TimerFires, FakeInv, StreamInv, FakeEnds, FakeRunRecord
<1>6. CASE Fake!Cancel(r)
  BY <1>2, <1>6 DEF Fake!Cancel, FakeEnds
<1>7. CASE \E h \in SessionHandles : Fake!Respond(h, r)
  BY <1>2, <1>7 DEF Fake!Respond, Fake!Asks, FakeEnds
<1> QED BY <1>4, <1>5, <1>6, <1>7

LEMMA HeldKeeps ==
  ASSUME FakeInv, NEW h \in SessionHandles, NEW c \in Clients, NEW n \in Natives,
         Fake!CreateSession(c, n, h) \/ Fake!ResumeSession(c, n, h)
  PROVE  FakeInv' /\ FakeMoves
<1> USE DEF FakeInv
<1>1. /\ handles[h].at = "none" /\ UNCHANGED <<options, shut, activeRuns, fakeRuns, readers>>
      /\ handles' = [handles EXCEPT ![h] = [at |-> "open", ownedRun |-> NoRun, client |-> c, native |-> n]]
  BY DEF Fake!CreateSession, Fake!ResumeSession, Fake!Held
<1>2. /\ handles \in [SessionHandles -> FakeHandle] /\ natives \in [DOMAIN natives -> Runs \cup {NoRun}]
      /\ DOMAIN natives \subseteq Natives
  BY DEF FakeTyped
<1>3. /\ handles' \in [SessionHandles -> FakeHandle]
      /\ handles'[h] = [at |-> "open", ownedRun |-> NoRun, client |-> c, native |-> n]
      /\ \A g \in SessionHandles : g # h => handles'[g] = handles[g]
  BY <1>1, <1>2 DEF FakeHandle
<1>4. /\ DOMAIN natives' = DOMAIN natives \cup {n} /\ natives' \in [DOMAIN natives' -> Runs \cup {NoRun}]
      /\ \A m \in DOMAIN natives : natives'[m] = natives[m]
      /\ \A m \in DOMAIN natives' : m \in DOMAIN natives \/ natives'[m] = NoRun
  BY <1>2 DEF Fake!CreateSession, Fake!ResumeSession
<1>5. FakeTyped' /\ \A r \in Runs : Rests(r)
  BY <1>1, <1>2, <1>3, <1>4 DEF FakeTyped, Rests
<1>6. FakeMoves /\ StreamInv' /\ ReadInv'
  BY <1>1, <1>5, RestKeeps DEF FakeTyped
<1>7. KnownInv'
  BY <1>1, <1>4 DEF KnownInv
<1>8. OwnedInv'
  <2> SUFFICES ASSUME NEW g \in SessionHandles
               PROVE  /\ handles'[g].at # "none" => handles'[g].native \in DOMAIN natives'
                      /\ handles'[g].ownedRun # NoRun =>
                           /\ handles'[g].at # "none" /\ fakeRuns'[handles'[g].ownedRun].at # "none"
                           /\ fakeRuns'[handles'[g].ownedRun].at = "active" =>
                                natives'[handles'[g].native] = handles'[g].ownedRun /\ handles'[g].at = "open"
    BY DEF OwnedInv
  <2>1. CASE g = h
    BY <1>3, <1>4, <2>1
  <2>2. CASE g # h
    BY <1>1, <1>3, <1>4, <2>2 DEF OwnedInv
  <2> QED BY <2>1, <2>2
<1> QED BY <1>5, <1>6, <1>7, <1>8

LEMMA StartKeeps ==
  ASSUME FakeInv, NEW h \in SessionHandles, NEW r \in Runs, NEW timed \in BOOLEAN, Fake!Start(h, r, timed)
  PROVE  FakeInv' /\ FakeMoves
<1> USE DEF FakeInv
<1> DEFINE n == handles[h].native
           c == handles[h].client
<1>1. /\ handles \in [SessionHandles -> FakeHandle] /\ natives \in [DOMAIN natives -> Runs \cup {NoRun}]
      /\ DOMAIN natives \subseteq Natives /\ fakeRuns \in [Runs -> FakeRunRecord]
      /\ activeRuns \in [Clients -> SUBSET Runs] /\ NoRun \notin Runs /\ options.interaction \in BOOLEAN
  BY HostsAssumption DEF FakeTyped, Fake!NoRunAssumption
<1>2. /\ handles[h].at = "open" /\ c \notin shut /\ fakeRuns[r].at = "none"
      /\ UNCHANGED <<options, shut, readers>>
  BY DEF Fake!Start, Fake!ClientOf
<1>3. c \in Clients /\ n \in DOMAIN natives
  BY <1>1, <1>2 DEF FakeHandle, OwnedInv
<1>4. natives[n] = NoRun
  BY <1>3 DEF Fake!Start, Fake!Busy, Fake!IsTerminal, KnownInv
<1>5. PICK run \in FakeRunRecord :
        /\ fakeRuns' = [fakeRuns EXCEPT ![r] = run] /\ run.at = "active" /\ BegunWith(run)
  <2>1. CASE options.interaction
    <3>1. PICK run : run = [at |-> "active", pending |-> TRUE, timer |-> timed, completion |-> "none",
                            emitted |-> <<"run.started", "interaction.requested">>]
      OBVIOUS
    <3>2. fakeRuns' = [fakeRuns EXCEPT ![r] = run]
      BY <1>1, <2>1, <3>1 DEF Fake!Start
    <3>3. <<"run.started", "interaction.requested">> \in Seq(FakeEvents)
      BY DEF FakeEvents
    <3>4. run \in FakeRunRecord
      BY <3>1, <3>3 DEF FakeRunRecord
    <3>5. run.at = "active" /\ BegunWith(run)
      BY <3>1 DEF BegunWith
    <3> QED BY <3>2, <3>4, <3>5
  <2>2. CASE ~options.interaction
    <3>1. PICK run : run = [at |-> "active", pending |-> FALSE, timer |-> timed, completion |-> "none",
                            emitted |-> <<"run.started">>]
      OBVIOUS
    <3>2. fakeRuns' = [fakeRuns EXCEPT ![r] = run]
      BY <1>1, <2>2, <3>1 DEF Fake!Start
    <3>3. <<"run.started">> \in Seq(FakeEvents)
      BY DEF FakeEvents
    <3>4. run \in FakeRunRecord
      BY <3>1, <3>3 DEF FakeRunRecord
    <3>5. run.at = "active" /\ BegunWith(run)
      BY <3>1 DEF BegunWith
    <3> QED BY <3>2, <3>4, <3>5
  <2> QED BY <2>1, <2>2
<1>6. /\ fakeRuns' \in [Runs -> FakeRunRecord] /\ fakeRuns'[r] = run
      /\ \A q \in Runs : q # r => fakeRuns'[q] = fakeRuns[q]
  BY <1>1, <1>5
<1>7. FakeMoves
  BY <1>2, <1>5, <1>6 DEF FakeMoves, Rests, Begins
<1>8. /\ activeRuns' = [activeRuns EXCEPT ![c] = activeRuns[c] \cup {r}]
      /\ natives' = [natives EXCEPT ![n] = r]
      /\ handles' = [handles EXCEPT ![h] = [handles[h] EXCEPT !.ownedRun = r]]
  BY DEF Fake!Start, Fake!ClientOf
<1>9. /\ handles' \in [SessionHandles -> FakeHandle] /\ handles'[h].ownedRun = r /\ handles'[h].at = "open"
      /\ handles'[h].native = n /\ handles'[h].client = c
      /\ \A g \in SessionHandles : g # h => handles'[g] = handles[g]
  BY <1>1, <1>2, <1>8 DEF FakeHandle
<1>10. /\ natives' \in [DOMAIN natives -> Runs \cup {NoRun}] /\ DOMAIN natives' = DOMAIN natives
       /\ natives'[n] = r /\ \A m \in DOMAIN natives : m # n => natives'[m] = natives[m]
  BY <1>1, <1>3, <1>8
<1>11. /\ activeRuns' \in [Clients -> SUBSET Runs] /\ activeRuns'[c] = activeRuns[c] \cup {r}
       /\ \A d \in Clients : d # c => activeRuns'[d] = activeRuns[d]
  BY <1>1, <1>3, <1>8
<1> HIDE DEF n, c
<1>12. FakeTyped'
  BY <1>2, <1>6, <1>9, <1>10, <1>11 DEF FakeTyped
<1>13. /\ StreamInv'
       /\ \A q \in Runs : /\ fakeRuns[q].at \in FakeEnds =>
                               fakeRuns'[q].at \in FakeEnds /\ fakeRuns'[q].emitted = fakeRuns[q].emitted
                          /\ fakeRuns[q].at # "none" =>
                               /\ fakeRuns'[q].at # "none"
                               /\ Len(fakeRuns'[q].emitted) \in Nat /\ Len(fakeRuns[q].emitted) \in Nat
                               /\ Len(fakeRuns'[q].emitted) >= Len(fakeRuns[q].emitted)
  BY <1>6, <1>7, MovesKeepStreams
<1>14. KnownInv'
  <2>1. ASSUME NEW m \in DOMAIN natives, natives'[m] # NoRun
        PROVE  fakeRuns'[natives'[m]].at = "active"
    BY <1>1, <1>2, <1>5, <1>6, <1>10, <2>1 DEF KnownInv
  <2>2. ASSUME NEW q \in Runs, fakeRuns'[q].at = "active"
        PROVE  (\E m \in DOMAIN natives' : natives'[m] = q) /\ \E d \in Clients : q \in activeRuns'[d]
    <3>1. CASE q = r
      BY <1>3, <1>10, <1>11, <3>1
    <3>2. CASE q # r
      <4>1. fakeRuns[q].at = "active"
        BY <1>6, <2>2, <3>2
      <4>2. PICK m \in DOMAIN natives : natives[m] = q
        BY <4>1 DEF KnownInv
      <4>3. PICK d \in Clients : q \in activeRuns[d]
        BY <4>1 DEF KnownInv
      <4>4. m # n
        BY <1>1, <1>4, <4>2
      <4> QED BY <1>10, <1>11, <4>2, <4>3, <4>4
    <3> QED BY <3>1, <3>2
  <2>3. ASSUME NEW d \in Clients, NEW q \in activeRuns'[d]
        PROVE  fakeRuns'[q].at = "active" /\ d \notin shut'
    BY <1>1, <1>2, <1>5, <1>6, <1>11, <2>3 DEF KnownInv
  <2> QED BY <1>10, <2>1, <2>2, <2>3 DEF KnownInv
<1>15. OwnedInv'
  <2> SUFFICES ASSUME NEW g \in SessionHandles
               PROVE  /\ handles'[g].at # "none" => handles'[g].native \in DOMAIN natives'
                      /\ handles'[g].ownedRun # NoRun =>
                           /\ handles'[g].at # "none" /\ fakeRuns'[handles'[g].ownedRun].at # "none"
                           /\ fakeRuns'[handles'[g].ownedRun].at = "active" =>
                                natives'[handles'[g].native] = handles'[g].ownedRun /\ handles'[g].at = "open"
    BY DEF OwnedInv
  <2>1. CASE g = h
    BY <1>3, <1>5, <1>6, <1>9, <1>10, <2>1
  <2>2. CASE g # h
    BY <1>1, <1>9, <2>2, <1>10, <1>2, <1>6, <1>4 DEF FakeHandle, OwnedInv
  <2> QED BY <2>1, <2>2
<1>16. ReadInv'
  <2> SUFFICES ASSUME NEW k \in Readers, readers[k].at # "idle"
               PROVE  /\ readers[k].run \in Runs /\ fakeRuns'[readers[k].run].at # "none"
                      /\ readers[k].index <= Len(fakeRuns'[readers[k].run].emitted)
                      /\ readers[k].at = "returned" =>
                           /\ fakeRuns'[readers[k].run].at \in FakeEnds
                           /\ readers[k].index = Len(fakeRuns'[readers[k].run].emitted)
    BY <1>2 DEF ReadInv
  <2>1. readers[k].run \in Runs /\ fakeRuns[readers[k].run].at # "none"
    BY DEF ReadInv
  <2>2. fakeRuns'[readers[k].run] = fakeRuns[readers[k].run]
    BY <1>2, <1>6, <2>1
  <2> QED BY <2>1, <2>2 DEF ReadInv
<1> QED BY <1>7, <1>12, <1>13, <1>14, <1>15, <1>16

LEMMA ClosesKeep ==
  ASSUME FakeInv, \/ \E h \in SessionHandles : Fake!CloseSession(h)
                  \/ \E c \in Clients : Fake!CloseClient(c)
  PROVE  FakeInv' /\ FakeMoves
<1>1. ASSUME NEW h \in SessionHandles, Fake!CloseSession(h) PROVE FakeInv' /\ FakeMoves
  <2> USE DEF FakeInv
  <2>1. /\ handles[h].at = "open" /\ handles' = [handles EXCEPT ![h] = [handles[h] EXCEPT !.at = "closed"]]
        /\ UNCHANGED <<options, shut, activeRuns, natives, fakeRuns, readers>>
    BY <1>1 DEF Fake!CloseSession
  <2>2. handles[h] \in [at : {"open", "closed"}, ownedRun : Runs \cup {NoRun}, client : Clients, native : Natives]
    BY <2>1 DEF FakeTyped, FakeHandle
  <2>3. /\ [handles[h] EXCEPT !.at = "closed"] \in FakeHandle
        /\ [handles[h] EXCEPT !.at = "closed"].at = "closed"
        /\ [handles[h] EXCEPT !.at = "closed"].ownedRun = handles[h].ownedRun
        /\ [handles[h] EXCEPT !.at = "closed"].native = handles[h].native
    BY <2>2 DEF FakeHandle
  <2>4. /\ handles' \in [SessionHandles -> FakeHandle] /\ handles'[h].at = "closed"
        /\ handles'[h].ownedRun = handles[h].ownedRun /\ handles'[h].native = handles[h].native
        /\ \A g \in SessionHandles : g # h => handles'[g] = handles[g]
    BY <2>1, <2>3 DEF FakeTyped
  <2>5. FakeTyped' /\ \A r \in Runs : Rests(r)
    BY <2>1, <2>4 DEF FakeTyped, Rests
  <2>6. FakeMoves /\ StreamInv' /\ KnownInv' /\ ReadInv'
    BY <2>1, <2>5, RestKeeps DEF FakeTyped
  <2>7. ~(natives[handles[h].native] # NoRun /\ ~Fake!IsTerminal(natives[handles[h].native]))
    BY <1>1 DEF Fake!CloseSession, Fake!Busy
  <2>8. handles[h].ownedRun # NoRun => fakeRuns[handles[h].ownedRun].at # "active"
    BY <2>1, <2>7 DEF OwnedInv, Fake!IsTerminal
  <2>9. OwnedInv'
    BY <2>1, <2>4, <2>8 DEF OwnedInv
  <2> QED BY <2>5, <2>6, <2>9
<1>2. ASSUME NEW c \in Clients, Fake!CloseClient(c) PROVE FakeInv' /\ FakeMoves
  BY <1>2, FinishKeeps DEF FakeInv, FakeTyped, KnownInv, Fake!CloseClient, FakeEnds
<1> QED BY <1>1, <1>2

LEMMA FakeKeeps == ASSUME FakeInv, [Fake!FakeNext]_(Fake!fakeVars) PROVE FakeInv' /\ FakeMoves
<1>1. CASE UNCHANGED Fake!fakeVars
  BY <1>1 DEF Fake!fakeVars, FakeInv, FakeTyped, StreamInv, KnownInv, OwnedInv, ReadInv, FakeMoves, Rests, BegunWith
<1>2. ASSUME NEW r \in Runs, Fake!AwaitResult(r) \/ Fake!Completes(r) \/ Fake!TimerFires(r) \/ Fake!Cancel(r)
      PROVE  FakeInv' /\ FakeMoves
  BY <1>2, AwaitResultKeeps, EndsKeep
<1>3. ASSUME NEW k \in Readers, Fake!ReaderRuns(k) \/ \E r \in Runs : Fake!ReadEvents(k, r)
      PROVE  FakeInv' /\ FakeMoves
  BY <1>3, ReaderRunsKeeps, ReadEventsKeeps
<1>4. ASSUME NEW h \in SessionHandles,
             \/ \E r \in Runs : Fake!Respond(h, r) \/ \E timed \in BOOLEAN : Fake!Start(h, r, timed)
             \/ \E c \in Clients, n \in Natives : Fake!CreateSession(c, n, h) \/ Fake!ResumeSession(c, n, h)
      PROVE  FakeInv' /\ FakeMoves
  BY <1>4, EndsKeep, StartKeeps, HeldKeeps
<1> QED BY <1>1, <1>2, <1>3, <1>4, ClosesKeep DEF Fake!FakeNext

LEMMA FakeInvSound == ASSUME FakeInv PROVE Fake!FakeSound
<1> USE DEF FakeInv
<1>1. /\ "active" \notin FakeEnds /\ "none" \notin FakeEnds /\ NoRun \notin Runs
      /\ \A r \in Runs : fakeRuns[r] \in FakeRunRecord
      /\ \A r \in Runs : Fake!IsTerminal(r) <=> fakeRuns[r].at \in FakeEnds
  BY HostsAssumption DEF FakeTyped, FakeRunRecord, FakeEnds, Fake!IsTerminal, Fake!NoRunAssumption
<1>2. Fake!FakeTypeOK
  BY DEF FakeTyped, Fake!FakeTypeOK, FakeHandle, FakeRunRecord, FakeReader, FakeEnds
<1>3. ASSUME NEW r \in Runs
      PROVE  /\ fakeRuns[r].at = "active" <=> \E n \in DOMAIN natives : natives[n] = r
             /\ fakeRuns[r].at = "active" <=> \E c \in Clients \ shut : r \in activeRuns[c]
             /\ fakeRuns[r].timer => fakeRuns[r].at = "active"
  BY <1>1 DEF KnownInv, StreamInv
<1>4. ASSUME NEW h \in SessionHandles, handles[h].at = "closed", handles[h].ownedRun # NoRun
      PROVE  Fake!IsTerminal(handles[h].ownedRun)
  BY <1>4 DEF OwnedInv, Fake!IsTerminal
<1>5. ASSUME NEW r \in Runs, Fake!IsTerminal(r)
      PROVE  /\ \A i \in DOMAIN fakeRuns[r].emitted :
                  fakeRuns[r].emitted[i] = fakeRuns[r].at <=> i = Len(fakeRuns[r].emitted)
             /\ \A i \in DOMAIN fakeRuns[r].emitted : fakeRuns[r].emitted[i] = "interaction.requested"
                  => \E j \in (i + 1)..(Len(fakeRuns[r].emitted) - 1) : fakeRuns[r].emitted[j] = "interaction.resolved"
  BY <1>1, LenProperties, <1>5 DEF FakeRunRecord, StreamInv, EndedBy
<1>6. ASSUME NEW k \in Readers, readers[k].at = "returned"
      PROVE  Fake!IsTerminal(readers[k].run) /\ readers[k].index = Len(fakeRuns[readers[k].run].emitted)
  BY <1>1, <1>6 DEF ReadInv
<1> QED BY <1>2, <1>3, <1>4, <1>5, <1>6 DEF Fake!FakeSound

(* Over all handles, clients, answers, timers and closes: a native Session and a client know exactly *)
(* the Runs under way, what is closed has none, a stream ends once and after what it resolved, and   *)
(* an iterator that returned has seen all of it (fake-provider.ts).                                  *)
THEOREM FakeProviderIsSound == Fake!FakeSpec => []FakeProviderSound
<1>1. Fake!FakeInit => FakeInv
  BY FakeInitInv
<1>2. FakeInv /\ [Fake!FakeNext]_(Fake!fakeVars) => FakeInv'
  BY FakeKeeps
<1>3. FakeInv => FakeProviderSound
  BY FakeInvSound DEF FakeProviderSound
<1> QED BY <1>1, <1>2, <1>3, PTL DEF Fake!FakeSpec

LEMMA FakeRefines ==
  ASSUME FakeInv, FakeInv', FakeMoves
  PROVE  Fake!Contract!Next
<1> DEFINE Says(r, said) == \E i \in DOMAIN fakeRuns[r].emitted : fakeRuns[r].emitted[i] = said
<1>1. ASSUME NEW r \in Runs
      PROVE  /\ fakeRuns[r] \in FakeRunRecord /\ fakeRuns'[r] \in FakeRunRecord
             /\ DOMAIN fakeRuns[r].emitted = 1..Len(fakeRuns[r].emitted)
             /\ DOMAIN fakeRuns'[r].emitted = 1..Len(fakeRuns'[r].emitted)
  BY LenProperties DEF FakeInv, FakeTyped, FakeRunRecord
<1>2. ASSUME NEW r \in Runs
      PROVE  \/ /\ fakeRuns[r].at = "none" /\ fakeRuns'[r].at = "active"
                /\ ~Says(r, "interaction.requested") /\ ~Says(r, "interaction.resolved")
                /\ ~Says(r, "interaction.resolved")'
             \/ /\ fakeRuns[r].at = "active" /\ fakeRuns'[r].at \in FakeEnds
                /\ ~Says(r, "interaction.resolved")
                /\ Says(r, "interaction.requested") => Says(r, "interaction.requested")'
                /\ Says(r, "interaction.resolved")' => Says(r, "interaction.requested")'
             \/ fakeRuns'[r].at = fakeRuns[r].at /\ fakeRuns'[r].emitted = fakeRuns[r].emitted
  <2>1. CASE Rests(r)
    BY <2>1 DEF Rests
  <2>2. CASE Begins(r)
    BY <2>2, <1>1 DEF Begins, FakeInv, StreamInv, BegunWith
  <2>3. CASE Finishes(r)
    <3>1. BegunWith(fakeRuns[r]) /\ fakeRuns[r].at = "active"
      BY <2>3 DEF Finishes, FakeInv, StreamInv
    <3>2. /\ \A i \in 1..Len(fakeRuns[r].emitted) : fakeRuns[r].emitted[i] # "interaction.resolved"
          /\ ~fakeRuns[r].pending =>
               \A i \in 1..Len(fakeRuns[r].emitted) : fakeRuns[r].emitted[i] # "interaction.requested"
      BY <3>1 DEF BegunWith
    <3>3. /\ EndedBy(fakeRuns'[r].emitted, fakeRuns'[r].at)
          /\ fakeRuns[r].pending =>
               \E i \in 1..Len(fakeRuns'[r].emitted) : fakeRuns'[r].emitted[i] = "interaction.requested"
      BY <1>1, <2>3, <3>1, FinalEventsEnd DEF Finishes
    <3>4. ~Says(r, "interaction.resolved")
      BY <1>1, <3>2
    <3>5. Says(r, "interaction.requested") => Says(r, "interaction.requested")'
      BY <1>1, <3>2, <3>3
    <3>6. Says(r, "interaction.resolved")' => Says(r, "interaction.requested")'
      BY <1>1, <3>3 DEF EndedBy
    <3> HIDE DEF Says
    <3> QED BY <2>3, <3>1, <3>4, <3>5, <3>6 DEF Finishes
  <2> QED BY <2>1, <2>2, <2>3 DEF FakeMoves
<1>3. ASSUME NEW r \in Runs, NEW said
      PROVE  /\ Fake!Seen(r, said) = IF Says(r, said) THEN {r} ELSE {}
             /\ Fake!Seen(r, said)' = IF Says(r, said)' THEN {r} ELSE {}
             /\ fakeRuns'[r].emitted = fakeRuns[r].emitted => Fake!Seen(r, said)' = Fake!Seen(r, said)
  BY DEF Fake!Seen
<1> HIDE DEF Says
<1>4. \A r \in Runs : Fake!Contract!RunStep(r)
  <2> TAKE r \in Runs
  <2> DEFINE asked == Fake!Seen(r, "interaction.requested")
             told  == Fake!Seen(r, "interaction.resolved")
  <2>1. \/ fakeRuns[r].at = "none" /\ fakeRuns'[r].at = "active" /\ asked = {} /\ told = {} /\ told' = {}
        \/ fakeRuns[r].at = "active" /\ fakeRuns'[r].at \in FakeEnds /\ told = {}
             /\ asked \subseteq asked' /\ told' \subseteq asked'
        \/ fakeRuns'[r].at = fakeRuns[r].at /\ asked' = asked /\ told' = told
    BY <1>2, <1>3
  <2> HIDE DEF asked, told
  <2> QED BY <2>1 DEF asked, told, Fake!Contract!RunStep, Fake!Contract!Start, Fake!Contract!Progress,
                      Fake!Contract!Settle, Fake!Contract!Rest, Fake!Contract!Reports, Fake!Contract!Silent,
                      Fake!Contract!RunStatus, FakeEnds
<1>5. \A r \in Runs : /\ fakeRuns'[r].at \in {"none", "active"} \cup Fake!Contract!RunStatus
                      /\ Fake!Seen(r, "interaction.requested")' \in SUBSET Runs
                      /\ Fake!Seen(r, "interaction.resolved")' \in SUBSET Runs
  BY <1>1, <1>3 DEF FakeRunRecord, FakeEnds, Fake!Contract!RunStatus
<1> QED BY <1>4, <1>5 DEF Fake!Contract!Next

(* A Run of the Fake Provider starts once, ends once, says nothing afterwards and resolves only what *)
(* it asked; and the handles of a host are closed once and in order (fake-provider.ts, run.ts,       *)
(* session.ts).                                                                                     *)
THEOREM EverythingInOrder == Spec /\ Fake!FakeSpec => StepsInOrder
<1>1. Fake!FakeInit => Fake!Contract!Init
  BY DEF Fake!FakeInit, Fake!Contract!Init, Fake!Seen
<1>2. Fake!FakeInit => FakeInv
  BY FakeInitInv
<1>3. FakeInv /\ [Fake!FakeNext]_(Fake!fakeVars) => FakeInv'
  BY FakeKeeps
<1>4. FakeInv /\ FakeInv' /\ [Fake!FakeNext]_(Fake!fakeVars) => [Fake!Contract!Next]_(Fake!Contract!runVars)
  BY FakeKeeps, FakeRefines
<1>5. Fake!FakeSpec => Fake!FakeImplementsRunContract
  BY <1>1, <1>2, <1>3, <1>4, PTL DEF Fake!FakeSpec, Fake!FakeImplementsRunContract, Fake!Contract!Spec
<1> QED BY <1>5, ClosedOnceInOrder DEF StepsInOrder

-------------------------------------------------------------------------------
(* The publication of a release. *)

(* The phases in which every entry was inspected. *)
Later == {"waitPending", "auditExisting", "publish", "waitMissing", "auditAll", "final", "succeeded"}

NpmTyped ==
  /\ \E n \in 1..MaxEntries : entries = 1..n
  /\ older \subseteq entries /\ shown \subseteq entries /\ waiting \subseteq entries
  /\ accepted \in [entries -> Npm!Contents \cup {"none"}]
  /\ tag \in [entries -> Npm!Tags] /\ tagShown \in [entries -> Npm!Tags]
  /\ job \in [at : Npm!Phases, bootstrap : BOOLEAN]
  /\ DOMAIN statuses \subseteq entries
  /\ \A e \in DOMAIN statuses : statuses[e] \in {"missing", "pending", "verified"}
  /\ jobs \in 0..MaxJobs

(* What the registry has keeps its content, and a tag that names it or a newer release. *)
TaggedInv == \A e \in entries : accepted[e] # "none" => tag[e] \in {"this", "newer"}

(* From its first write on a job knows of every entry, and at its end that all of them are ours.     *)
JobInv ==
  /\ job.at \in Later => DOMAIN statuses = entries
  /\ job.at = "final" => \A e \in entries : accepted[e] = "ours"
  /\ job.at = "succeeded" => \A e \in entries :
       accepted[e] = "ours" /\ e \in shown /\ tagShown[e] \in {"this", "newer"}

NpmInv == NpmTyped /\ TaggedInv /\ JobInv /\ Npm!WritesAreSafe

LEMMA NpmInitInv == ASSUME Npm!PublicationInit PROVE NpmInv
<1>1. PICK n \in 1..MaxEntries : entries = 1..n
  BY DEF Npm!PublicationInit
<1>2. MaxJobs \in Nat
  BY HostsAssumption DEF Npm!PublicationBounds
<1>3. DOMAIN statuses = {} /\ job.at = "idle" /\ \A e \in entries : accepted[e] = "none"
  BY DEF Npm!PublicationInit, Npm!Nothing
<1>4. NpmTyped
  BY <1>1, <1>2, <1>3 DEF Npm!PublicationInit, NpmTyped, Npm!Contents, Npm!Tags, Npm!Phases
<1> QED BY <1>3, <1>4 DEF NpmInv, TaggedInv, JobInv, Npm!WritesAreSafe, Later

(* A step of the job that leaves the registry alone and goes to another phase. *)
LEMMA GoesKeeps ==
  ASSUME NpmInv, NEW phase \in Npm!Phases, job' = [job EXCEPT !.at = phase],
         UNCHANGED <<entries, older, accepted, tag, shown, tagShown, jobs>>,
         NEW seen, statuses' = seen, waiting' \subseteq entries, DOMAIN seen \subseteq entries,
         \A e \in DOMAIN seen : seen[e] \in {"missing", "pending", "verified"},
         phase \in Later => DOMAIN seen = entries,
         phase \in {"final", "succeeded"} => \A e \in entries : accepted[e] = "ours",
         phase = "succeeded" => \A e \in entries : e \in shown /\ tagShown[e] \in {"this", "newer"},
         phase \in {"publish", "waitMissing", "auditAll", "final"} =>
           \A d \in DOMAIN seen : seen[d] # "missing" => accepted[d] = "ours"
  PROVE  NpmInv'
<1>1. job' \in [at : Npm!Phases, bootstrap : BOOLEAN] /\ job'.at = phase
  BY DEF NpmInv, NpmTyped
<1>2. NpmTyped'
  BY <1>1 DEF NpmInv, NpmTyped
<1>3. TaggedInv' /\ JobInv'
  BY <1>1 DEF NpmInv, TaggedInv, JobInv
<1>4. Npm!WritesAreSafe'
  BY <1>1 DEF NpmInv, Npm!WritesAreSafe
<1> QED BY <1>2, <1>3, <1>4 DEF NpmInv

LEMMA JobKeeps ==
  ASSUME NpmInv, \/ Npm!JobFails \/ Npm!ModeChecked \/ Npm!Inspected \/ Npm!Waited \/ Npm!AuditExisting
                 \/ Npm!Published \/ Npm!AuditAll \/ Npm!FinalCheck
  PROVE  NpmInv'
<1> USE DEF Npm!Go, Npm!Stay, Npm!registry
<1>1. /\ DOMAIN statuses \subseteq entries /\ waiting \subseteq entries
      /\ \A e \in DOMAIN statuses : statuses[e] \in {"missing", "pending", "verified"}
      /\ job.at \in Later => DOMAIN statuses = entries
  BY DEF NpmInv, NpmTyped, JobInv
<1>2. CASE Npm!JobFails
  BY <1>2, GoesKeeps DEF Npm!Nothing, Npm!JobFails, Npm!Phases, Later
<1>3. CASE Npm!ModeChecked
  BY <1>1, <1>3, GoesKeeps DEF Npm!ModeChecked, Npm!Phases, Later
<1>4. CASE Npm!Inspected
  BY <1>1, <1>4, GoesKeeps DEF Npm!Inspected, Npm!Phases, Later, Npm!Of
<1>5. CASE Npm!Waited
  BY <1>1, <1>5, GoesKeeps DEF Npm!Waited, Npm!Phases, Later, NpmInv, Npm!WritesAreSafe
<1>6. CASE Npm!AuditExisting
  BY <1>1, <1>6, GoesKeeps DEF Npm!AuditExisting, Npm!AuditPasses, Npm!Of, Npm!Phases, Later
<1>7. CASE Npm!Published
  BY <1>1, <1>7, GoesKeeps DEF Npm!Published, NpmInv, Npm!WritesAreSafe, Later, Npm!Of, Npm!Phases
<1>8. CASE Npm!AuditAll
  BY <1>1, <1>8, GoesKeeps DEF Npm!AuditAll, Npm!AuditPasses, Npm!Phases, Later
<1>9. CASE Npm!FinalCheck
  BY <1>9, <1>1, GoesKeeps DEF Npm!FinalCheck, Npm!MetadataFits, NpmInv, JobInv, Npm!Phases, Later
<1> QED BY <1>2, <1>3, <1>4, <1>5, <1>6, <1>7, <1>8, <1>9

LEMMA BeginKeeps == ASSUME NpmInv, NEW bootstrap \in BOOLEAN, Npm!Begin(bootstrap) PROVE NpmInv'
<1>1. DOMAIN Npm!Nothing = {} /\ MaxJobs \in Nat
  BY HostsAssumption DEF Npm!Nothing, Npm!PublicationBounds
<1>2. NpmTyped'
  BY <1>1 DEF Npm!Begin, Npm!registry, NpmInv, NpmTyped, Npm!Phases
<1>3. TaggedInv' /\ JobInv'
  BY DEF Npm!Begin, Npm!registry, NpmInv, TaggedInv, JobInv, Later
<1>4. Npm!WritesAreSafe'
  BY DEF Npm!Begin, Npm!registry, NpmInv, Npm!WritesAreSafe
<1> QED BY <1>2, <1>3, <1>4 DEF NpmInv

LEMMA InspectKeeps == ASSUME NpmInv, NEW e \in entries, Npm!Inspect(e) PROVE NpmInv'
<1>1. PICK n \in 1..MaxEntries : entries = 1..n
  BY DEF NpmInv, NpmTyped
<1>2. MaxEntries \in Nat /\ 1..e \subseteq entries
  BY <1>1, HostsAssumption DEF Npm!PublicationBounds
<1>3. /\ job.at = "inspect" /\ UNCHANGED <<entries, older, accepted, tag, shown, tagShown, job, waiting, jobs>>
      /\ DOMAIN statuses = {d \in entries : d < e}
      /\ statuses' = [d \in 1..e |-> IF d < e THEN statuses[d] ELSE IF e \in shown THEN "verified"
                                     ELSE IF tagShown[e] = "this" THEN "pending" ELSE "missing"]
  BY DEF Npm!Inspect, Npm!Stay, Npm!registry
<1>4. DOMAIN statuses' \subseteq entries /\ \A d \in DOMAIN statuses' : statuses'[d] \in {"missing", "pending", "verified"}
  BY <1>2, <1>3 DEF NpmInv, NpmTyped
<1>5. NpmTyped'
  BY <1>3, <1>4 DEF NpmInv, NpmTyped
<1> QED BY <1>3, <1>5 DEF NpmInv, TaggedInv, JobInv, Npm!WritesAreSafe, Later

LEMMA AvailableKeeps == ASSUME NpmInv, NEW e \in entries, Npm!Available(e) PROVE NpmInv'
<1>1. UNCHANGED <<entries, older, accepted, tag, shown, tagShown, job, statuses, jobs>> /\ waiting' = waiting \ {e}
  BY DEF Npm!Available, Npm!Stay, Npm!registry
<1>2. NpmTyped'
  BY <1>1 DEF NpmInv, NpmTyped
<1> QED BY <1>1, <1>2 DEF NpmInv, TaggedInv, JobInv, Npm!WritesAreSafe

(* The registry takes a version: nothing that was ours is changed by it. *)
LEMMA AcceptsKeeps ==
  ASSUME NpmInv, NEW e \in entries, NEW content \in Npm!Contents, Npm!Accepts(e, content)
  PROVE  /\ accepted' \in [entries -> Npm!Contents \cup {"none"}] /\ tag' \in [entries -> Npm!Tags]
         /\ accepted[e] = "none" /\ accepted'[e] = content /\ tag'[e] \in {"this", "newer"}
         /\ \A d \in entries : d # e => accepted'[d] = accepted[d] /\ tag'[d] = tag[d]
  BY DEF Npm!Accepts, NpmInv, NpmTyped, Npm!Contents, Npm!Tags

LEMMA OthersPublishKeeps ==
  ASSUME NpmInv, NEW e \in entries, NEW content \in Npm!Contents, Npm!OthersPublish(e, content)
  PROVE  NpmInv'
<1>1. /\ content # "ours" /\ UNCHANGED <<entries, older, shown, tagShown, job, statuses, waiting, jobs>>
      /\ accepted' \in [entries -> Npm!Contents \cup {"none"}] /\ tag' \in [entries -> Npm!Tags]
      /\ accepted[e] = "none" /\ accepted'[e] = content /\ tag'[e] \in {"this", "newer"}
      /\ \A d \in entries : d # e => accepted'[d] = accepted[d] /\ tag'[d] = tag[d]
  BY AcceptsKeeps DEF Npm!OthersPublish
<1>2. \A d \in entries : accepted[d] = "ours" <=> accepted'[d] = "ours"
  BY <1>1
<1>3. NpmTyped'
  BY <1>1 DEF NpmInv, NpmTyped
<1>4. TaggedInv'
  BY <1>1 DEF NpmInv, TaggedInv
<1>5. JobInv'
  BY <1>1, <1>2 DEF NpmInv, JobInv
<1>6. Npm!WritesAreSafe'
  BY <1>1, <1>2 DEF NpmInv, NpmTyped, Npm!WritesAreSafe
<1> QED BY <1>3, <1>4, <1>5, <1>6 DEF NpmInv

(* A job writes an entry when all before it are ours, those it found and those it wrote. *)
LEMMA PublishKeeps == ASSUME NpmInv, NEW e \in entries, Npm!Publish(e) PROVE NpmInv'
<1>1. /\ job.at = "publish" /\ UNCHANGED <<entries, older, shown, tagShown, job, jobs>>
      /\ statuses' = [statuses EXCEPT ![e] = "pending"] /\ waiting' = waiting \cup {e}
      /\ e \in DOMAIN statuses /\ \A d \in Npm!Of("missing") : e <= d
  BY DEF Npm!Publish, Npm!Stay, Npm!Of
<1>2. /\ accepted' \in [entries -> Npm!Contents \cup {"none"}] /\ tag' \in [entries -> Npm!Tags]
      /\ accepted[e] = "none" /\ accepted'[e] = "ours" /\ tag'[e] \in {"this", "newer"}
      /\ \A d \in entries : d # e => accepted'[d] = accepted[d] /\ tag'[d] = tag[d]
  BY AcceptsKeeps DEF Npm!Publish, Npm!Contents
<1>3. /\ DOMAIN statuses = entries /\ DOMAIN statuses' = entries /\ statuses'[e] = "pending"
      /\ \A d \in entries : d # e => statuses'[d] = statuses[d]
  BY <1>1 DEF NpmInv, JobInv, Later
<1>4. \A d \in entries : statuses[d] # "missing" => accepted[d] = "ours"
  BY <1>1, <1>3 DEF NpmInv, Npm!WritesAreSafe
<1>5. NpmTyped'
  BY <1>1, <1>2, <1>3 DEF NpmInv, NpmTyped
<1>6. TaggedInv'
  BY <1>1, <1>2 DEF NpmInv, TaggedInv
<1>7. JobInv'
  BY <1>1, <1>3 DEF JobInv
<1>8. Npm!WritesAreSafe'
  <2>1. entries \subseteq Nat
    BY DEF NpmInv, NpmTyped
  <2>2. ASSUME NEW d \in entries, NEW c \in entries, accepted'[d] = "ours", c < d
        PROVE  accepted'[c] = "ours"
    BY <1>1, <2>1, <2>2, <1>3, <1>2, <1>4 DEF Npm!Of, NpmInv, Npm!WritesAreSafe
  <2>3. \A d \in DOMAIN statuses' : statuses'[d] # "missing" => accepted'[d] = "ours"
    BY <1>2, <1>3, <1>4
  <2> QED BY <1>1, <2>2, <2>3 DEF Npm!WritesAreSafe
<1> QED BY <1>5, <1>6, <1>7, <1>8 DEF NpmInv

LEMMA RegistryKeeps == ASSUME NpmInv, NEW e \in entries, Npm!Shows(e) \/ Npm!NewerRelease(e) PROVE NpmInv'
<1>1. UNCHANGED <<entries, older, accepted, job, statuses, waiting, jobs>>
  BY DEF Npm!Shows, Npm!NewerRelease
<1>2. /\ tag' \in [entries -> Npm!Tags] /\ tagShown' \in [entries -> Npm!Tags]
      /\ shown \subseteq shown' /\ shown' \subseteq entries
      /\ \A d \in entries : /\ tag'[d] = tag[d] \/ tag'[d] = "newer"
                            /\ tagShown'[d] = tagShown[d] \/ tagShown'[d] = tag[d]
  <2>1. /\ shown \subseteq entries /\ tag \in [entries -> Npm!Tags] /\ tagShown \in [entries -> Npm!Tags]
        /\ "newer" \in Npm!Tags
    BY DEF NpmInv, NpmTyped, Npm!Tags
  <2>2. CASE UNCHANGED <<tag, tagShown>> /\ shown' = shown \cup {e}
    BY <2>1, <2>2
  <2>3. CASE UNCHANGED <<tag, shown>> /\ tagShown' = [tagShown EXCEPT ![e] = tag[e]]
    BY <2>1, <2>3
  <2>4. CASE UNCHANGED <<shown, tagShown>> /\ tag' = [tag EXCEPT ![e] = "newer"]
    BY <2>1, <2>4
  <2> QED BY <2>2, <2>3, <2>4 DEF Npm!Shows, Npm!NewerRelease
<1>3. NpmTyped' /\ TaggedInv' /\ Npm!WritesAreSafe'
  BY <1>1, <1>2 DEF NpmInv, NpmTyped, TaggedInv, Npm!WritesAreSafe
<1>4. JobInv'
  BY <1>1, <1>2 DEF NpmInv, JobInv, TaggedInv
<1> QED BY <1>3, <1>4 DEF NpmInv

LEMMA NpmKeeps == ASSUME NpmInv, [Npm!PublicationNext]_(Npm!publicationVars) PROVE NpmInv'
<1>1. CASE UNCHANGED Npm!publicationVars
  BY <1>1 DEF Npm!publicationVars, Npm!registry, NpmInv, NpmTyped, TaggedInv, JobInv, Npm!WritesAreSafe
<1> QED BY <1>1, JobKeeps, BeginKeeps, InspectKeeps, AvailableKeeps, PublishKeeps, OthersPublishKeeps, RegistryKeeps
        DEF Npm!PublicationNext, Npm!JobStep

LEMMA NpmInvSound == ASSUME NpmInv PROVE Npm!SuccessIsVerified /\ Npm!WritesAreSafe
  BY DEF NpmInv, NpmTyped, JobInv, Npm!SuccessIsVerified, Npm!PublicationTypeOK

(* However many entries a release has and however often its jobs fail, are killed and started again, *)
(* whatever the registry shows late and others publish: success means that every entry is ours and   *)
(* tagged, a job writes nothing before what it found is verified, and a version is written only      *)
(* after all before it (publish-packages.mjs, package-publication.mjs).                              *)
THEOREM PublicationIsSound == Npm!PublicationSpec => []PublicationSound
<1>1. Npm!PublicationInit => NpmInv
  BY NpmInitInv
<1>2. NpmInv /\ [Npm!PublicationNext]_(Npm!publicationVars) => NpmInv'
  BY NpmKeeps
<1>3. NpmInv => PublicationSound
  BY NpmInvSound DEF PublicationSound
<1> QED BY <1>1, <1>2, <1>3, PTL DEF Npm!PublicationSpec

=============================================================================
