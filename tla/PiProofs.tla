------------------------------- MODULE PiProofs -------------------------------
(* Proofs about the two Pi clients, the one over the embedded SDK (PiSdk, as Sdk) first.             *)
EXTENDS MCPiAdapter, FiniteSetTheorems, TLAPS

-------------------------------------------------------------------------------
(* The client over the embedded SDK. *)

SdkEnds == {"completed", "cancelled", "failed", "connection_aborted"}

SdkOpening ==
  [call : {"free", "waiting", "made", "refused"}, factory : {"none", "pending", "returned"}, aborted : BOOLEAN,
   native : Sessions \cup {NoSession}, closed : BOOLEAN, active : Runs \cup {NoRun}]

SdkRun ==
  [owner : Handles \cup {NoHandle}, final : SdkEnds \cup {"none"},
   prompt : {"none", "queued", "prompting", "resolved", "rejected"},
   last : {"stop", "aborted", "error", "none"}, said : {"stop", "aborted", "error", "none"},
   abort : {"none", "pending", "confirmed", "failed"},
   cancel : {"none", "waiting", "native", "connection_aborted", "already_terminal"}]

SdkTyped ==
  /\ closed \in BOOLEAN /\ claimed \subseteq Sessions /\ sdkSessions \subseteq Handles
  /\ openings \in [Handles -> SdkOpening] /\ sdkRuns \in [Runs -> SdkRun]
  /\ natives \in [Sessions -> {"none", "owned", "disposed"}] /\ working \in [Handles -> Runs \cup {NoRun}]

(* A createSession call waits exactly while its factory may still make it a Session, and a Session   *)
(* is one of the Client until it is closed.                                                         *)
OpeningInv ==
  \A o \in Handles :
    /\ openings[o].call = "free" => openings[o].factory = "none" /\ ~openings[o].aborted
    /\ openings[o].factory = "none" => openings[o].call = "free"
    /\ openings[o].call = "waiting" <=> openings[o].factory = "pending" /\ ~openings[o].aborted
    /\ openings[o].factory = "returned" => openings[o].aborted
    /\ openings[o].call = "made" <=> openings[o].native # NoSession
    /\ openings[o].closed => openings[o].call = "made"
    /\ openings[o].active # NoRun => o \in sdkSessions
    /\ o \in sdkSessions <=> openings[o].call = "made" /\ ~openings[o].closed

(* A native is the property of one open Session, or was disposed of. *)
NativeInv ==
  /\ \A n \in Sessions : natives[n] = "owned" <=> \E o \in sdkSessions : openings[o].native = n
  /\ \A n \in Sessions : natives[n] # "none" => n \in claimed
  /\ \A o \in Handles : openings[o].native # NoSession => openings[o].native \in claimed
  /\ \A o, p \in Handles : o # p /\ openings[o].native # NoSession => openings[o].native # openings[p].native

(* A closed Client has nothing left, and an open one keeps its limit. *)
LimitInv ==
  /\ closed => sdkSessions = {} /\ Sdk!Waiting = {}
  /\ IsFiniteSet(sdkSessions) /\ IsFiniteSet(Sdk!Waiting)
  /\ Cardinality(sdkSessions) + Cardinality(Sdk!Waiting) <= MaxSdkSessions

(* A Run by itself. *)
Consistent(run) ==
  /\ run.owner = NoHandle <=> run.prompt = "none"
  /\ run.owner = NoHandle => run.final = "none" /\ run.abort = "none"
  /\ run.final = "none" => run.last = run.said
  /\ run.final = "completed" => run.prompt = "resolved" /\ run.said = "stop"
  /\ run.final = "cancelled" => run.said = "aborted" /\ run.abort = "confirmed"
  /\ run.final \in {"completed", "cancelled"} => run.prompt = "resolved" /\ run.abort \in {"none", "confirmed"}
  /\ run.cancel = "native" => run.final = "cancelled"
  /\ run.abort = "none" <=> run.cancel = "none"

AbortedIsOver(run) == run.cancel = "connection_aborted" => run.final # "none"

(* An unfinished Run is the active one of its Session, and the Session has no other. *)
ActiveInv ==
  /\ \A r \in Runs : sdkRuns[r].owner # NoHandle =>
       /\ openings[sdkRuns[r].owner].call = "made"
       /\ sdkRuns[r].final = "none" => openings[sdkRuns[r].owner].active = r
  /\ \A o \in Handles : openings[o].active # NoRun =>
       sdkRuns[openings[o].active].owner = o /\ sdkRuns[openings[o].active].final = "none"

(* The native of a Session works on one prompt, that of its active Run unless the Session is closed. *)
WorkInv ==
  /\ \A o \in Handles : working[o] # NoRun =>
       sdkRuns[working[o]].owner = o /\ sdkRuns[working[o]].prompt = "prompting"
  /\ \A r \in Runs : sdkRuns[r].prompt = "prompting" => working[sdkRuns[r].owner] = r
  /\ \A o \in sdkSessions : working[o] \in {NoRun, openings[o].active}

SdkRunsInv == ActiveInv /\ WorkInv /\ \A r \in Runs : Consistent(sdkRuns[r]) /\ AbortedIsOver(sdkRuns[r])

SdkInv == SdkTyped /\ OpeningInv /\ NativeInv /\ LimitInv /\ SdkRunsInv

(* What a step may make of a Run. *)
SdkMoves ==
  \A r \in Runs : /\ sdkRuns[r].owner # NoHandle => sdkRuns'[r].owner = sdkRuns[r].owner
                  /\ sdkRuns[r].owner = NoHandle => sdkRuns'[r].final = "none"
                  /\ sdkRuns[r].final # "none" => sdkRuns'[r].final = sdkRuns[r].final

LEMMA SameCardinality == \A S : Sdk!Cardinality(S) = Cardinality(S)
  BY Zenon DEF Sdk!Cardinality, Cardinality

LEMMA SdkInitHolds == Sdk!SdkInit => SdkInv
<1> SUFFICES ASSUME Sdk!SdkInit PROVE SdkInv
  OBVIOUS
<1> USE ConnectionsAssumption DEF Sdk!SdkInit
<1>1. SdkTyped
  BY DEF SdkTyped, SdkOpening, SdkRun
<1>2. OpeningInv /\ NativeInv
  BY DEF OpeningInv, NativeInv
<1>3. sdkSessions = {} /\ Sdk!Waiting = {}
  BY DEF Sdk!Waiting
<1>4. LimitInv
  BY <1>3, FS_EmptySet DEF Sdk!SdkAssumption, LimitInv
<1>5. SdkRunsInv
  BY DEF SdkRunsInv, ActiveInv, WorkInv, Consistent, AbortedIsOver
<1> QED BY <1>1, <1>2, <1>4, <1>5 DEF SdkInv

(* finish(): the first result stays, and nothing else changes than what a cancel() is told.          *)
LEMMA FinishedKeeps ==
  ASSUME NEW run \in SdkRun, Consistent(run), run.owner # NoHandle, NEW result \in SdkEnds,
         result = "completed" => /\ run.prompt = "resolved" /\ run.last = "stop"
                                 /\ run.abort \in {"none", "confirmed"},
         result = "cancelled" => run.prompt = "resolved" /\ run.last = "aborted" /\ run.abort = "confirmed"
  PROVE  /\ Sdk!Finished(run, result) \in SdkRun /\ Consistent(Sdk!Finished(run, result))
         /\ AbortedIsOver(Sdk!Finished(run, result)) /\ Sdk!Finished(run, result).final # "none"
         /\ run.final # "none" => Sdk!Finished(run, result).final = run.final
         /\ Sdk!Finished(run, result).owner = run.owner /\ Sdk!Finished(run, result).prompt = run.prompt
<1>1. CASE run.final # "none"
  BY <1>1 DEF Sdk!Finished, AbortedIsOver
<1>2. CASE run.final = "none"
  <2>1. PICK cancel : cancel = Sdk!CancelAfter(run, result)
    OBVIOUS
  <2>2. /\ cancel \in {"none", "waiting", "native", "connection_aborted", "already_terminal"}
        /\ cancel = "native" => result = "cancelled" \/ run.cancel = "native"
        /\ cancel = "none" <=> run.cancel = "none"
    BY <2>1 DEF Sdk!CancelAfter, SdkRun
  <2>3. PICK done : done = [run EXCEPT !.final = result, !.cancel = cancel]
    OBVIOUS
  <2>4. /\ done.final = result /\ done.cancel = cancel /\ done.owner = run.owner /\ done.prompt = run.prompt
        /\ done.last = run.last /\ done.said = run.said /\ done.abort = run.abort
    BY <2>3 DEF SdkRun
  <2>5. done \in SdkRun
    BY <2>2, <2>3, ZenonT(60) DEF SdkRun, SdkEnds
  <2>6. Sdk!Finished(run, result) = done
    BY <1>2, <2>1, <2>3 DEF Sdk!Finished
  <2>7. result # "none"
    BY DEF SdkEnds
  <2>8. Consistent(done) /\ AbortedIsOver(done)
    BY <1>2, <2>2, <2>4, <2>7 DEF Consistent, AbortedIsOver
  <2> QED BY <1>2, <2>4, <2>5, <2>6, <2>7, <2>8
<1> QED BY <1>1, <1>2

(* What a step has made of the Runs, before it ends any; and of the prompts of the natives.          *)
Planned(now) ==
  /\ now \in [Runs -> SdkRun]
  /\ \A r \in Runs : now[r].owner = sdkRuns[r].owner /\ now[r].final = sdkRuns[r].final /\ Consistent(now[r])

Works(now) ==
  /\ working' \in [Handles -> Runs \cup {NoRun}]
  /\ \A o \in Handles : working'[o] \in {NoRun, working[o]}
  /\ \A o \in Handles : working'[o] # NoRun => now[working'[o]].owner = o /\ now[working'[o]].prompt = "prompting"
  /\ \A r \in Runs : now[r].prompt = "prompting" => working'[now[r].owner] = r

(* Closing Sessions ends their active Runs. *)
LEMMA ReleaseRuns ==
  ASSUME SdkInv, NEW os \in SUBSET Handles, NEW now, Planned(now), Works(now),
         NEW result \in {"connection_aborted", "failed"},
         \A r \in Runs : AbortedIsOver(now[r]) \/ now[r].owner \in os,
         sdkRuns' = [r \in Runs |-> IF now[r].owner \in os /\ openings[now[r].owner].active = r
                                    THEN Sdk!Finished(now[r], result) ELSE now[r]],
         \A o \in os : openings'[o].active = NoRun,
         \A o \in Handles \ os : openings'[o].active = openings[o].active,
         \A o \in Handles : openings[o].call = "made" => openings'[o].call = "made",
         sdkSessions' = sdkSessions \ os
  PROVE  sdkRuns' \in [Runs -> SdkRun] /\ SdkRunsInv' /\ SdkMoves
<1> USE ConnectionsAssumption DEF Sdk!SdkAssumption
<1>1. /\ sdkRuns \in [Runs -> SdkRun] /\ ActiveInv /\ WorkInv
      /\ openings \in [Handles -> SdkOpening] /\ sdkSessions \subseteq Handles
  BY DEF SdkInv, SdkTyped, SdkRunsInv
<1>2. ASSUME NEW r \in Runs
      PROVE  /\ sdkRuns'[r] \in SdkRun /\ Consistent(sdkRuns'[r]) /\ AbortedIsOver(sdkRuns'[r])
             /\ sdkRuns'[r].owner = sdkRuns[r].owner /\ sdkRuns'[r].prompt = now[r].prompt
             /\ sdkRuns[r].final # "none" => sdkRuns'[r].final = sdkRuns[r].final
             /\ ~(sdkRuns[r].owner \in os /\ openings[sdkRuns[r].owner].active = r)
                => sdkRuns'[r].final = sdkRuns[r].final
             /\ sdkRuns'[r].final = "none" => /\ sdkRuns[r].final = "none"
                                             /\ sdkRuns[r].owner \notin os
  BY FinishedKeeps, <1>1 DEF Planned, SdkEnds, ActiveInv, AbortedIsOver
<1>3. sdkRuns' \in [Runs -> SdkRun]
  BY <1>2
<1>4. ActiveInv'
  BY <1>1, <1>2 DEF SdkRun, ActiveInv, SdkOpening
<1>5. WorkInv'
  BY <1>2, <1>1 DEF Planned, Works, WorkInv
<1>6. SdkMoves
  BY <1>1, <1>2 DEF SdkMoves, SdkInv, SdkRunsInv, Consistent
<1> QED BY <1>2, <1>3, <1>4, <1>5, <1>6 DEF SdkRunsInv

(* A limit that is kept stays so when Sessions are closed and calls have ended. *)
LEMMA LimitKeeps ==
  ASSUME SdkInv, closed' => sdkSessions' = {} /\ Sdk!Waiting' = {},
         sdkSessions' \subseteq sdkSessions, Sdk!Waiting' \subseteq Sdk!Waiting
  PROVE  LimitInv'
<1>1. LimitInv /\ MaxSdkSessions \in Nat
  BY ConnectionsAssumption DEF SdkInv, Sdk!SdkAssumption
<1>2. IsFiniteSet(sdkSessions') /\ Cardinality(sdkSessions') <= Cardinality(sdkSessions)
      /\ Cardinality(sdkSessions') \in Nat /\ Cardinality(sdkSessions) \in Nat
  BY <1>1, FS_Subset, FS_CardinalityType DEF LimitInv
<1>3. IsFiniteSet(Sdk!Waiting') /\ Cardinality(Sdk!Waiting') <= Cardinality(Sdk!Waiting)
      /\ Cardinality(Sdk!Waiting') \in Nat /\ Cardinality(Sdk!Waiting) \in Nat
  BY <1>1, FS_Subset, FS_CardinalityType DEF LimitInv
<1> QED BY <1>1, <1>2, <1>3 DEF LimitInv

LEMMA ReleaseKeeps ==
  ASSUME SdkInv, NEW os \in SUBSET Handles, \A o \in os : openings[o].call = "made",
         NEW now, Planned(now), Works(now), NEW result \in {"connection_aborted", "failed"},
         \A r \in Runs : AbortedIsOver(now[r]) \/ now[r].owner \in os,
         Sdk!Release(os, now, result)
  PROVE  SdkInv' /\ SdkMoves
<1> USE ConnectionsAssumption DEF Sdk!SdkAssumption
<1>1. SdkTyped /\ OpeningInv /\ NativeInv /\ LimitInv
  BY DEF SdkInv
<1>2. ASSUME NEW o \in Handles
      PROVE  /\ openings'[o] \in SdkOpening /\ openings'[o].call = openings[o].call
             /\ openings'[o].factory = openings[o].factory /\ openings'[o].aborted = openings[o].aborted
             /\ openings'[o].native = openings[o].native
             /\ o \in os => openings'[o].closed /\ openings'[o].active = NoRun
             /\ o \notin os => openings'[o].closed = openings[o].closed /\ openings'[o].active = openings[o].active
  <2>1. openings[o] \in SdkOpening
    BY <1>1 DEF SdkTyped
  <2>2. CASE o \in os
    BY <2>2, <2>1 DEF Sdk!Release, SdkOpening
  <2>3. CASE o \notin os
    BY <2>3, <2>1 DEF Sdk!Release
  <2> QED BY <2>2, <2>3
<1>3. openings' \in [Handles -> SdkOpening]
  BY <1>2 DEF Sdk!Release
<1>4. sdkSessions' = sdkSessions \ os /\ closed' = closed /\ claimed' = claimed
  BY DEF Sdk!Release
<1>5. sdkRuns' \in [Runs -> SdkRun] /\ SdkRunsInv' /\ SdkMoves
  <2>1. sdkRuns' = [r \in Runs |-> IF now[r].owner \in os /\ openings[now[r].owner].active = r
                                   THEN Sdk!Finished(now[r], result) ELSE now[r]]
    BY DEF Sdk!Release
  <2>2. /\ \A o \in os : openings'[o].active = NoRun
        /\ \A o \in Handles \ os : openings'[o].active = openings[o].active
        /\ \A o \in Handles : openings[o].call = "made" => openings'[o].call = "made"
    BY <1>2
  <2> QED BY <1>4, <2>1, <2>2, ReleaseRuns
<1>6. OpeningInv'
  BY <1>1, <1>2, <1>4 DEF OpeningInv, SdkTyped
<1>7. /\ natives' \in [Sessions -> {"none", "owned", "disposed"}]
      /\ \A n \in Sessions : natives'[n] = IF n \in {openings[o].native : o \in os} THEN "disposed" ELSE natives[n]
  BY <1>1 DEF Sdk!Release, SdkTyped
<1>8. NativeInv'
  BY <1>1, <1>2, <1>4, <1>7 DEF OpeningInv, NativeInv, SdkTyped
<1>9. LimitInv'
  BY <1>2, <1>1, <1>4, LimitKeeps DEF Sdk!Waiting, LimitInv
<1>10. SdkTyped'
  BY <1>1, <1>3, <1>4, <1>5, <1>7 DEF SdkTyped, Works
<1> QED BY <1>5, <1>6, <1>8, <1>9, <1>10 DEF SdkInv

(* A step of an opening leaves the Runs alone. *)
LEMMA OpeningRests ==
  ASSUME SdkInv, sdkRuns' = sdkRuns, working' = working,
         \A o \in Handles : /\ openings'[o].active = openings[o].active
                            /\ openings[o].call = "made" => openings'[o].call = "made",
         \A o \in sdkSessions' : o \in sdkSessions \/ (o \in Handles /\ openings[o].call # "made")
  PROVE  SdkRunsInv' /\ SdkMoves
<1> USE ConnectionsAssumption DEF Sdk!SdkAssumption
<1>1. SdkTyped /\ ActiveInv /\ WorkInv
  BY DEF SdkInv, SdkRunsInv
<1>2. ActiveInv'
  BY <1>1 DEF SdkTyped, SdkRun, ActiveInv
<1>3. \A o \in sdkSessions' : working[o] \in {NoRun, openings'[o].active}
  BY <1>1 DEF WorkInv, SdkTyped, ActiveInv
<1>4. WorkInv'
  BY <1>1, <1>3 DEF WorkInv
<1>5. SdkMoves
  BY DEF SdkMoves, SdkInv, SdkRunsInv, Consistent
<1> QED BY <1>2, <1>4, <1>5 DEF SdkInv, SdkRunsInv

LEMMA CreateKeeps ==
  ASSUME SdkInv, NEW o \in Handles, Sdk!Create(o)
  PROVE  SdkInv' /\ SdkMoves
<1> USE ConnectionsAssumption DEF Sdk!SdkAssumption
<1>1. SdkTyped /\ OpeningInv /\ NativeInv /\ LimitInv
  BY DEF SdkInv
<1>2. /\ ~closed /\ openings[o].call = "free"
      /\ UNCHANGED <<closed, claimed, sdkSessions, sdkRuns, natives, working>>
      /\ Cardinality(sdkSessions) + Cardinality(Sdk!Waiting) < MaxSdkSessions
  BY SameCardinality DEF Sdk!Create
<1>3. openings[o] \in SdkOpening
  BY <1>1 DEF SdkTyped
<1>4. PICK made : made = [openings[o] EXCEPT !.call = "waiting", !.factory = "pending"]
  OBVIOUS
<1>5. /\ made \in SdkOpening /\ made.call = "waiting" /\ made.factory = "pending"
      /\ made.aborted = openings[o].aborted /\ made.native = openings[o].native
      /\ made.closed = openings[o].closed /\ made.active = openings[o].active
  BY <1>3, <1>4 DEF SdkOpening
<1>6. /\ openings' \in [Handles -> SdkOpening] /\ openings'[o] = made
      /\ \A p \in Handles : p # o => openings'[p] = openings[p]
  BY <1>1, <1>4, <1>5 DEF Sdk!Create, SdkTyped
<1>7. OpeningInv'
  BY <1>1, <1>2, <1>5, <1>6 DEF OpeningInv
<1>8. NativeInv'
  BY <1>5, <1>6, <1>1, <1>2 DEF SdkTyped, NativeInv
<1>9. LimitInv'
  <2>1. Sdk!Waiting' = Sdk!Waiting \cup {o}
    BY <1>5, <1>6 DEF Sdk!Waiting
  <2>2. /\ IsFiniteSet(Sdk!Waiting') /\ Cardinality(Sdk!Waiting') <= Cardinality(Sdk!Waiting) + 1
        /\ Cardinality(Sdk!Waiting') \in Nat /\ Cardinality(Sdk!Waiting) \in Nat
    <3>1. IsFiniteSet(Sdk!Waiting)
      BY <1>1 DEF LimitInv
    <3>2. IsFiniteSet(Sdk!Waiting') /\ Cardinality(Sdk!Waiting')
            = IF o \in Sdk!Waiting THEN Cardinality(Sdk!Waiting) ELSE Cardinality(Sdk!Waiting) + 1
      BY <2>1, <3>1, FS_AddElement
    <3> QED BY <3>1, <3>2, FS_CardinalityType
  <2>3. Cardinality(sdkSessions) \in Nat /\ MaxSdkSessions \in Nat
    BY <1>1, FS_CardinalityType DEF LimitInv
  <2> QED BY <1>1, <1>2, <2>2, <2>3 DEF LimitInv
<1>10. SdkRunsInv' /\ SdkMoves
  BY <1>2, <1>5, <1>6, OpeningRests
<1>11. SdkTyped'
  BY <1>1, <1>2, <1>6 DEF SdkTyped
<1> QED BY <1>7, <1>8, <1>9, <1>10, <1>11 DEF SdkInv

(* A call that is over without a Session. *)
LEMMA RefusedKeeps ==
  ASSUME SdkInv, NEW o \in Handles, NEW over, over \in SdkOpening,
         over.aborted, over.factory # "none",
         over.call = IF openings[o].call = "waiting" THEN "refused" ELSE openings[o].call,
         over.native = openings[o].native, over.closed = openings[o].closed, over.active = openings[o].active,
         openings[o].factory # "none", over.factory = "returned" \/ over.factory = openings[o].factory,
         openings' = [openings EXCEPT ![o] = over],
         UNCHANGED <<closed, sdkSessions, sdkRuns, working>>,
         claimed \subseteq claimed', claimed' \subseteq Sessions,
         natives' \in [Sessions -> {"none", "owned", "disposed"}],
         \A n \in Sessions : natives'[n] = natives[n] \/ (n \notin claimed /\ n \in claimed' /\ natives'[n] = "disposed")
  PROVE  SdkInv' /\ SdkMoves
<1> USE ConnectionsAssumption DEF Sdk!SdkAssumption
<1>1. SdkTyped /\ OpeningInv /\ NativeInv /\ LimitInv
  BY DEF SdkInv
<1>2. /\ openings' \in [Handles -> SdkOpening] /\ openings'[o] = over
      /\ \A p \in Handles : p # o => openings'[p] = openings[p]
  BY <1>1 DEF SdkTyped
<1>3. OpeningInv'
  BY <1>1, <1>2 DEF OpeningInv
<1>4. NativeInv'
  BY <1>2, <1>1 DEF SdkTyped, NativeInv, OpeningInv
<1>5. LimitInv'
  BY <1>2, <1>1, LimitKeeps DEF Sdk!Waiting, LimitInv
<1>6. SdkRunsInv' /\ SdkMoves
  BY <1>2, OpeningRests
<1>7. SdkTyped'
  BY <1>1, <1>2 DEF SdkTyped
<1> QED BY <1>3, <1>4, <1>5, <1>6, <1>7 DEF SdkInv

LEMMA CallsKeep ==
  ASSUME SdkInv, NEW o \in Handles, Sdk!GivesUp(o) \/ Sdk!FactoryFails(o)
  PROVE  SdkInv' /\ SdkMoves
<1>1. SdkTyped /\ OpeningInv
  BY DEF SdkInv
<1>2. openings[o] \in SdkOpening
  BY <1>1 DEF SdkTyped
<1>3. /\ UNCHANGED <<closed, claimed, sdkSessions, sdkRuns, natives, working>>
      /\ claimed \subseteq Sessions /\ natives \in [Sessions -> {"none", "owned", "disposed"}]
  BY <1>1 DEF Sdk!GivesUp, Sdk!FactoryFails, SdkTyped
<1>4. CASE Sdk!GivesUp(o)
  BY <1>2, <1>1, <1>4, <1>3, RefusedKeeps DEF SdkOpening, Sdk!GivesUp, SdkTyped, OpeningInv
<1>5. CASE Sdk!FactoryFails(o)
  <2>1. PICK call : call = IF openings[o].call = "waiting" THEN "refused" ELSE openings[o].call
    OBVIOUS
  <2>2. call \in {"free", "waiting", "made", "refused"}
    BY <1>2, <2>1 DEF SdkOpening
  <2>3. PICK over : over = [openings[o] EXCEPT !.factory = "returned", !.aborted = TRUE, !.call = call]
    OBVIOUS
  <2>4. /\ over \in SdkOpening /\ over.call = call /\ over.aborted /\ over.factory = "returned"
        /\ over.native = openings[o].native /\ over.closed = openings[o].closed /\ over.active = openings[o].active
    BY <1>2, <2>2, <2>3 DEF SdkOpening
  <2>5. openings' = [openings EXCEPT ![o] = over] /\ openings[o].factory = "pending"
    BY <1>1, <1>5, <2>1, <2>3 DEF Sdk!FactoryFails, SdkTyped
  <2> QED BY <1>3, <2>1, <2>4, <2>5, RefusedKeeps
<1> QED BY <1>4, <1>5

LEMMA FactoryKeeps ==
  ASSUME SdkInv, NEW o \in Handles, NEW n \in Sessions, NEW idle \in BOOLEAN, Sdk!FactoryReturns(o, n, idle)
  PROVE  SdkInv' /\ SdkMoves
<1> USE ConnectionsAssumption DEF Sdk!SdkAssumption
<1>1. SdkTyped /\ OpeningInv /\ NativeInv /\ LimitInv
  BY DEF SdkInv
<1>2. openings[o] \in SdkOpening /\ openings[o].factory = "pending"
  BY <1>1 DEF SdkTyped, Sdk!FactoryReturns
<1>3. UNCHANGED <<closed, sdkRuns, working>> /\ claimed' = claimed \cup {n}
  BY DEF Sdk!FactoryReturns
<1>4. CASE n \notin claimed /\ ~openings[o].aborted /\ idle
  <2>1. openings[o].call = "waiting"
    BY <1>1, <1>2, <1>4 DEF OpeningInv
  <2>2. PICK made : made = [openings[o] EXCEPT !.factory = "returned", !.aborted = TRUE, !.native = n, !.call = "made"]
    OBVIOUS
  <2>3. /\ made \in SdkOpening /\ made.call = "made" /\ made.aborted /\ made.factory = "returned"
        /\ made.native = n /\ made.closed = openings[o].closed /\ made.active = openings[o].active
    BY <1>2, <2>2 DEF SdkOpening
  <2>4. /\ openings' = [openings EXCEPT ![o] = made] /\ sdkSessions' = sdkSessions \cup {o}
        /\ natives' = [natives EXCEPT ![n] = "owned"]
    BY <1>1, <1>4, <2>1, <2>2 DEF Sdk!FactoryReturns, SdkTyped
  <2>5. /\ openings' \in [Handles -> SdkOpening] /\ openings'[o] = made
        /\ \A p \in Handles : p # o => openings'[p] = openings[p]
    BY <1>1, <1>3, <2>3, <2>4 DEF SdkTyped
  <2>6. OpeningInv'
    BY <1>1, <2>1, <2>3, <2>4, <2>5 DEF OpeningInv
  <2>7. openings[o].native = NoSession /\ o \notin sdkSessions /\ ~openings[o].closed /\ n # NoSession
    BY <1>1, <2>1 DEF OpeningInv
  <2>8. NativeInv'
    BY <2>5, <1>1, <1>4, <2>7, <2>4, <2>3, <1>3 DEF NativeInv, SdkTyped
  <2>9. LimitInv'
    <3>1. o \in Sdk!Waiting /\ Sdk!Waiting' = Sdk!Waiting \ {o}
      BY <2>1, <2>3, <2>5 DEF Sdk!Waiting
    <3>2. IsFiniteSet(Sdk!Waiting) /\ IsFiniteSet(sdkSessions)
      BY <1>1 DEF LimitInv
    <3>3. IsFiniteSet(Sdk!Waiting') /\ Cardinality(Sdk!Waiting') = Cardinality(Sdk!Waiting) - 1
      BY <3>1, <3>2, FS_RemoveElement
    <3>4. IsFiniteSet(sdkSessions') /\ Cardinality(sdkSessions') = Cardinality(sdkSessions) + 1
      BY <2>4, <2>7, <3>2, FS_AddElement
    <3>5. Cardinality(Sdk!Waiting) \in Nat /\ Cardinality(sdkSessions) \in Nat /\ MaxSdkSessions \in Nat
      BY <3>2, FS_CardinalityType
    <3>6. ~closed
      BY <1>1, <3>1 DEF LimitInv
    <3> QED BY <1>1, <1>3, <3>3, <3>4, <3>5, <3>6 DEF LimitInv
  <2>10. SdkRunsInv' /\ SdkMoves
    BY <2>3, <2>5, <2>1, <2>4, <1>3, OpeningRests
  <2>11. SdkTyped'
    BY <1>1, <1>3, <2>4, <2>5 DEF SdkTyped
  <2> QED BY <2>6, <2>8, <2>9, <2>10, <2>11 DEF SdkInv
<1>5. CASE ~(n \notin claimed /\ ~openings[o].aborted /\ idle)
  <2>1. PICK call : call = IF openings[o].call = "waiting" THEN "refused" ELSE openings[o].call
    OBVIOUS
  <2>2. call \in {"free", "waiting", "made", "refused"}
    BY <1>2, <2>1 DEF SdkOpening
  <2>3. PICK over : over = [openings[o] EXCEPT !.factory = "returned", !.aborted = TRUE,
                              !.native = openings[o].native, !.call = call]
    OBVIOUS
  <2>4. /\ over \in SdkOpening /\ over.call = call /\ over.aborted /\ over.factory = "returned"
        /\ over.native = openings[o].native /\ over.closed = openings[o].closed /\ over.active = openings[o].active
    BY <1>2, <2>2, <2>3 DEF SdkOpening
  <2>5. openings' = [openings EXCEPT ![o] = over] /\ sdkSessions' = sdkSessions
    BY <1>1, <1>5, <2>1, <2>3 DEF Sdk!FactoryReturns, SdkTyped
  <2>6. /\ natives' \in [Sessions -> {"none", "owned", "disposed"}]
        /\ \A m \in Sessions : natives'[m] = natives[m]
                               \/ (m \notin claimed /\ m \in claimed' /\ natives'[m] = "disposed")
    BY <1>1, <1>3, <1>5 DEF Sdk!FactoryReturns, SdkTyped
  <2>7. claimed \subseteq claimed' /\ claimed' \subseteq Sessions
    BY <1>1, <1>3 DEF SdkTyped
  <2> QED BY <1>2, <1>3, <2>1, <2>4, <2>5, <2>6, <2>7, RefusedKeeps
<1> QED BY <1>4, <1>5

LEMMA Unplanned ==
  ASSUME SdkInv
  PROVE  /\ Planned(sdkRuns) /\ (working' = working => Works(sdkRuns))
         /\ \A r \in Runs : AbortedIsOver(sdkRuns[r])
         /\ \A r \in Runs : sdkRuns[r].owner # NoHandle =>
              sdkRuns[r].owner \in Handles /\ openings[sdkRuns[r].owner].call = "made"
  BY DEF SdkInv, SdkTyped, SdkRunsInv, ActiveInv, WorkInv, Planned, Works, SdkRun

(* A step of a Run that closes no Session: the active Run of an open Session may be another.         *)
LEMMA SessionsRest ==
  ASSUME SdkInv, UNCHANGED <<closed, claimed, sdkSessions, natives>>,
         openings' \in [Handles -> SdkOpening],
         \A o \in Handles : /\ openings'[o].call = openings[o].call /\ openings'[o].factory = openings[o].factory
                            /\ openings'[o].aborted = openings[o].aborted /\ openings'[o].native = openings[o].native
                            /\ openings'[o].closed = openings[o].closed
                            /\ openings'[o].active \in {openings[o].active, NoRun} \/ o \in sdkSessions
  PROVE  OpeningInv' /\ NativeInv' /\ LimitInv'
<1>1. SdkTyped /\ OpeningInv /\ NativeInv /\ LimitInv
  BY DEF SdkInv
<1>2. OpeningInv'
  BY <1>1 DEF OpeningInv
<1>3. NativeInv'
  BY <1>1 DEF SdkTyped, NativeInv
<1>4. LimitInv'
  BY <1>1 DEF Sdk!Waiting, LimitInv
<1> QED BY <1>2, <1>3, <1>4

(* A step of Runs that ends none. *)
LEMMA PlannedKeeps ==
  ASSUME SdkInv, Planned(sdkRuns'), Works(sdkRuns'), \A r \in Runs : AbortedIsOver(sdkRuns'[r]),
         UNCHANGED <<closed, openings, claimed, sdkSessions, natives>>
  PROVE  SdkInv' /\ SdkMoves
<1> USE ConnectionsAssumption DEF Sdk!SdkAssumption
<1>1. SdkTyped /\ ActiveInv /\ WorkInv
  BY DEF SdkInv, SdkRunsInv
<1>2. OpeningInv' /\ NativeInv' /\ LimitInv'
  BY <1>1, SessionsRest DEF SdkTyped
<1>3. SdkTyped'
  BY <1>1 DEF SdkTyped, Planned, Works
<1>4. ActiveInv'
  BY <1>1 DEF Planned, SdkTyped, SdkOpening, ActiveInv
<1>5. WorkInv'
  BY <1>1 DEF SdkTyped, WorkInv, Works
<1>6. SdkMoves
  BY DEF SdkMoves, Planned, SdkInv, SdkRunsInv, Consistent
<1> QED BY <1>2, <1>3, <1>4, <1>5, <1>6 DEF SdkInv, SdkRunsInv, Planned

LEMMA FinishKeeps ==
  ASSUME SdkInv, NEW r \in Runs, sdkRuns[r].owner # NoHandle, sdkRuns[r].final = "none",
         NEW now, Planned(now), Works(now), \A q \in Runs : AbortedIsOver(now[q]),
         NEW result \in SdkEnds, Sdk!Finish(r, now, result), now[r].prompt # "prompting",
         result = "completed" => /\ now[r].prompt = "resolved" /\ now[r].last = "stop"
                                 /\ now[r].abort \in {"none", "confirmed"},
         result = "cancelled" => now[r].prompt = "resolved" /\ now[r].last = "aborted" /\ now[r].abort = "confirmed"
  PROVE  SdkInv' /\ SdkMoves
<1> USE ConnectionsAssumption DEF Sdk!SdkAssumption
<1>1. SdkTyped /\ ActiveInv /\ WorkInv
  BY DEF SdkInv, SdkRunsInv
<1>2. PICK o : o = sdkRuns[r].owner
  OBVIOUS
<1>3. o \in Handles /\ o # NoHandle /\ openings[o].call = "made" /\ openings[o].active = r
  BY <1>1, <1>2 DEF SdkTyped, SdkRun, ActiveInv
<1>4. PICK done : done = Sdk!Finished(now[r], result)
  OBVIOUS
<1>5. now[r] \in SdkRun /\ Consistent(now[r]) /\ now[r].owner = o /\ now \in [Runs -> SdkRun]
  BY <1>2 DEF Planned
<1>6. /\ done \in SdkRun /\ Consistent(done) /\ AbortedIsOver(done) /\ done.final # "none"
      /\ done.owner = o /\ done.prompt = now[r].prompt
  BY <1>3, <1>4, <1>5, FinishedKeeps
<1>7. /\ sdkRuns' = [now EXCEPT ![r] = done] /\ openings' = [openings EXCEPT ![o].active = NoRun]
      /\ UNCHANGED <<closed, claimed, sdkSessions, natives>>
  BY <1>2, <1>4, <1>5 DEF Sdk!Finish
<1>8. /\ sdkRuns' \in [Runs -> SdkRun] /\ sdkRuns'[r] = done
      /\ \A q \in Runs : q # r => sdkRuns'[q] = now[q]
  BY <1>5, <1>6, <1>7
<1>9. /\ openings' \in [Handles -> SdkOpening] /\ openings'[o].active = NoRun
      /\ \A p \in Handles : p # o => openings'[p] = openings[p]
      /\ \A p \in Handles : /\ openings'[p].call = openings[p].call /\ openings'[p].factory = openings[p].factory
                            /\ openings'[p].aborted = openings[p].aborted /\ openings'[p].native = openings[p].native
                            /\ openings'[p].closed = openings[p].closed
  BY <1>1, <1>3, <1>7 DEF SdkTyped, SdkOpening
<1>10. OpeningInv' /\ NativeInv' /\ LimitInv'
  BY <1>3, <1>7, <1>9, SessionsRest
<1>11. ActiveInv'
  <2>1. ASSUME NEW q \in Runs, sdkRuns'[q].owner # NoHandle
        PROVE  /\ openings'[sdkRuns'[q].owner].call = "made"
               /\ sdkRuns'[q].final = "none" => openings'[sdkRuns'[q].owner].active = q
    BY <1>3, <1>6, <1>8, <1>9, <1>1, <2>1 DEF Planned, SdkTyped, SdkRun, ActiveInv
  <2>2. ASSUME NEW p \in Handles, openings'[p].active # NoRun
        PROVE  sdkRuns'[openings'[p].active].owner = p /\ sdkRuns'[openings'[p].active].final = "none"
    BY <1>9, <2>2, <1>1, <1>2, <1>8 DEF SdkTyped, SdkOpening, ActiveInv, Planned
  <2> QED BY <2>1, <2>2 DEF ActiveInv
<1>12. WorkInv'
  BY <1>5, <1>6, <1>8, <1>1, <1>7, <1>9, <1>3 DEF Works, WorkInv, SdkTyped
<1>13. SdkMoves
  BY <1>2, <1>6, <1>8 DEF SdkMoves, Planned, SdkInv, SdkRunsInv, Consistent
<1>14. SdkTyped'
  BY <1>1, <1>7, <1>8, <1>9 DEF SdkTyped, Works
<1>15. \A q \in Runs : Consistent(sdkRuns'[q]) /\ AbortedIsOver(sdkRuns'[q])
  BY <1>6, <1>8 DEF Planned
<1> QED BY <1>10, <1>11, <1>12, <1>13, <1>14, <1>15 DEF SdkInv, SdkRunsInv

(* complete(), whatever the step has made of the Run before. *)
LEMMA CompleteKeeps ==
  ASSUME SdkInv, NEW r \in Runs, sdkRuns[r].owner # NoHandle,
         NEW now, Planned(now), Works(now), \A q \in Runs : AbortedIsOver(now[q]), Sdk!Complete(r, now)
  PROVE  SdkInv' /\ SdkMoves
<1>1. now[r] \in SdkRun /\ Consistent(now[r]) /\ now[r].owner = sdkRuns[r].owner /\ now[r].final = sdkRuns[r].final
  BY DEF Planned
<1>2. CASE sdkRuns' = now /\ UNCHANGED <<closed, openings, claimed, sdkSessions, natives>>
  BY <1>2, PlannedKeeps
<1>3. CASE Sdk!Disconnect(r, now)
  BY <1>3, Unplanned, ReleaseKeeps DEF Sdk!Disconnect
<1>4. CASE /\ sdkRuns[r].final = "none" /\ now[r].prompt = "resolved" /\ now[r].abort \in {"none", "confirmed"}
           /\ Sdk!Finish(r, now, Sdk!Result(now[r]))
  BY <1>4, FinishKeeps DEF Sdk!Result, SdkEnds
<1> QED BY <1>2, <1>3, <1>4 DEF Sdk!Complete, Sdk!Terminal

LEMMA SdkCloseKeeps ==
  ASSUME SdkInv, Sdk!Close
  PROVE  SdkInv' /\ SdkMoves
<1> USE ConnectionsAssumption DEF Sdk!SdkAssumption
<1>1. SdkTyped /\ OpeningInv /\ NativeInv /\ LimitInv
  BY DEF SdkInv
<1>2. closed' = TRUE /\ sdkSessions' = {} /\ UNCHANGED <<claimed, working>>
  BY DEF Sdk!Close
<1>3. ASSUME NEW o \in Handles
      PROVE  /\ openings'[o] \in SdkOpening
             /\ openings'[o].call = IF openings[o].call = "waiting" THEN "refused" ELSE openings[o].call
             /\ openings[o].call = "waiting" => openings'[o].aborted
             /\ openings[o].call # "waiting" => openings'[o].aborted = openings[o].aborted
             /\ openings'[o].factory = openings[o].factory /\ openings'[o].native = openings[o].native
             /\ o \in sdkSessions => openings'[o].closed /\ openings'[o].active = NoRun
             /\ o \notin sdkSessions => openings'[o].closed = openings[o].closed
                                       /\ openings'[o].active = openings[o].active
  BY <1>1 DEF SdkTyped, Sdk!Waiting, SdkOpening, Sdk!Close
<1>4. openings' \in [Handles -> SdkOpening]
  BY <1>3 DEF Sdk!Close
<1>5. OpeningInv'
  BY <1>1, <1>3, <1>2 DEF OpeningInv
<1>6. /\ natives' \in [Sessions -> {"none", "owned", "disposed"}]
      /\ \A n \in Sessions : natives'[n] = IF n \in {openings[o].native : o \in sdkSessions} THEN "disposed"
                                          ELSE natives[n]
  BY <1>1 DEF Sdk!Close, SdkTyped
<1>7. NativeInv'
  BY <1>1, <1>2, <1>6, <1>3 DEF SdkTyped, OpeningInv, NativeInv
<1>8. LimitInv'
  BY <1>3, <1>2, LimitKeeps DEF Sdk!Waiting
<1>9. sdkRuns' \in [Runs -> SdkRun] /\ SdkRunsInv' /\ SdkMoves
  <2>1. sdkRuns' = [r \in Runs |-> IF sdkRuns[r].owner \in sdkSessions /\ openings[sdkRuns[r].owner].active = r
                                   THEN Sdk!Finished(sdkRuns[r], "connection_aborted") ELSE sdkRuns[r]]
    BY DEF Sdk!Close
  <2>2. /\ \A o \in sdkSessions : openings'[o].active = NoRun
        /\ \A o \in Handles \ sdkSessions : openings'[o].active = openings[o].active
        /\ \A o \in Handles : openings[o].call = "made" => openings'[o].call = "made"
    BY <1>1, <1>3 DEF SdkTyped
  <2>3. sdkSessions \in SUBSET Handles /\ sdkSessions' = sdkSessions \ sdkSessions
    BY <1>1, <1>2 DEF SdkTyped
  <2>4. Planned(sdkRuns) /\ Works(sdkRuns) /\ \A r \in Runs : AbortedIsOver(sdkRuns[r])
    BY <1>2, Unplanned
  <2> QED BY <2>1, <2>2, <2>3, <2>4, ReleaseRuns
<1>10. SdkTyped'
  BY <1>1, <1>2, <1>4, <1>6, <1>9 DEF SdkTyped
<1> QED BY <1>5, <1>7, <1>8, <1>9, <1>10 DEF SdkInv

(* Closing Sessions while the Runs are as they were. *)
LEMMA ClosingKeeps ==
  ASSUME SdkInv, NEW o \in Handles, openings[o].call = "made", working' = working,
         NEW result \in {"connection_aborted", "failed"}, Sdk!Release({o}, sdkRuns, result)
  PROVE  SdkInv' /\ SdkMoves
<1>1. Planned(sdkRuns) /\ Works(sdkRuns) /\ \A r \in Runs : AbortedIsOver(sdkRuns[r])
  BY Unplanned
<1> QED BY <1>1, ReleaseKeeps

LEMMA SessionClosedKeeps ==
  ASSUME SdkInv, NEW o \in Handles, Sdk!CloseSession(o)
  PROVE  SdkInv' /\ SdkMoves
  BY ClosingKeeps DEF Sdk!CloseSession, SdkInv, OpeningInv

LEMMA LostKeeps ==
  ASSUME SdkInv, NEW r \in Runs,
         Sdk!TimerFires(r) \/ Sdk!CancelGivesUp(r) \/ \E ok \in BOOLEAN : Sdk!EventFails(r, ok)
  PROVE  SdkInv' /\ SdkMoves
<1>1. working' = working
  BY DEF Sdk!TimerFires, Sdk!CancelGivesUp, Sdk!EventFails
<1>2. CASE /\ sdkRuns[r].owner # NoHandle
           /\ \E result \in {"connection_aborted", "failed"} : Sdk!Release({sdkRuns[r].owner}, sdkRuns, result)
  BY <1>1, <1>2, ClosingKeeps, Unplanned
<1>3. Consistent(sdkRuns[r])
  BY DEF SdkInv, SdkRunsInv
<1>4. CASE Sdk!TimerFires(r)
  BY <1>2, <1>4 DEF Sdk!TimerFires, Sdk!Disconnect
<1>5. CASE Sdk!CancelGivesUp(r)
  BY <1>2, <1>3, <1>5 DEF Sdk!CancelGivesUp, Sdk!Disconnect, Consistent
<1>6. CASE \E ok \in BOOLEAN : Sdk!EventFails(r, ok)
  BY <1>2, <1>3, <1>6 DEF Sdk!EventFails, Sdk!Disconnect, Sdk!Fail, Consistent
<1> QED BY <1>4, <1>5, <1>6

(* A step that changes one Run. *)
LEMMA OnePlanned ==
  ASSUME SdkInv, NEW r \in Runs, NEW now \in [Runs -> SdkRun], \A q \in Runs : q # r => now[q] = sdkRuns[q],
         Consistent(now[r]), now[r].owner = sdkRuns[r].owner, now[r].final = sdkRuns[r].final
  PROVE  /\ Planned(now)
         /\ (working' = working /\ now[r].prompt = sdkRuns[r].prompt) => Works(now)
         /\ AbortedIsOver(now[r]) => \A q \in Runs : AbortedIsOver(now[q])
<1>1. SdkTyped /\ WorkInv /\ \A q \in Runs : Consistent(sdkRuns[q]) /\ AbortedIsOver(sdkRuns[q])
  BY DEF SdkInv, SdkRunsInv
<1>2. Planned(now)
  BY <1>1 DEF Planned
<1>3. ASSUME working' = working, now[r].prompt = sdkRuns[r].prompt
      PROVE  Works(now)
  BY <1>3, <1>1 DEF SdkTyped, Works, WorkInv
<1> QED BY <1>1, <1>2, <1>3

LEMMA SdkCancelKeeps ==
  ASSUME SdkInv, NEW r \in Runs, Sdk!Cancel(r)
  PROVE  SdkInv' /\ SdkMoves
<1>1. sdkRuns \in [Runs -> SdkRun] /\ Consistent(sdkRuns[r])
  BY DEF SdkInv, SdkTyped, SdkRunsInv
<1>2. sdkRuns[r].final = "none" /\ sdkRuns[r].owner # NoHandle /\ sdkRuns[r].cancel = "none"
  BY DEF Sdk!Cancel, Sdk!Terminal
<1>3. PICK run : run = [sdkRuns[r] EXCEPT !.cancel = "waiting", !.abort = "pending"]
  OBVIOUS
<1>4. /\ run \in SdkRun /\ run.cancel = "waiting" /\ run.abort = "pending" /\ run.owner = sdkRuns[r].owner
      /\ run.final = sdkRuns[r].final /\ run.prompt = sdkRuns[r].prompt /\ run.last = sdkRuns[r].last
      /\ run.said = sdkRuns[r].said
  BY <1>1, <1>3, ZenonT(60) DEF SdkRun
<1>5. /\ sdkRuns' = [sdkRuns EXCEPT ![r] = run]
      /\ UNCHANGED <<closed, openings, claimed, sdkSessions, natives, working>>
  BY <1>1, <1>3 DEF Sdk!Cancel
<1>6. Consistent(run) /\ AbortedIsOver(run)
  BY <1>1, <1>2, <1>4 DEF Consistent, AbortedIsOver
<1>7. PICK now : now = [sdkRuns EXCEPT ![r] = run]
  OBVIOUS
<1>8. now \in [Runs -> SdkRun] /\ now[r] = run /\ \A q \in Runs : q # r => now[q] = sdkRuns[q]
  BY <1>1, <1>4, <1>7
<1>9. Planned(now) /\ Works(now) /\ \A q \in Runs : AbortedIsOver(now[q])
  BY <1>4, <1>5, <1>6, <1>8, OnePlanned
<1>10. sdkRuns' = now
  BY <1>5, <1>7
<1> QED BY <1>5, <1>9, <1>10, PlannedKeeps

LEMMA MessageKeeps ==
  ASSUME SdkInv, NEW r \in Runs, NEW reason \in {"stop", "aborted", "error"}, Sdk!MessageEnds(r, reason)
  PROVE  SdkInv' /\ SdkMoves
<1>1. sdkRuns \in [Runs -> SdkRun] /\ Consistent(sdkRuns[r]) /\ AbortedIsOver(sdkRuns[r])
  BY DEF SdkInv, SdkTyped, SdkRunsInv
<1>2. sdkRuns[r].prompt = "prompting"
  BY DEF Sdk!MessageEnds
<1>3. PICK last : last = IF openings[sdkRuns[r].owner].active = r THEN reason ELSE sdkRuns[r].last
  OBVIOUS
<1>4. last \in {"stop", "aborted", "error", "none"}
  BY <1>1, <1>3 DEF SdkRun
<1>5. sdkRuns[r].final = "none" => last = reason
  BY <1>1, <1>2, <1>3 DEF SdkInv, SdkRunsInv, ActiveInv, Consistent
<1>6. PICK run : run = [sdkRuns[r] EXCEPT !.said = reason, !.last = last]
  OBVIOUS
<1>7. /\ run \in SdkRun /\ run.said = reason /\ run.last = last /\ run.owner = sdkRuns[r].owner
      /\ run.final = sdkRuns[r].final /\ run.prompt = sdkRuns[r].prompt /\ run.abort = sdkRuns[r].abort
      /\ run.cancel = sdkRuns[r].cancel
  BY <1>1, <1>4, <1>6, ZenonT(60) DEF SdkRun
<1>8. /\ sdkRuns' = [sdkRuns EXCEPT ![r] = run]
      /\ UNCHANGED <<closed, openings, claimed, sdkSessions, natives, working>>
  BY <1>1, <1>3, <1>6 DEF Sdk!MessageEnds
<1>9. Consistent(run) /\ AbortedIsOver(run)
  BY <1>1, <1>2, <1>5, <1>7 DEF Consistent, AbortedIsOver
<1>10. PICK now : now = [sdkRuns EXCEPT ![r] = run]
  OBVIOUS
<1>11. now \in [Runs -> SdkRun] /\ now[r] = run /\ \A q \in Runs : q # r => now[q] = sdkRuns[q]
  BY <1>1, <1>7, <1>10
<1>12. Planned(now) /\ Works(now) /\ \A q \in Runs : AbortedIsOver(now[q])
  BY <1>7, <1>8, <1>9, <1>11, OnePlanned
<1>13. sdkRuns' = now
  BY <1>8, <1>10
<1> QED BY <1>8, <1>12, <1>13, PlannedKeeps

LEMMA SettlesKeeps ==
  ASSUME SdkInv, NEW r \in Runs, NEW ok \in BOOLEAN, Sdk!PromptSettles(r, ok)
  PROVE  SdkInv' /\ SdkMoves
<1> USE ConnectionsAssumption DEF Sdk!SdkAssumption
<1>1. /\ SdkTyped /\ sdkRuns \in [Runs -> SdkRun] /\ Consistent(sdkRuns[r]) /\ AbortedIsOver(sdkRuns[r]) /\ WorkInv
  BY DEF SdkInv, SdkTyped, SdkRunsInv
<1>2. PICK o : o = sdkRuns[r].owner
  OBVIOUS
<1>3. /\ sdkRuns[r].prompt = "prompting" /\ working' = [working EXCEPT ![o] = NoRun]
      /\ o # NoHandle /\ o \in Handles /\ openings[o].call = "made"
  BY <1>1, <1>2, Unplanned DEF Sdk!PromptSettles, Consistent
<1>4. ASSUME NEW prompt \in {"resolved", "rejected"}, NEW now, now = [sdkRuns EXCEPT ![r].prompt = prompt]
      PROVE  Planned(now) /\ Works(now) /\ \A q \in Runs : AbortedIsOver(now[q])
  <2>1. PICK run : run = [sdkRuns[r] EXCEPT !.prompt = prompt]
    OBVIOUS
  <2>2. /\ run \in SdkRun /\ run.said = sdkRuns[r].said /\ run.last = sdkRuns[r].last
        /\ run.owner = o /\ run.final = sdkRuns[r].final /\ run.prompt = prompt
        /\ run.abort = sdkRuns[r].abort /\ run.cancel = sdkRuns[r].cancel
    BY <1>1, <1>2, <2>1 DEF SdkRun
  <2>3. Consistent(run) /\ AbortedIsOver(run)
    BY <1>1, <1>2, <1>3, <2>2 DEF Consistent, AbortedIsOver
  <2>4. now = [sdkRuns EXCEPT ![r] = run]
    BY <1>1, <1>4, <2>1
  <2>5. /\ Planned(now) /\ now[r] = run /\ \A q \in Runs : q # r => now[q] = sdkRuns[q]
        /\ \A q \in Runs : AbortedIsOver(now[q])
    BY <1>1, <2>2, <2>4, <1>2, <2>3, OnePlanned
  <2>6. /\ working' \in [Handles -> Runs \cup {NoRun}] /\ working'[o] = NoRun
        /\ \A p \in Handles : p # o => working'[p] = working[p]
    BY <1>1, <1>3 DEF SdkTyped
  <2>7. working[o] = r
    BY <1>1, <1>2, <1>3 DEF WorkInv
  <2>8. ASSUME NEW p \in Handles, working'[p] # NoRun
        PROVE  now[working'[p]].owner = p /\ now[working'[p]].prompt = "prompting"
    BY <2>6, <2>8, <1>1, <1>2, <2>5 DEF WorkInv
  <2>9. ASSUME NEW q \in Runs, now[q].prompt = "prompting"
        PROVE  working'[now[q].owner] = q
    BY <2>2, <2>5, <2>9, <1>1, <2>7, Unplanned, <2>6 DEF WorkInv, SdkInv, SdkRunsInv, Consistent
  <2>10. \A p \in Handles : working'[p] \in {NoRun, working[p]}
    BY <2>6
  <2> QED BY <2>5, <2>6, <2>8, <2>9, <2>10 DEF Works
<1>5. CASE ok
  BY <1>5, <1>2, <1>3, <1>4, CompleteKeeps DEF Sdk!PromptSettles
<1>6. CASE ~ok
  BY <1>2, <1>6, <1>3, <1>4, ReleaseKeeps DEF Sdk!PromptSettles, Sdk!Fail
<1> QED BY <1>5, <1>6

LEMMA AbortKeeps ==
  ASSUME SdkInv, NEW r \in Runs, Sdk!AbortStep(r)
  PROVE  SdkInv' /\ SdkMoves
<1> USE ConnectionsAssumption DEF Sdk!SdkAssumption
<1>1. /\ sdkRuns \in [Runs -> SdkRun] /\ sdkRuns[r] \in SdkRun
      /\ Consistent(sdkRuns[r]) /\ AbortedIsOver(sdkRuns[r])
  BY DEF SdkInv, SdkTyped, SdkRunsInv
<1>2. PICK ok \in BOOLEAN : Sdk!AbortSettles(r, ok)
  BY DEF Sdk!AbortStep
<1>3. /\ sdkRuns[r].abort = "pending" /\ working' = working /\ sdkRuns[r].owner # NoHandle
      /\ sdkRuns[r].owner \in Handles /\ openings[sdkRuns[r].owner].call = "made" /\ sdkRuns[r].cancel # "none"
  BY <1>1, <1>2, Unplanned DEF Sdk!AbortSettles, Consistent
<1>4. CASE ok
  <2>1. PICK waits : waits = [sdkRuns[r] EXCEPT !.abort = "confirmed"]
    OBVIOUS
  <2>2. PICK cancel : cancel = IF sdkRuns[r].final # "none" THEN Sdk!CancelAfter(waits, sdkRuns[r].final)
                               ELSE sdkRuns[r].cancel
    OBVIOUS
  <2>3. waits.cancel = sdkRuns[r].cancel /\ waits.abort = "confirmed"
    BY <1>1, <2>1 DEF SdkRun
  <2>4. /\ cancel \in {"waiting", "native", "connection_aborted", "already_terminal"}
        /\ cancel = "native" => sdkRuns[r].final = "cancelled"
        /\ cancel = "connection_aborted" => sdkRuns[r].final # "none"
    BY <2>2, <2>3, <1>1, <1>3 DEF Sdk!CancelAfter, SdkRun, Consistent, AbortedIsOver
  <2>5. PICK run : run = [sdkRuns[r] EXCEPT !.abort = "confirmed", !.cancel = cancel]
    OBVIOUS
  <2>6. /\ run \in SdkRun /\ run.abort = "confirmed" /\ run.cancel = cancel /\ run.owner = sdkRuns[r].owner
        /\ run.final = sdkRuns[r].final /\ run.prompt = sdkRuns[r].prompt /\ run.last = sdkRuns[r].last
        /\ run.said = sdkRuns[r].said
    BY <1>1, <2>4, <2>5 DEF SdkRun
  <2>7. Consistent(run) /\ AbortedIsOver(run)
    BY <1>1, <1>3, <2>4, <2>6 DEF Consistent, AbortedIsOver
  <2>8. PICK now : now = [sdkRuns EXCEPT ![r] = run]
    OBVIOUS
  <2>9. now \in [Runs -> SdkRun] /\ now[r] = run /\ \A q \in Runs : q # r => now[q] = sdkRuns[q]
    BY <1>1, <2>6, <2>8
  <2>10. Planned(now) /\ Works(now) /\ \A q \in Runs : AbortedIsOver(now[q])
    BY <1>3, <2>6, <2>7, <2>9, OnePlanned
  <2>11. Sdk!Complete(r, now)
    <3>1. PICK confirmed : confirmed = [sdkRuns EXCEPT ![r].abort = "confirmed"]
      OBVIOUS
    <3>2. Sdk!Complete(r, IF sdkRuns[r].final # "none"
                          THEN [confirmed EXCEPT ![r].cancel = Sdk!CancelAfter(waits, sdkRuns[r].final)]
                          ELSE confirmed)
      BY <1>2, <1>4, <2>1, <3>1 DEF Sdk!AbortSettles, Sdk!Terminal
    <3>3. confirmed \in [Runs -> SdkRun] /\ confirmed[r] = waits /\ \A q \in Runs : q # r => confirmed[q] = sdkRuns[q]
      BY <1>1, <2>1, <3>1 DEF SdkRun
    <3>4. CASE sdkRuns[r].final # "none"
      <4>1. [confirmed EXCEPT ![r].cancel = cancel] = [confirmed EXCEPT ![r] = [waits EXCEPT !.cancel = cancel]]
        BY <3>3
      <4>2. [waits EXCEPT !.cancel = cancel] = run
        BY <1>1, <2>1, <2>5 DEF SdkRun
      <4>3. [confirmed EXCEPT ![r] = run] = now
        BY <1>1, <2>8, <2>9, <3>3
      <4>4. cancel = Sdk!CancelAfter(waits, sdkRuns[r].final)
        BY <2>2, <3>4
      <4> QED BY <3>2, <3>4, <4>1, <4>2, <4>3, <4>4
    <3>5. CASE sdkRuns[r].final = "none"
      <4>1. run = waits
        BY <1>1, <2>1, <2>2, <2>5, <3>5 DEF SdkRun
      <4>2. now = confirmed
        BY <1>1, <2>9, <3>3, <4>1
      <4> QED BY <3>2, <3>5, <4>2
    <3> QED BY <3>4, <3>5
  <2> QED BY <1>3, <2>10, <2>11, CompleteKeeps
<1>5. CASE ~ok
  <2>1. PICK run : run = [sdkRuns[r] EXCEPT !.abort = "failed", !.cancel = "connection_aborted"]
    OBVIOUS
  <2>2. /\ run \in SdkRun /\ run.abort = "failed" /\ run.cancel = "connection_aborted"
        /\ run.owner = sdkRuns[r].owner /\ run.final = sdkRuns[r].final /\ run.prompt = sdkRuns[r].prompt
        /\ run.last = sdkRuns[r].last /\ run.said = sdkRuns[r].said
    BY <1>1, <2>1 DEF SdkRun
  <2>3. Consistent(run)
    BY <1>1, <1>3, <2>2 DEF Consistent
  <2>4. PICK now : now = [sdkRuns EXCEPT ![r] = run]
    OBVIOUS
  <2>5. now \in [Runs -> SdkRun] /\ now[r] = run /\ \A q \in Runs : q # r => now[q] = sdkRuns[q]
    BY <1>1, <2>2, <2>4
  <2>6. Planned(now) /\ Works(now)
    BY <1>3, <2>2, <2>3, <2>5, OnePlanned
  <2>7. \A q \in Runs : AbortedIsOver(now[q]) \/ now[q].owner \in {sdkRuns[r].owner}
    BY Unplanned, <2>2, <2>5
  <2>8. Sdk!Release({sdkRuns[r].owner}, now, "connection_aborted")
    BY <1>2, <1>5, <1>1, <2>1, <2>4 DEF Sdk!AbortSettles, Sdk!Disconnect, SdkRun
  <2> QED BY <1>3, <2>6, <2>7, <2>8, ReleaseKeeps
<1> QED BY <1>4, <1>5

LEMMA PromptsKeeps ==
  ASSUME SdkInv, NEW r \in Runs, Sdk!Prompts(r)
  PROVE  SdkInv' /\ SdkMoves
<1> USE ConnectionsAssumption DEF Sdk!SdkAssumption
<1>1. /\ SdkTyped /\ sdkRuns \in [Runs -> SdkRun] /\ sdkRuns[r] \in SdkRun /\ ActiveInv /\ WorkInv
      /\ Consistent(sdkRuns[r]) /\ AbortedIsOver(sdkRuns[r]) /\ \A q \in Runs : AbortedIsOver(sdkRuns[q])
  BY DEF SdkInv, SdkTyped, SdkRunsInv
<1>2. PICK o : o = sdkRuns[r].owner
  OBVIOUS
<1>3. /\ sdkRuns[r].prompt = "queued" /\ UNCHANGED <<closed, openings, claimed, sdkSessions, natives>>
      /\ o # NoHandle /\ o \in Handles /\ openings[o].call = "made"
  BY <1>1, <1>2, Unplanned DEF Sdk!Prompts, Consistent
<1>4. ASSUME NEW prompt \in {"resolved", "prompting"}, sdkRuns' = [sdkRuns EXCEPT ![r].prompt = prompt]
      PROVE  /\ sdkRuns' \in [Runs -> SdkRun] /\ \A q \in Runs : q # r => sdkRuns'[q] = sdkRuns[q]
             /\ sdkRuns'[r].owner = o /\ sdkRuns'[r].final = sdkRuns[r].final /\ sdkRuns'[r].prompt = prompt
             /\ Consistent(sdkRuns'[r]) /\ AbortedIsOver(sdkRuns'[r])
             /\ Planned(sdkRuns') /\ \A q \in Runs : AbortedIsOver(sdkRuns'[q])
  <2>1. PICK run : run = [sdkRuns[r] EXCEPT !.prompt = prompt]
    OBVIOUS
  <2>2. /\ run \in SdkRun /\ run.said = sdkRuns[r].said /\ run.last = sdkRuns[r].last
        /\ run.owner = o /\ run.final = sdkRuns[r].final /\ run.prompt = prompt
        /\ run.abort = sdkRuns[r].abort /\ run.cancel = sdkRuns[r].cancel
    BY <1>1, <1>2, <2>1 DEF SdkRun
  <2>3. Consistent(run) /\ AbortedIsOver(run)
    BY <1>1, <1>2, <1>3, <2>2 DEF Consistent, AbortedIsOver
  <2>4. sdkRuns' = [sdkRuns EXCEPT ![r] = run]
    BY <1>1, <1>4, <2>1
  <2>5. PICK now : now = sdkRuns'
    OBVIOUS
  <2>6. now \in [Runs -> SdkRun] /\ now[r] = run /\ \A q \in Runs : q # r => now[q] = sdkRuns[q]
    BY <1>1, <2>2, <2>4, <2>5
  <2>7. Planned(now) /\ \A q \in Runs : AbortedIsOver(now[q])
    BY <1>2, <2>2, <2>3, <2>6, OnePlanned
  <2> QED BY <2>2, <2>3, <2>5, <2>6, <2>7
<1>5. CASE sdkRuns[r].final # "none"
  BY <1>5, <1>2, <1>3, <1>4, <1>1, PlannedKeeps DEF Sdk!Prompts, Sdk!Terminal, Works, WorkInv, SdkTyped
<1>6. CASE sdkRuns[r].final = "none"
  BY <1>2, <1>6, <1>1, <1>3, <1>4, SessionsRest, Unplanned
     DEF Sdk!Prompts, Sdk!Terminal, ActiveInv, SdkInv, OpeningInv, SdkTyped, WorkInv, Planned, SdkOpening, SdkRunsInv,
        Consistent, SdkMoves
<1> QED BY <1>5, <1>6

LEMMA SdkStartKeeps ==
  ASSUME SdkInv, NEW r \in Runs, NEW o \in Handles, Sdk!StartRun(r, o)
  PROVE  SdkInv' /\ SdkMoves
<1> USE ConnectionsAssumption DEF Sdk!SdkAssumption
<1>1. /\ SdkTyped /\ sdkRuns[r] \in SdkRun /\ openings[o] \in SdkOpening /\ ActiveInv /\ WorkInv /\ OpeningInv
      /\ \A q \in Runs : Consistent(sdkRuns[q]) /\ AbortedIsOver(sdkRuns[q])
  BY DEF SdkInv, SdkTyped, SdkRunsInv
<1>2. /\ sdkRuns[r].owner = NoHandle /\ openings[o].call = "made" /\ ~openings[o].closed
      /\ openings[o].active = NoRun /\ working[o] = NoRun /\ o # NoHandle /\ r # NoRun
      /\ UNCHANGED <<closed, claimed, sdkSessions, natives, working>> /\ o \in sdkSessions
  BY <1>1 DEF Sdk!StartRun, OpeningInv
<1>3. PICK run : run = [sdkRuns[r] EXCEPT !.owner = o, !.prompt = "queued"]
  OBVIOUS
<1>4. /\ run \in SdkRun /\ run.owner = o /\ run.prompt = "queued" /\ run.final = sdkRuns[r].final
      /\ run.last = sdkRuns[r].last /\ run.said = sdkRuns[r].said
      /\ run.abort = sdkRuns[r].abort /\ run.cancel = sdkRuns[r].cancel
  BY <1>1, <1>3 DEF SdkRun
<1>5. Consistent(run) /\ AbortedIsOver(run) /\ run.final = "none"
  BY <1>1, <1>2, <1>4 DEF Consistent, AbortedIsOver
<1>6. /\ sdkRuns' \in [Runs -> SdkRun] /\ sdkRuns'[r] = run /\ \A q \in Runs : q # r => sdkRuns'[q] = sdkRuns[q]
  BY <1>1, <1>3, <1>4 DEF Sdk!StartRun, SdkTyped
<1>7. PICK used : used = [openings[o] EXCEPT !.active = r]
  OBVIOUS
<1>8. /\ used \in SdkOpening /\ used.active = r /\ used.call = openings[o].call
      /\ used.factory = openings[o].factory /\ used.aborted = openings[o].aborted
      /\ used.native = openings[o].native /\ used.closed = openings[o].closed
  BY <1>1, <1>7 DEF SdkOpening
<1>9. /\ openings' \in [Handles -> SdkOpening] /\ openings'[o] = used
      /\ \A p \in Handles : p # o => openings'[p] = openings[p]
  BY <1>1, <1>7, <1>8 DEF Sdk!StartRun, SdkTyped
<1>10. OpeningInv' /\ NativeInv' /\ LimitInv'
  BY <1>2, <1>8, <1>9, SessionsRest
<1>11. SdkTyped'
  BY <1>1, <1>2, <1>6, <1>9 DEF SdkTyped
<1>12. ActiveInv'
  <2>1. ASSUME NEW q \in Runs, sdkRuns'[q].owner # NoHandle
        PROVE  /\ openings'[sdkRuns'[q].owner].call = "made"
               /\ sdkRuns'[q].final = "none" => openings'[sdkRuns'[q].owner].active = q
    BY <1>2, <1>4, <1>6, <1>8, <1>9, <1>1, <2>1 DEF SdkTyped, SdkRun, ActiveInv
  <2>2. ASSUME NEW p \in Handles, openings'[p].active # NoRun
        PROVE  sdkRuns'[openings'[p].active].owner = p /\ sdkRuns'[openings'[p].active].final = "none"
    BY <1>4, <1>5, <1>6, <1>8, <1>9, <1>1, <2>2, <1>2 DEF SdkTyped, SdkOpening, ActiveInv
  <2> QED BY <2>1, <2>2 DEF ActiveInv
<1>13. WorkInv'
  BY <1>1, <1>2, <1>6, <1>4, <1>9 DEF Consistent, SdkTyped, WorkInv
<1>14. SdkMoves
  BY <1>1, <1>2, <1>4, <1>5, <1>6 DEF SdkMoves, Consistent
<1> QED BY <1>1, <1>5, <1>6, <1>10, <1>11, <1>12, <1>13, <1>14 DEF SdkInv, SdkRunsInv

LEMMA SdkInvStep == SdkInv /\ [Sdk!SdkNext]_(Sdk!sdkVars) => SdkInv' /\ SdkMoves
<1> SUFFICES ASSUME SdkInv, [Sdk!SdkNext]_(Sdk!sdkVars) PROVE SdkInv' /\ SdkMoves
  OBVIOUS
<1>1. CASE UNCHANGED Sdk!sdkVars
  BY <1>1, Unplanned, PlannedKeeps DEF Sdk!sdkVars
<1>2. CASE Sdk!Close
  BY <1>2, SdkCloseKeeps
<1>3. ASSUME NEW o \in Handles,
             \/ Sdk!Create(o) \/ Sdk!GivesUp(o) \/ Sdk!FactoryFails(o) \/ Sdk!CloseSession(o)
             \/ \E n \in Sessions, idle \in BOOLEAN : Sdk!FactoryReturns(o, n, idle)
      PROVE  SdkInv' /\ SdkMoves
  BY <1>3, CreateKeeps, CallsKeep, FactoryKeeps, SessionClosedKeeps
<1>4. ASSUME NEW r \in Runs,
             \/ Sdk!TimerFires(r) \/ Sdk!CancelGivesUp(r) \/ \E ok \in BOOLEAN : Sdk!EventFails(r, ok)
             \/ \E ok \in BOOLEAN : Sdk!PromptSettles(r, ok)
      PROVE  SdkInv' /\ SdkMoves
  BY <1>4, LostKeeps, SettlesKeeps
<1>5. ASSUME NEW r \in Runs,
             \/ \E o \in Handles : Sdk!StartRun(r, o)
             \/ Sdk!Prompts(r) \/ Sdk!Cancel(r) \/ Sdk!AbortStep(r)
             \/ \E reason \in {"stop", "aborted", "error"} : Sdk!MessageEnds(r, reason)
      PROVE  SdkInv' /\ SdkMoves
  BY <1>5, SdkStartKeeps, PromptsKeeps, SdkCancelKeeps, AbortKeeps, MessageKeeps
<1>6. CASE Sdk!SdkNext
  BY <1>6, <1>2, <1>3, <1>4, <1>5 DEF Sdk!SdkNext, Sdk!StopReasons
<1> QED BY <1>1, <1>6

LEMMA SdkInvImplies == SdkInv => SdkSound
<1> SUFFICES ASSUME SdkInv PROVE SdkSound
  OBVIOUS
<1>1. SdkTyped /\ OpeningInv /\ NativeInv /\ LimitInv /\ ActiveInv /\ WorkInv
      /\ \A r \in Runs : Consistent(sdkRuns[r]) /\ AbortedIsOver(sdkRuns[r])
  BY DEF SdkInv, SdkRunsInv
<1>2. Sdk!SdkTypeOK
  BY <1>1 DEF Sdk!SdkTypeOK, SdkTyped, SdkOpening, SdkRun, Sdk!Terminals, Sdk!StopReasons, SdkEnds
<1>3. Sdk!NativesOwned
  BY <1>1, SameCardinality, <1>2 DEF NativeInv, OpeningInv, SdkTyped, WorkInv, LimitInv, Sdk!NativesOwned
<1>4. Sdk!SdkEndsTruthful
  BY <1>1 DEF Sdk!SdkEndsTruthful, Sdk!Terminal, Consistent, AbortedIsOver
<1> QED BY <1>3, <1>4 DEF SdkSound

(* Whatever factories and natives of the host do, in whatever order calls, prompts and aborts settle *)
(* and are given up: a native is disposed of or belongs to one open Session, which the Client        *)
(* closes with itself; and a Run is completed or cancelled only as its prompt and its abort said.    *)
THEOREM SdkIsSound == Sdk!SdkSpec => []SdkSound
<1>1. Sdk!SdkSpec => []SdkInv
  BY SdkInitHolds, SdkInvStep, PTL DEF Sdk!SdkSpec
<1> QED BY <1>1, SdkInvImplies, PTL

(* The Runs of the embedded SDK as the contract sees them. *)
SdkStatusOf(r) ==
  IF sdkRuns[r].owner = NoHandle THEN "none" ELSE IF sdkRuns[r].final # "none" THEN sdkRuns[r].final ELSE "active"

LEMMA SdkRefines ==
  ASSUME SdkInv, SdkInv', SdkMoves
  PROVE  Sdk!SdkContract!Next
<1>1. ASSUME NEW r \in Runs
      PROVE  /\ SdkStatusOf(r)' \in {"none", "active"} \cup SdkEnds
             /\ SdkStatusOf(r) = "none" => SdkStatusOf(r)' \in {"none", "active"}
             /\ SdkStatusOf(r) = "active" => SdkStatusOf(r)' \in {"active"} \cup SdkEnds
             /\ SdkStatusOf(r) \in SdkEnds => SdkStatusOf(r)' = SdkStatusOf(r)
             /\ SdkStatusOf(r) \in {"none", "active"} \cup SdkEnds
  BY DEF SdkInv, SdkTyped, SdkRunsInv, Consistent, SdkMoves, SdkStatusOf, SdkRun, SdkEnds
<1>2. \A r \in Runs : Sdk!SdkContract!RunStep(r)
  <2> TAKE r \in Runs
  <2>1. \/ SdkStatusOf(r) = "none" /\ SdkStatusOf(r)' = "active"
        \/ SdkStatusOf(r) = "active" /\ SdkStatusOf(r)' \in {"active"} \cup SdkEnds
        \/ SdkStatusOf(r)' = SdkStatusOf(r)
    BY <1>1
  <2> QED BY <2>1 DEF SdkStatusOf, Sdk!Terminal, Sdk!SdkContract!RunStep, Sdk!SdkContract!Start,
                      Sdk!SdkContract!Progress, Sdk!SdkContract!Settle, Sdk!SdkContract!Rest,
                      Sdk!SdkContract!Reports, Sdk!SdkContract!Silent, Sdk!SdkContract!RunStatus, SdkEnds
<1>3. \A r \in Runs : SdkStatusOf(r)' \in {"none", "active"} \cup Sdk!SdkContract!RunStatus
  BY <1>1 DEF Sdk!SdkContract!RunStatus, SdkEnds
<1> QED BY <1>2, <1>3 DEF Sdk!SdkContract!Next, SdkStatusOf, Sdk!Terminal

LEMMA SdkImplements == Sdk!SdkSpec => Sdk!SdkImplementsRunContract
<1>1. Sdk!SdkInit => Sdk!SdkContract!Init
  BY DEF Sdk!SdkInit, Sdk!SdkContract!Init
<1>2. SdkInv /\ SdkInv' /\ [Sdk!SdkNext]_(Sdk!sdkVars) => [Sdk!SdkContract!Next]_(Sdk!SdkContract!runVars)
  BY SdkInvStep, SdkRefines
<1> QED BY <1>1, <1>2, SdkInitHolds, SdkInvStep, PTL
        DEF Sdk!SdkSpec, Sdk!SdkImplementsRunContract, Sdk!SdkContract!Spec

-------------------------------------------------------------------------------
(* The client over RPC processes. *)

PiHandle ==
  [at : Unfinished \cup {"free", "made", "refused", "disowned"}, kind : {"none", "create", "resume", "fork"},
   source : Sessions \cup {NoSession}, session : Sessions \cup {NoSession}, active : Runs \cup {NoRun},
   closed : BOOLEAN, aborted : BOOLEAN, forced : {"none", "waiting", "ok", "failed"}]

PiRun ==
  [start : {"idle", "started"}, owner : Handles \cup {NoHandle}, result : Terminals \cup {"none"},
   incompatible : BOOLEAN, prompt : Requests, abort : Requests, acknowledged : BOOLEAN, settled : BOOLEAN,
   last : StopReasons \cup {"none"}, confirmed : BOOLEAN, timedOut : BOOLEAN,
   cancel : {"none", "aborting", "settling", "native", "connection_aborted", "already_terminal"},
   requested : SUBSET (1..MaxDialogs), resolved : SUBSET (1..MaxDialogs)]

Commands == [type : {"prompt", "abort"}, run : Runs]

TablesTyped ==
  /\ client \in {"none", "probing", "failed", "open", "closed"} /\ closing \in {"none", "waiting", "ok", "failed"}
  /\ openingSessions \subseteq Handles /\ forkingSessions \subseteq created /\ created \subseteq Sessions
  /\ sessions \in [Sessions -> Handles \cup {NoHandle}]

ConnectionsTyped ==
  /\ handles \in [Handles -> PiHandle]
  /\ peers \in [Handles -> {"none", "open", "closing", "gone", "stuck"}]
  /\ reads \in [Handles -> 0..MaxPendingRequests] /\ abandoned \in [Handles -> 0..MaxPendingRequests]

Started == {r \in Runs : runs[r].start = "started"}

RunsTyped == runs \in [Runs -> PiRun] /\ IsFiniteSet(Started)

ProcessesTyped ==
  /\ commands \in [Handles -> Seq(Commands)] /\ remote \in [Handles -> Runs \cup {NoRun}]
  /\ said \in [Runs -> StopReasons \cup {"none"}]

DialogsTyped ==
  /\ dialogs \in Seq(Runs) /\ Len(dialogs) <= MaxDialogs /\ pendingInteractions \subseteq 1..Len(dialogs)
  /\ responses \in [1..MaxDialogs -> {"none", "sending", "ok", "error"}]

Asking == {"get_state", "clone", "child get_state"}

(* An opening, and the Session that came of it, with its process. *)
Sane(handle, peer) ==
  /\ handle.at \in {"free", "spawn"} => peer = "none"
  /\ handle.at \in Asking => peer = "open"
  /\ handle.at \in {"cleanup", "terminating"} => peer = "closing"
  /\ handle.at \in {"refused", "disowned"} => peer \in {"none", "gone", "stuck"}
  /\ handle.at = "made" => /\ peer # "none" /\ handle.session # NoSession
                           /\ peer # "open" => handle.aborted
  /\ handle.aborted => peer \notin {"none", "open"}
  /\ handle.closed <=> handle.forced # "none"
  /\ handle.closed => handle.aborted /\ handle.at = "made"
  /\ handle.forced = "waiting" => peer = "closing"
  /\ handle.forced = "ok" => peer = "gone"
  /\ handle.forced = "failed" => peer = "stuck"
  /\ handle.active # NoRun => handle.at = "made" /\ peer = "open"

SaneInv ==
  /\ \A h \in Handles : Sane(handles[h], peers[h])
  /\ \A h \in Handles : reads[h] # 0 => handles[h].at = "made"

(* Who keeps a process, and which Sessions are used by one of them alone. *)
OwnInv ==
  /\ \A s \in Sessions : sessions[s] # NoHandle => handles[sessions[s]].at = "made" /\ handles[sessions[s]].session = s
  /\ \A h \in Handles : (handles[h].at = "made" /\ peers[h] # "gone") => sessions[handles[h].session] = h
  /\ \A h \in Handles : (handles[h].at \in Unfinished \/ (handles[h].at = "refused" /\ peers[h] = "stuck"))
       => h \in openingSessions

Forks(h) == handles[h].kind = "fork" /\ handles[h].at \in Unfinished

ForkInv ==
  /\ \A h \in Handles : Forks(h) => handles[h].source \in forkingSessions
  /\ \A g, h \in Handles : (g # h /\ Forks(g) /\ Forks(h)) => handles[g].source # handles[h].source
  /\ \A h \in Handles : handles[h].active # NoRun => handles[h].session \notin forkingSessions

(* close() *)
CloseInv ==
  /\ closing # "none" => client = "closed"
  /\ client = "closed" => \A h \in Handles : /\ handles[h].at \notin Asking
                                             /\ h \in Open => handles[h].forced # "none"
  /\ closing = "ok" => /\ openingSessions = {}
                       /\ \A h \in Handles : handles[h].at = "disowned" \/ peers[h] \in {"none", "gone"}

(* A Run, and how its agent said that its last message ended. *)
Honest(run, word) ==
  /\ run.start = "idle" => /\ run.owner = NoHandle /\ run.result = "none" /\ run.prompt = "none" /\ run.abort = "none"
                           /\ ~run.settled /\ run.cancel = "none" /\ run.requested = {}
  /\ run.start = "started" => run.owner # NoHandle /\ run.prompt # "none"
  /\ run.result = "none" => run.last = word
  /\ run.acknowledged => run.prompt = "done"
  /\ run.confirmed => run.abort = "done"
  /\ run.cancel = "none" => run.abort = "none"
  /\ run.result = "completed" => run.settled /\ word = "stop"
  /\ run.result = "cancelled" => run.settled /\ word = "aborted" /\ run.confirmed
  /\ (run.result = "failed" /\ run.acknowledged /\ ~run.incompatible) => run.settled /\ word # "stop"
  /\ run.cancel = "native" => run.result = "cancelled"
  /\ run.resolved \subseteq run.requested

Concluded(run) ==
  /\ run.cancel \in {"already_terminal", "connection_aborted"} => run.result # "none"
  /\ run.result # "none" => run.prompt = "done"

RunInv ==
  /\ \A r \in Runs : Honest(runs[r], said[r]) /\ Concluded(runs[r])
  /\ \A r \in Runs : runs[r].start = "started" =>
       /\ handles[runs[r].owner].at = "made"
       /\ runs[r].result = "none" => handles[runs[r].owner].active = r
       /\ runs[r].result = "connection_aborted" => peers[runs[r].owner] # "open"
  /\ \A h \in Handles : handles[h].active # NoRun =>
       /\ runs[handles[h].active].start = "started" /\ runs[handles[h].active].owner = h
       /\ runs[handles[h].active].result = "none"

(* What a process is to do and does: the prompt of the active Run, and its work on it, once. *)
PromptsAt(h) == {i \in 1..Len(commands[h]) : commands[h][i].type = "prompt"}

AgentInv ==
  \A h \in Handles :
    /\ handles[h].at # "made" => commands[h] = <<>> /\ remote[h] = NoRun
    /\ remote[h] # NoRun => runs[remote[h]].owner = h /\ ~runs[remote[h]].settled
    /\ \A i \in PromptsAt(h) : runs[commands[h][i].run].owner = h /\ ~runs[commands[h][i].run].settled
    /\ (peers[h] = "open" /\ remote[h] # NoRun) =>
         handles[h].active = remote[h] /\ runs[remote[h]].prompt \in {"taken", "done"}
    /\ peers[h] = "open" =>
         /\ \A i \in PromptsAt(h) :
              handles[h].active = commands[h][i].run /\ runs[commands[h][i].run].prompt = "sent"
         /\ \A i, j \in PromptsAt(h) : i = j

(* Dialogs are asked by the Run they belong to, and are open while it is. *)
DialogInv ==
  /\ \A n \in pendingInteractions : runs[dialogs[n]].result = "none" /\ n \in runs[dialogs[n]].requested
  /\ \A n \in 1..MaxDialogs : responses[n] # "none" => n <= Len(dialogs) /\ n \in runs[dialogs[n]].requested

ConnectionInv == TablesTyped /\ ConnectionsTyped /\ SaneInv /\ OwnInv /\ ForkInv /\ CloseInv

WorkingInv == RunsTyped /\ ProcessesTyped /\ DialogsTyped /\ RunInv /\ AgentInv /\ DialogInv

PiInv == ConnectionInv /\ WorkingInv

LEMMA PiInitHolds == Init => PiInv
<1> SUFFICES ASSUME Init PROVE PiInv
  OBVIOUS
<1> USE NullAssumption, LimitAssumption DEF Init
<1>1. TablesTyped
  BY DEF TablesTyped
<1>2. ConnectionsTyped
  BY DEF PiHandle, Unfinished, ConnectionsTyped
<1>3. RunsTyped
  BY FS_EmptySet DEF PiRun, Requests, Started, RunsTyped
<1>4. ProcessesTyped
  BY DEF ProcessesTyped
<1>5. DialogsTyped
  BY DEF DialogsTyped
<1>6. SaneInv
  BY DEF SaneInv, Sane, Asking
<1>7. OwnInv /\ ForkInv
  BY DEF OwnInv, ForkInv, Forks, Unfinished
<1>8. CloseInv
  BY DEF CloseInv
<1>9. RunInv
  BY DEF RunInv, Honest, Concluded
<1>10. AgentInv
  BY DEF AgentInv, PromptsAt
<1>11. DialogInv
  BY DEF DialogInv
<1> QED BY <1>1, <1>2, <1>3, <1>4, <1>5, <1>6, <1>7, <1>8, <1>9, <1>10, <1>11 DEF PiInv, ConnectionInv, WorkingInv

LEMMA PiInvImplies == PiInv => PiSound
<1> SUFFICES ASSUME PiInv PROVE PiSound
  OBVIOUS
<1> USE NullAssumption, LimitAssumption
<1>1. /\ TablesTyped /\ ConnectionsTyped /\ SaneInv /\ OwnInv /\ ForkInv /\ CloseInv
      /\ RunsTyped /\ ProcessesTyped /\ DialogsTyped /\ RunInv /\ AgentInv /\ DialogInv
  BY DEF PiInv, ConnectionInv, WorkingInv
<1>2. TypeOK
  BY <1>1 DEF ConnectionsTyped, RunsTyped, TypeOK, PiHandle, PiRun, TablesTyped, ProcessesTyped, DialogsTyped, Commands
<1>3. \A h \in Handles : handles[h] \in PiHandle /\ Sane(handles[h], peers[h])
  BY <1>1 DEF ConnectionsTyped, SaneInv
<1>4. SessionsExclusive
  <2>1. ASSUME NEW h \in Handles
        PROVE  /\ (remote[h] # NoRun /\ peers[h] = "open") => handles[h].active = remote[h]
               /\ handles[h].active # NoRun => peers[h] = "open" /\ handles[h].session \notin forkingSessions
    BY <1>1, <1>3 DEF AgentInv, Sane, ForkInv
  <2>2. ASSUME NEW h \in Handles, handles[h].kind = "fork", handles[h].at \in {"clone", "child get_state"},
               NEW g \in Handles, InSession(g), handles[g].session = handles[h].source, peers[g] # "gone"
        PROVE  (remote[g] = NoRun /\ Usable(g)) \/ handles[g].aborted
    BY <1>1, <2>2, <1>3, <2>1 DEF ForkInv, Forks, Unfinished, Sane, InSession, Usable
  <2>3. ASSUME NEW h \in Handles, NEW g \in Handles \ {h}, InSession(g), InSession(h),
               handles[g].session = handles[h].session
        PROVE  "gone" \in {peers[g], peers[h]}
    BY <1>1, <2>3 DEF InSession, OwnInv
  <2>4. \A n \in pendingInteractions : ~Terminal(dialogs[n])
    BY <1>1 DEF DialogInv, Terminal
  <2> QED BY <1>2, <2>1, <2>2, <2>3, <2>4 DEF SessionsExclusive
<1>5. ProcessesOwned
  BY <1>3, <1>1 DEF PiHandle, OwnInv, Sane, Open, ProcessesOwned, CloseInv
<1>6. EndsTruthful
  BY <1>1 DEF EndsTruthful, RunInv, RunsTyped, Honest, PiRun, Concluded, Terminal
<1> QED BY <1>4, <1>5, <1>6 DEF PiSound

LEMMA PiTyped ==
  ASSUME PiInv
  PROVE  /\ TablesTyped /\ ConnectionsTyped /\ SaneInv /\ OwnInv /\ ForkInv /\ CloseInv
         /\ RunsTyped /\ ProcessesTyped /\ DialogsTyped /\ RunInv /\ AgentInv /\ DialogInv
         /\ handles \in [Handles -> PiHandle] /\ runs \in [Runs -> PiRun]
         /\ \A h \in Handles : handles[h] \in PiHandle /\ Sane(handles[h], peers[h])
         /\ \A r \in Runs : runs[r] \in PiRun /\ Honest(runs[r], said[r]) /\ Concluded(runs[r])
BY DEF PiInv, ConnectionInv, WorkingInv, ConnectionsTyped, RunsTyped, SaneInv, RunInv

(* A connection goes on or is being ended, and its Session is what it was.                           *)
Kept(h) ==
  /\ Sane(handles'[h], peers'[h])
  /\ handles'[h].at = handles[h].at /\ handles'[h].kind = handles[h].kind
  /\ handles'[h].source = handles[h].source /\ handles'[h].session = handles[h].session
  /\ handles'[h].forced = handles[h].forced
  /\ handles'[h].active \in {NoRun, handles[h].active} \/ handles[h].session \notin forkingSessions
  /\ peers'[h] = peers[h] \/ (peers[h] = "open" /\ peers'[h] = "closing")

LEMMA ConnectionsKeep ==
  ASSUME PiInv, UNCHANGED opening, handles' \in [Handles -> PiHandle],
         peers' \in [Handles -> {"none", "open", "closing", "gone", "stuck"}],
         \A h \in Handles : Kept(h) /\ (reads'[h] # 0 => reads[h] # 0 \/ handles[h].at = "made"),
         reads' \in [Handles -> 0..MaxPendingRequests], abandoned' \in [Handles -> 0..MaxPendingRequests]
  PROVE  ConnectionInv'
<1>1. /\ TablesTyped /\ SaneInv /\ OwnInv /\ ForkInv /\ CloseInv
      /\ UNCHANGED <<client, closing, openingSessions, forkingSessions, sessions, created>>
  BY PiTyped DEF opening
<1>2. TablesTyped'
  BY <1>1 DEF TablesTyped
<1>3. ConnectionsTyped' /\ SaneInv'
  BY <1>1 DEF ConnectionsTyped, SaneInv, Kept
<1>4. OwnInv'
  BY <1>1 DEF Kept, TablesTyped, OwnInv
<1>5. ForkInv'
  BY <1>1 DEF Kept, ForkInv, Forks
<1>6. CloseInv'
  BY <1>1 DEF Kept, Open, CloseInv
<1> QED BY <1>2, <1>3, <1>4, <1>5, <1>6 DEF ConnectionInv

(* What a step may make of a Run. *)
Moved(r) ==
  /\ runs[r].start = "started" => runs'[r].start = "started" /\ runs'[r].owner = runs[r].owner
  /\ runs[r].start = "idle" => runs'[r].result = "none"
  /\ runs[r].result # "none" => runs'[r].result = runs[r].result
  /\ (runs[r].start = "started" /\ runs[r].result = "none") =>
       runs[r].requested \subseteq runs'[r].requested /\ runs[r].resolved \subseteq runs'[r].resolved
  /\ ~(runs[r].start = "started" /\ runs[r].result = "none") =>
       runs'[r].requested = runs[r].requested /\ runs'[r].resolved = runs[r].resolved

PiMoves == \A r \in Runs : Moved(r)

LEMMA RunsKeep ==
  ASSUME PiInv, runs' \in [Runs -> PiRun],
         \A r \in Runs : /\ runs'[r].start = runs[r].start /\ runs'[r].owner = runs[r].owner
                         /\ runs[r].result # "none" => runs'[r].result = runs[r].result
                         /\ Honest(runs'[r], said'[r]) /\ Concluded(runs'[r]),
         \A h \in Handles : /\ handles[h].at = "made" => handles'[h].at = "made"
                            /\ handles'[h].active \in {NoRun, handles[h].active}
                            /\ handles[h].at = "made" /\ peers'[h] = "open" => peers[h] = "open",
         \A r \in Runs : (runs[r].start = "started" /\ runs'[r].result = "none") =>
                           handles'[runs[r].owner].active = r,
         \A r \in Runs : (runs[r].result = "none" /\ runs'[r].result = "connection_aborted") =>
                           peers'[runs[r].owner] # "open",
         \A h \in Handles : handles'[h].active # NoRun => runs'[handles'[h].active].result = "none"
  PROVE  RunsTyped' /\ RunInv'
<1>1. RunsTyped /\ RunInv /\ ConnectionsTyped /\ \A r \in Runs : runs[r] \in PiRun /\ Honest(runs[r], said[r])
  BY PiTyped
<1>2. RunsTyped'
  <2>1. Started' = Started
    BY DEF Started
  <2> QED BY <1>1, <2>1 DEF RunsTyped
<1>3. ASSUME NEW r \in Runs, runs'[r].start = "started"
      PROVE  /\ handles'[runs'[r].owner].at = "made"
             /\ runs'[r].result = "none" => handles'[runs'[r].owner].active = r
             /\ runs'[r].result = "connection_aborted" => peers'[runs'[r].owner] # "open"
  BY <1>1, <1>3 DEF Honest, PiRun, RunInv
<1>4. ASSUME NEW h \in Handles, handles'[h].active # NoRun
      PROVE  /\ runs'[handles'[h].active].start = "started" /\ runs'[handles'[h].active].owner = h
             /\ runs'[handles'[h].active].result = "none"
  BY <1>1, <1>4 DEF ConnectionsTyped, PiHandle, RunInv
<1> QED BY <1>2, <1>3, <1>4 DEF RunInv

LEMMA AgentsMove ==
  ASSUME PiInv,
         \A h \in Handles : /\ PromptsAt(h)' = PromptsAt(h)
                            /\ \A i \in PromptsAt(h) : commands'[h][i].run = commands[h][i].run
                            /\ handles[h].at # "made" => commands'[h] = <<>>,
         \A h \in Handles : remote'[h] \in {NoRun, remote[h]},
         \A h \in Handles : /\ handles[h].at = "made" => handles'[h].at = "made"
                            /\ handles[h].at = "made" /\ peers'[h] = "open" => peers[h] = "open"
                            /\ (handles[h].at = "made" /\ peers'[h] = "open") =>
                                 \/ handles'[h].active = handles[h].active
                                 \/ remote'[h] = NoRun /\ PromptsAt(h) = {},
         \A r \in Runs : /\ runs[r].start = "started" => runs'[r].owner = runs[r].owner
                         /\ runs'[r].settled => \/ runs[r].settled
                                                \/ /\ runs[r].start = "started"
                                                   /\ remote'[runs[r].owner] = NoRun /\ PromptsAt(runs[r].owner) = {}
                         /\ \/ runs'[r].prompt = runs[r].prompt
                            \/ peers'[runs[r].owner] # "open"
                            \/ runs'[r].prompt = "done" /\ runs[r].prompt \in {"taken", "declined", "capacity"}
  PROVE  AgentInv'
<1>1. AgentInv /\ ProcessesTyped /\ \A r \in Runs : runs[r] \in PiRun /\ Honest(runs[r], said[r])
  BY PiTyped
<1>2. SUFFICES ASSUME NEW h \in Handles
      PROVE  (/\ handles[h].at # "made" => commands[h] = <<>> /\ remote[h] = NoRun
              /\ remote[h] # NoRun => runs[remote[h]].owner = h /\ ~runs[remote[h]].settled
              /\ \A i \in PromptsAt(h) : runs[commands[h][i].run].owner = h /\ ~runs[commands[h][i].run].settled
              /\ (peers[h] = "open" /\ remote[h] # NoRun) =>
                   handles[h].active = remote[h] /\ runs[remote[h]].prompt \in {"taken", "done"}
              /\ peers[h] = "open" =>
                   /\ \A i \in PromptsAt(h) :
                        handles[h].active = commands[h][i].run /\ runs[commands[h][i].run].prompt = "sent"
                   /\ \A i, j \in PromptsAt(h) : i = j)'
  BY DEF AgentInv
<1>3. /\ handles[h].at # "made" => commands[h] = <<>> /\ remote[h] = NoRun
      /\ remote[h] # NoRun => runs[remote[h]].owner = h /\ ~runs[remote[h]].settled
      /\ \A i \in PromptsAt(h) : runs[commands[h][i].run].owner = h /\ ~runs[commands[h][i].run].settled
      /\ (peers[h] = "open" /\ remote[h] # NoRun) =>
           handles[h].active = remote[h] /\ runs[remote[h]].prompt \in {"taken", "done"}
      /\ peers[h] = "open" =>
           /\ \A i \in PromptsAt(h) :
                handles[h].active = commands[h][i].run /\ runs[commands[h][i].run].prompt = "sent"
           /\ \A i, j \in PromptsAt(h) : i = j
  BY <1>1 DEF AgentInv
<1>4. PromptsAt(h)' = PromptsAt(h) /\ \A i \in PromptsAt(h) : commands'[h][i].run = commands[h][i].run
  OBVIOUS
<1>5. /\ remote[h] \in Runs \cup {NoRun} /\ remote'[h] \in {NoRun, remote[h]}
      /\ \A i \in PromptsAt(h) : commands[h][i].run \in Runs
  <2>1. remote \in [Handles -> Runs \cup {NoRun}] /\ commands \in [Handles -> Seq(Commands)]
    BY <1>1 DEF ProcessesTyped
  <2>2. \A i \in 1..Len(commands[h]) : commands[h][i] \in Commands
    BY <2>1
  <2> QED BY <2>1, <2>2 DEF PromptsAt, Commands
<1>6. handles'[h].at # "made" => handles[h].at # "made"
  OBVIOUS
<1>7. handles[h].at # "made" => PromptsAt(h) = {}
  BY <1>3 DEF PromptsAt
<1>8. \A r \in Runs : runs[r].owner = h => /\ runs'[r].owner = h
                                           /\ runs'[r].settled => \/ runs[r].settled
                                                                  \/ remote'[h] = NoRun /\ PromptsAt(h) = {}
  BY <1>1, NullAssumption DEF Honest, PiRun
<1>9. remote'[h] # NoRun => runs'[remote'[h]].owner = h /\ ~runs'[remote'[h]].settled
  BY <1>3, <1>5, <1>8
<1>10. \A i \in PromptsAt(h) : runs'[commands[h][i].run].owner = h /\ ~runs'[commands[h][i].run].settled
  BY <1>3, <1>5, <1>8
<1>11. ASSUME peers'[h] = "open", remote'[h] # NoRun
       PROVE  handles'[h].active = remote'[h] /\ runs'[remote'[h]].prompt \in {"taken", "done"}
  BY <1>3, <1>5, <1>11
<1>12. ASSUME peers'[h] = "open", NEW i \in PromptsAt(h)
       PROVE  handles'[h].active = commands[h][i].run /\ runs'[commands[h][i].run].prompt = "sent"
  BY <1>7, <1>12, <1>3, <1>5
<1>13. peers'[h] = "open" => \A i, j \in PromptsAt(h) : i = j
  BY <1>3, <1>7
<1>14. handles'[h].at # "made" => commands'[h] = <<>> /\ remote'[h] = NoRun
  BY <1>3, <1>5, <1>6
<1> QED BY <1>4, <1>9, <1>10, <1>11, <1>12, <1>13, <1>14

LEMMA AgentsKeep ==
  ASSUME PiInv, commands' = commands,
         \A h \in Handles : remote'[h] \in {NoRun, remote[h]},
         \A h \in Handles : /\ handles[h].at = "made" => handles'[h].at = "made"
                            /\ handles[h].at = "made" /\ peers'[h] = "open" => peers[h] = "open"
                            /\ (handles[h].at = "made" /\ peers'[h] = "open") =>
                                 \/ handles'[h].active = handles[h].active
                                 \/ remote'[h] = NoRun /\ PromptsAt(h) = {},
         \A r \in Runs : /\ runs[r].start = "started" => runs'[r].owner = runs[r].owner
                         /\ runs'[r].settled => \/ runs[r].settled
                                                \/ /\ runs[r].start = "started"
                                                   /\ remote'[runs[r].owner] = NoRun /\ PromptsAt(runs[r].owner) = {}
                         /\ \/ runs'[r].prompt = runs[r].prompt
                            \/ peers'[runs[r].owner] # "open"
                            \/ runs'[r].prompt = "done" /\ runs[r].prompt \in {"taken", "declined", "capacity"}
  PROVE  AgentInv'
<1>1. \A h \in Handles : /\ PromptsAt(h)' = PromptsAt(h)
                         /\ \A i \in PromptsAt(h) : commands'[h][i].run = commands[h][i].run
                         /\ handles[h].at # "made" => commands'[h] = <<>>
  BY PiTyped DEF PromptsAt, AgentInv
<1> QED BY <1>1, AgentsMove

LEMMA DialogsKeep ==
  ASSUME PiInv, dialogs' = dialogs, pendingInteractions' \subseteq pendingInteractions,
         responses' \in [1..MaxDialogs -> {"none", "sending", "ok", "error"}],
         \A n \in 1..MaxDialogs : responses'[n] # "none" => responses[n] # "none" \/ n \in pendingInteractions,
         \A n \in pendingInteractions' : runs'[dialogs[n]].result = "none",
         \A r \in Runs : runs[r].requested \subseteq runs'[r].requested
  PROVE  DialogsTyped' /\ DialogInv'
<1>1. DialogsTyped /\ DialogInv /\ \A r \in Runs : runs[r] \in PiRun
  BY PiTyped
<1>2. \A n \in 1..Len(dialogs) : dialogs[n] \in Runs
  BY <1>1 DEF DialogsTyped
<1>3. DialogsTyped'
  BY <1>1 DEF DialogsTyped
<1>4. \A n \in pendingInteractions : n \in 1..Len(dialogs)
  BY <1>1 DEF DialogsTyped
<1>5. DialogInv'
  BY <1>1, <1>2, <1>4 DEF DialogInv, DialogsTyped
<1> QED BY <1>3, <1>5

(* finish(): the result is as the Run, its agent and its abort justify it.                           *)
Justified(run, result) ==
  /\ result = "completed" => run.settled /\ run.last = "stop"
  /\ result = "cancelled" => run.settled /\ run.last = "aborted" /\ run.confirmed
  /\ (result = "failed" /\ run.acknowledged /\ ~run.incompatible) => run.settled /\ run.last # "stop"

(* Two states of a Run that differ in its requests, its result and its cancel() only.                *)
SameRun(run, other) ==
  /\ run.start = other.start /\ run.owner = other.owner /\ run.settled = other.settled
  /\ run.requested = other.requested /\ run.resolved = other.resolved

LEMMA FinishedHonest ==
  ASSUME NEW run \in PiRun, NEW word, Honest(run, word), run.start = "started", run.result = "none",
         NEW result \in Terminals, Justified(run, result)
  PROVE  /\ Finished(run, result) \in PiRun /\ Honest(Finished(run, result), word)
         /\ run.prompt = "done" => Concluded(Finished(run, result))
         /\ Finished(run, result).result = result
         /\ SameRun(Finished(run, result), run) /\ Finished(run, result).prompt = run.prompt
<1>1. PICK cancel : cancel = CancelAfter(run.cancel, result)
  OBVIOUS
<1>2. /\ cancel \in {"none", "aborting", "settling", "native", "connection_aborted", "already_terminal"}
      /\ cancel = "native" => result = "cancelled" \/ run.cancel = "native"
      /\ cancel = "none" <=> run.cancel = "none"
  BY <1>1 DEF CancelAfter, PiRun
<1>3. PICK over : over = [run EXCEPT !.result = result, !.cancel = cancel]
  OBVIOUS
<1>4. over = Finished(run, result)
  BY <1>1, <1>3 DEF Finished, PiRun
<1>5. /\ over.start = run.start /\ over.owner = run.owner /\ over.result = result
      /\ over.incompatible = run.incompatible /\ over.prompt = run.prompt /\ over.abort = run.abort
      /\ over.acknowledged = run.acknowledged /\ over.settled = run.settled /\ over.last = run.last
      /\ over.confirmed = run.confirmed /\ over.cancel = cancel /\ over.requested = run.requested
      /\ over.resolved = run.resolved
  BY <1>3 DEF PiRun
<1>6. over \in PiRun
  BY <1>2, <1>3 DEF PiRun
<1>7. result # "none" /\ run.last = word /\ run.cancel # "native"
  BY DEF Terminals, Honest
<1>8. Honest(over, word)
  BY <1>2, <1>5, <1>7 DEF Honest, Justified
<1>9. run.prompt = "done" => Concluded(over)
  BY <1>5, <1>7 DEF Concluded
<1> QED BY <1>4, <1>5, <1>6, <1>8, <1>9 DEF SameRun

(* What waits for a process that is lost is rejected.                                                *)
LEMMA CutHonest ==
  ASSUME NEW run \in PiRun, NEW word, Honest(run, word), run.start = "started", run.result # "none"
  PROVE  /\ Cut(run) \in PiRun /\ Honest(Cut(run), word) /\ Concluded(Cut(run))
         /\ Cut(run).result = run.result /\ SameRun(Cut(run), run)
<1>1. PICK prompt, abort, cancel : /\ prompt = Rejected(run.prompt) /\ abort = Rejected(run.abort)
                                   /\ cancel = IF run.cancel = "aborting" THEN "connection_aborted" ELSE run.cancel
  OBVIOUS
<1>2. PICK cut : cut = [run EXCEPT !.prompt = prompt, !.abort = abort, !.cancel = cancel]
  OBVIOUS
<1>3. cut = Cut(run)
  BY <1>1, <1>2 DEF Cut, PiRun
<1>4. /\ prompt \in Requests /\ abort \in Requests
      /\ prompt = run.prompt \/ (prompt = "done" /\ run.prompt \notin {"none", "done"})
      /\ abort = run.abort \/ (abort = "done" /\ run.abort \notin {"none", "done"})
  BY <1>1 DEF Rejected, Requests, InFlight, PiRun
<1>5. /\ cancel \in {"none", "settling", "native", "connection_aborted", "already_terminal"}
      /\ cancel = run.cancel \/ (cancel = "connection_aborted" /\ run.cancel = "aborting")
  BY <1>1 DEF PiRun
<1>6. /\ cut.start = run.start /\ cut.owner = run.owner /\ cut.result = run.result
      /\ cut.incompatible = run.incompatible /\ cut.prompt = prompt /\ cut.abort = abort
      /\ cut.acknowledged = run.acknowledged /\ cut.settled = run.settled /\ cut.last = run.last
      /\ cut.confirmed = run.confirmed /\ cut.cancel = cancel /\ cut.requested = run.requested
      /\ cut.resolved = run.resolved
  BY <1>2 DEF PiRun
<1>7. cut \in PiRun
  BY <1>2, <1>4, <1>5 DEF PiRun
<1>8. Honest(cut, word)
  BY <1>4, <1>5, <1>6 DEF Honest
<1>9. Concluded(cut)
  BY <1>1, <1>6 DEF Rejected, Requests, InFlight, PiRun, Honest, Concluded
<1> QED BY <1>3, <1>6, <1>7, <1>8, <1>9 DEF SameRun

(* What a step has made of the Runs, before it ends any. *)
Drafted(now) ==
  /\ now \in [Runs -> PiRun]
  /\ \A r \in Runs :
       /\ now[r].start = runs[r].start /\ now[r].owner = runs[r].owner /\ now[r].result = runs[r].result
       /\ now[r].requested = runs[r].requested /\ now[r].resolved = runs[r].resolved
       /\ Honest(now[r], said[r])

(* An unfinished Run has a connection, and a dialog an unfinished Run.                               *)
LEMMA Unfinishing ==
  ASSUME PiInv
  PROVE  /\ \A r \in Runs : runs[r].start = "started" <=> runs[r].owner \in Handles
         /\ \A r \in Runs : (runs[r].owner \in Handles /\ runs[r].result = "none") =>
                              handles[runs[r].owner].active = r
         /\ \A h \in Handles : handles[h].active # NoRun =>
              /\ handles[h].active \in Runs /\ runs[handles[h].active].owner = h
              /\ runs[handles[h].active].start = "started" /\ runs[handles[h].active].result = "none"
         /\ \A n \in pendingInteractions : /\ n \in 1..Len(dialogs) /\ dialogs[n] \in Runs
                                           /\ runs[dialogs[n]].start = "started" /\ runs[dialogs[n]].result = "none"
<1>1. /\ RunInv /\ DialogInv /\ DialogsTyped /\ \A r \in Runs : runs[r] \in PiRun /\ Honest(runs[r], said[r])
      /\ \A h \in Handles : handles[h] \in PiHandle
  BY PiTyped
<1>2. \A r \in Runs : runs[r].start = "started" <=> runs[r].owner \in Handles
  BY <1>1, NullAssumption DEF Honest, PiRun
<1>3. \A n \in pendingInteractions : n \in 1..Len(dialogs) /\ dialogs[n] \in Runs
  BY <1>1 DEF DialogsTyped
<1>4. \A n \in pendingInteractions : runs[dialogs[n]].start = "started" /\ runs[dialogs[n]].result = "none"
  <2> TAKE n \in pendingInteractions
  <2>1. n \in runs[dialogs[n]].requested /\ runs[dialogs[n]].result = "none"
    BY <1>1 DEF DialogInv
  <2> QED BY <1>1, <1>3, <2>1 DEF Honest, PiRun
<1>5. \A h \in Handles : handles[h].active # NoRun => handles[h].active \in Runs
  BY <1>1 DEF PiHandle
<1> QED BY <1>1, <1>2, <1>3, <1>4, <1>5 DEF RunInv

LEMMA ConnectionsEnd ==
  ASSUME PiInv, NEW hs \in SUBSET Handles, NEW now, NEW after, NEW result \in {"failed", "connection_aborted"},
         Drafted(now), EndConnection(hs, now, after, result), UNCHANGED <<said, commands, remote>>,
         \A r \in Runs : now[r].settled = runs[r].settled,
         \A r \in Runs : now[r].prompt = runs[r].prompt \/ runs[r].owner \in hs,
         \A r \in Runs : Concluded(now[r]) \/ runs[r].owner \in hs,
         \A h \in Handles : after[h] \in PiHandle /\ after[h].active = handles[h].active,
         \A h \in Handles : handles[h].at = "made" => after[h].at = "made",
         result = "failed" => \A h \in hs : handles[h].active # NoRun => now[handles[h].active].incompatible
  PROVE  /\ RunsTyped' /\ RunInv' /\ AgentInv' /\ PiMoves /\ pendingInteractions' \subseteq pendingInteractions
         /\ \A n \in pendingInteractions' : runs'[dialogs[n]].result = "none"
         /\ \A r \in Runs : runs'[r].requested = runs[r].requested
<1> DEFINE Ended(r) == runs[r].owner \in hs /\ runs[r].result = "none"
<1>1. /\ now \in [Runs -> PiRun] /\ \A r \in Runs : runs[r] \in PiRun /\ Honest(runs[r], said[r]) /\ Concluded(runs[r])
      /\ \A h \in Handles : handles[h] \in PiHandle
  BY PiTyped DEF Drafted
<1>2. PICK active : active = {handles[h].active : h \in hs}
  OBVIOUS
<1>3. \A r \in Runs : r \in active <=> Ended(r)
  <2> TAKE r \in Runs
  <2>1. r \in active => Ended(r)
    BY <1>2, Unfinishing, NullAssumption
  <2>2. Ended(r) => r \in active
    BY <1>2, Unfinishing
  <2> QED BY <2>1, <2>2
<1>4. \A r \in Runs : runs'[r] = LET over == IF r \in active THEN Finished(now[r], result) ELSE now[r]
                                 IN  IF now[r].owner \in hs THEN Cut(over) ELSE over
  BY <1>2 DEF EndConnection
<1>5. DOMAIN runs' = Runs /\ runs' = [r \in Runs |-> runs'[r]]
  BY DEF EndConnection
<1>6. ASSUME NEW r \in Runs
      PROVE  /\ runs'[r] \in PiRun /\ Honest(runs'[r], said[r]) /\ Concluded(runs'[r]) /\ SameRun(runs'[r], now[r])
             /\ Ended(r) => runs'[r].result = result
             /\ ~Ended(r) => runs'[r].result = runs[r].result
             /\ runs[r].owner \notin hs => runs'[r].prompt = runs[r].prompt
  BY <1>1, <1>3, <1>4, Unfinishing, NullAssumption, FinishedHonest, CutHonest DEF Drafted, Terminals, Justified, SameRun
<1>7. \A r \in Runs : /\ runs'[r].start = runs[r].start /\ runs'[r].owner = runs[r].owner
                      /\ runs'[r].settled = runs[r].settled
                      /\ runs'[r].requested = runs[r].requested /\ runs'[r].resolved = runs[r].resolved
  BY <1>6 DEF SameRun, Drafted
<1>8. \A h \in Handles : /\ handles'[h].at = after[h].at
                         /\ h \in hs => handles'[h].active = NoRun /\ peers'[h] # "open"
                         /\ h \notin hs => handles'[h].active = handles[h].active /\ peers'[h] = peers[h]
  <2> TAKE h \in Handles
  <2>1. /\ handles'[h] = IF h \in hs THEN [after[h] EXCEPT !.aborted = TRUE, !.active = NoRun] ELSE after[h]
        /\ peers'[h] = IF h \in hs /\ peers[h] = "open" THEN "closing" ELSE peers[h]
    BY DEF EndConnection
  <2>2. after[h] \in PiHandle /\ after[h].active = handles[h].active
    OBVIOUS
  <2> QED BY <2>1, <2>2 DEF PiHandle
<1>9. /\ pendingInteractions' \subseteq pendingInteractions
      /\ \A n \in pendingInteractions' : runs'[dialogs[n]].result = "none"
  <2>1. pendingInteractions' = {n \in pendingInteractions : dialogs[n] \notin active}
    BY <1>2 DEF EndConnection
  <2> QED BY <1>3, <1>6, <2>1, Unfinishing
<1> HIDE DEF Ended
<1>10. runs' \in [Runs -> PiRun]
  BY <1>5, <1>6
<1>11. RunsTyped' /\ RunInv'
  <2>1. \A r \in Runs : /\ runs'[r].start = runs[r].start /\ runs'[r].owner = runs[r].owner
                        /\ runs[r].result # "none" => runs'[r].result = runs[r].result
                        /\ Honest(runs'[r], said'[r]) /\ Concluded(runs'[r])
    BY <1>6, <1>7 DEF Ended
  <2>2. \A h \in Handles : /\ handles[h].at = "made" => handles'[h].at = "made"
                           /\ handles'[h].active \in {NoRun, handles[h].active}
                           /\ handles[h].at = "made" /\ peers'[h] = "open" => peers[h] = "open"
    BY <1>8
  <2>3. \A r \in Runs : (runs[r].start = "started" /\ runs'[r].result = "none") => handles'[runs[r].owner].active = r
    <3> TAKE r \in Runs
    <3> HAVE runs[r].start = "started" /\ runs'[r].result = "none"
    <3>1. ~Ended(r) /\ runs[r].result = "none" /\ runs[r].owner \in Handles
      BY <1>6, Unfinishing
    <3> QED BY <1>8, <3>1, Unfinishing DEF Ended
  <2>4. \A r \in Runs : (runs[r].result = "none" /\ runs'[r].result = "connection_aborted") =>
                          peers'[runs[r].owner] # "open"
    BY <1>6, <1>8 DEF Ended
  <2>5. \A h \in Handles : handles'[h].active # NoRun => runs'[handles'[h].active].result = "none"
    BY <1>6, <1>8, Unfinishing DEF Ended
  <2> QED BY <1>10, <2>1, <2>2, <2>3, <2>4, <2>5, RunsKeep
<1>12. AgentInv'
  BY <1>8, <1>6, <1>7, AgentsKeep
<1>13. PiMoves
  BY <1>1, NullAssumption, <1>6, <1>7 DEF Honest, PiMoves, Moved, Ended
<1> QED BY <1>7, <1>9, <1>11, <1>12, <1>13

(* The agent is done with the Run, if it was that of its connection.                                 *)
Released(h) == remote'[h] = NoRun /\ PromptsAt(h) = {}

(* What a step does to a Run that agents and connections go by. *)
Plain(now) ==
  /\ Drafted(now)
  /\ \A r \in Runs :
       /\ now[r].settled => runs[r].settled \/ (runs[r].start = "started" /\ Released(runs[r].owner))
       /\ \/ now[r].prompt = runs[r].prompt
          \/ peers[runs[r].owner] # "open"
          \/ now[r].prompt = "done" /\ runs[r].prompt \in {"taken", "declined", "capacity"}

Quiet ==
  /\ UNCHANGED <<said, commands>>
  /\ \A h \in Handles : remote'[h] \in {NoRun, remote[h]}

LEMMA RunsGoOn ==
  ASSUME PiInv, NEW now, Plain(now), Quiet, Keep(now), UNCHANGED opening, \A r \in Runs : Concluded(now[r])
  PROVE  /\ ConnectionInv' /\ RunsTyped' /\ RunInv' /\ AgentInv' /\ PiMoves
         /\ pendingInteractions' \subseteq pendingInteractions
         /\ \A n \in pendingInteractions' : runs'[dialogs[n]].result = "none"
         /\ \A r \in Runs : runs'[r].requested = runs[r].requested
<1>1. /\ runs' = now /\ UNCHANGED <<handles, peers, reads, abandoned, pendingInteractions, said, commands>>
      /\ ConnectionsTyped /\ SaneInv /\ Drafted(now)
  BY PiTyped DEF Keep, Plain, Quiet
<1>2. ConnectionInv'
  BY <1>1, ConnectionsKeep DEF Kept, SaneInv, ConnectionsTyped
<1>3. RunsTyped' /\ RunInv'
  BY <1>1, RunsKeep, Unfinishing DEF Drafted
<1>4. AgentInv'
  BY <1>1, AgentsKeep DEF Plain, Drafted, Released, Quiet
<1>5. PiMoves
  BY PiTyped, <1>1 DEF Honest, PiMoves, Moved, Drafted
<1> QED BY <1>1, <1>2, <1>3, <1>4, <1>5, Unfinishing DEF Drafted

LEMMA RunEnds ==
  ASSUME PiInv, NEW now, Plain(now), Quiet, NEW r \in Runs, NEW result \in {"completed", "cancelled", "failed"},
         Finish(r, now, result), UNCHANGED opening, \A q \in Runs : Concluded(now[q]),
         runs[r].start = "started", runs[r].result = "none", Justified(now[r], result), Released(runs[r].owner),
         now[r].prompt = "done"
  PROVE  /\ ConnectionInv' /\ RunsTyped' /\ RunInv' /\ AgentInv' /\ PiMoves
         /\ pendingInteractions' \subseteq pendingInteractions
         /\ \A n \in pendingInteractions' : runs'[dialogs[n]].result = "none"
         /\ \A q \in Runs : runs'[q].requested = runs[q].requested
<1>1. PICK h : h = runs[r].owner
  OBVIOUS
<1>2. /\ h \in Handles /\ handles[h].active = r /\ UNCHANGED <<peers, reads, abandoned, said, commands>>
      /\ ConnectionsTyped /\ SaneInv /\ Drafted(now) /\ now \in [Runs -> PiRun] /\ r # NoRun
  BY <1>1, PiTyped, Unfinishing, NullAssumption DEF Finish, Plain, Quiet, Drafted
<1>3. PICK over : over = Finished(now[r], result)
  OBVIOUS
<1>4. /\ over \in PiRun /\ Honest(over, said[r]) /\ Concluded(over) /\ over.result = result
      /\ SameRun(over, now[r]) /\ over.prompt = now[r].prompt
  BY <1>2, <1>3, FinishedHonest DEF Drafted, Terminals
<1>5. /\ runs' \in [Runs -> PiRun] /\ runs'[r] = over /\ \A q \in Runs : q # r => runs'[q] = now[q]
  BY <1>2, <1>3, <1>4 DEF Finish
<1>6. PICK free : free = [handles[h] EXCEPT !.active = NoRun]
  OBVIOUS
<1>7. /\ free \in PiHandle /\ free.active = NoRun /\ free.at = handles[h].at /\ free.kind = handles[h].kind
      /\ free.source = handles[h].source /\ free.session = handles[h].session /\ free.closed = handles[h].closed
      /\ free.aborted = handles[h].aborted /\ free.forced = handles[h].forced
  BY <1>2, <1>6 DEF ConnectionsTyped, PiHandle
<1>8. /\ handles' \in [Handles -> PiHandle] /\ handles'[h] = free /\ \A g \in Handles : g # h => handles'[g] = handles[g]
  BY <1>1, <1>2, <1>6, <1>7 DEF Finish, ConnectionsTyped
<1>9. \A g \in Handles : Kept(g)
  BY <1>2, <1>7, <1>8 DEF SaneInv, Sane, Kept
<1>10. ConnectionInv'
  BY <1>2, <1>8, <1>9, ConnectionsKeep DEF ConnectionsTyped
<1>11. \A q \in Runs : /\ runs'[q].start = runs[q].start /\ runs'[q].owner = runs[q].owner
                       /\ runs'[q].requested = runs[q].requested /\ runs'[q].resolved = runs[q].resolved
                       /\ runs'[q].settled = now[q].settled /\ runs'[q].prompt = now[q].prompt
                       /\ Honest(runs'[q], said[q]) /\ Concluded(runs'[q])
                       /\ q # r => runs'[q].result = runs[q].result
  BY <1>2, <1>4, <1>5 DEF Drafted, SameRun
<1>12. runs'[r].result = result /\ \A g \in Handles : handles'[g].active = IF g = h THEN NoRun ELSE handles[g].active
  BY <1>4, <1>5, <1>7, <1>8
<1>13. \A g \in Handles : handles'[g].at = handles[g].at
  BY <1>7, <1>8
<1>14. RunsTyped' /\ RunInv'
  <2>1. \A q \in Runs : (runs[q].start = "started" /\ runs'[q].result = "none") => handles'[runs[q].owner].active = q
    BY <1>1, <1>2, <1>11, <1>12, Unfinishing
  <2>2. \A q \in Runs : (runs[q].result = "none" /\ runs'[q].result = "connection_aborted") => peers'[runs[q].owner] # "open"
    BY <1>11, <1>12
  <2>3. \A g \in Handles : handles'[g].active # NoRun => runs'[handles'[g].active].result = "none"
    <3> TAKE g \in Handles
    <3> HAVE handles'[g].active # NoRun
    <3>1. g # h /\ handles'[g].active = handles[g].active
      BY <1>12
    <3>2. handles[g].active \in Runs /\ runs[handles[g].active].owner = g /\ runs[handles[g].active].result = "none"
      BY <3>1, Unfinishing
    <3>3. handles[g].active # r
      BY <1>1, <3>1, <3>2
    <3> QED BY <1>11, <3>1, <3>2, <3>3
  <2>4. \A q \in Runs : /\ runs'[q].start = runs[q].start /\ runs'[q].owner = runs[q].owner
                        /\ runs[q].result # "none" => runs'[q].result = runs[q].result
                        /\ Honest(runs'[q], said'[q]) /\ Concluded(runs'[q])
    BY <1>2, <1>11
  <2>5. \A g \in Handles : /\ handles[g].at = "made" => handles'[g].at = "made"
                           /\ handles'[g].active \in {NoRun, handles[g].active}
                           /\ handles[g].at = "made" /\ peers'[g] = "open" => peers[g] = "open"
    BY <1>2, <1>12, <1>13
  <2> QED BY <1>5, <2>1, <2>2, <2>3, <2>4, <2>5, RunsKeep
<1>15. AgentInv'
  <2>1. \A g \in Handles : /\ handles[g].at = "made" => handles'[g].at = "made"
                           /\ handles[g].at = "made" /\ peers'[g] = "open" => peers[g] = "open"
                           /\ (handles[g].at = "made" /\ peers'[g] = "open") =>
                                \/ handles'[g].active = handles[g].active
                                \/ remote'[g] = NoRun /\ PromptsAt(g) = {}
    BY <1>1, <1>2, <1>12, <1>13 DEF Released
  <2>2. \A q \in Runs : /\ runs[q].start = "started" => runs'[q].owner = runs[q].owner
                        /\ runs'[q].settled => \/ runs[q].settled
                                               \/ /\ runs[q].start = "started"
                                                  /\ remote'[runs[q].owner] = NoRun /\ PromptsAt(runs[q].owner) = {}
                        /\ \/ runs'[q].prompt = runs[q].prompt
                           \/ peers'[runs[q].owner] # "open"
                           \/ runs'[q].prompt = "done" /\ runs[q].prompt \in {"taken", "declined", "capacity"}
    <3> TAKE q \in Runs
    <3>1. /\ now[q].settled => runs[q].settled \/ (runs[q].start = "started" /\ Released(runs[q].owner))
          /\ \/ now[q].prompt = runs[q].prompt
             \/ peers[runs[q].owner] # "open"
             \/ now[q].prompt = "done" /\ runs[q].prompt \in {"taken", "declined", "capacity"}
      BY DEF Plain
    <3>2. runs'[q].owner = runs[q].owner /\ runs'[q].settled = now[q].settled /\ runs'[q].prompt = now[q].prompt
      BY <1>11
    <3>3. peers' = peers
      BY <1>2
    <3> QED BY <3>1, <3>2, <3>3 DEF Released
  <2> QED BY <1>2, <2>1, <2>2, AgentsKeep DEF Quiet
<1>16. PiMoves
  BY PiTyped, <1>11, <1>12 DEF Honest, PiMoves, Moved
<1>17. /\ pendingInteractions' \subseteq pendingInteractions
       /\ \A n \in pendingInteractions' : runs'[dialogs[n]].result = "none"
  BY <1>11, Unfinishing DEF Finish, DialogsOf
<1> QED BY <1>10, <1>11, <1>14, <1>15, <1>16, <1>17

LEMMA RunEndsIfReady ==
  ASSUME PiInv, NEW now, Plain(now), Quiet, NEW r \in Runs, FinishIfReady(r, now), UNCHANGED opening,
         \A q \in Runs : Concluded(now[q]), runs[r].start = "started"
  PROVE  /\ ConnectionInv' /\ RunsTyped' /\ RunInv' /\ AgentInv' /\ PiMoves
         /\ pendingInteractions' \subseteq pendingInteractions
         /\ \A n \in pendingInteractions' : runs'[dialogs[n]].result = "none"
         /\ \A q \in Runs : runs'[q].requested = runs[q].requested
<1>1. CASE Terminal(r) \/ Outcome(now[r]) = "none"
  <2>1. Keep(now)
    BY <1>1 DEF FinishIfReady
  <2> QED BY <2>1, RunsGoOn
<1>2. CASE ~Terminal(r) /\ Outcome(now[r]) # "none"
  <2>1. PICK result : result = Outcome(now[r])
    OBVIOUS
  <2>2. Finish(r, now, result) /\ runs[r].result = "none"
    BY <1>2, <2>1 DEF FinishIfReady, Terminal
  <2>3. now[r].acknowledged /\ now[r].settled /\ now[r].prompt = "done"
    BY <1>2 DEF Outcome, Plain, Drafted, Honest
  <2>4. result = (CASE now[r].last = "stop" -> "completed"
                    [] now[r].last = "aborted" /\ now[r].cancel # "none" ->
                         IF now[r].confirmed THEN "cancelled" ELSE "none"
                    [] OTHER -> "failed")
    BY <2>1, <2>3 DEF Outcome
  <2>5. result \in {"completed", "cancelled", "failed"} /\ Justified(now[r], result)
    BY <2>3, <2>4, <1>2, <2>1 DEF Justified
  <2>6. Released(runs[r].owner)
    BY <2>3, <2>2, PiTyped, Unfinishing, NullAssumption DEF Plain, Sane, AgentInv, Released, Quiet
  <2> QED BY <2>2, <2>3, <2>5, <2>6, RunEnds
<1> QED BY <1>1, <1>2

LEMMA HandlesEnd ==
  ASSUME PiInv, NEW hs \in SUBSET Handles, NEW now, NEW result, EndConnection(hs, now, handles, result), UNCHANGED opening,
         \A h \in hs : handles[h].at = "made"
  PROVE  ConnectionInv'
<1>1. ConnectionsTyped /\ SaneInv /\ \A h \in Handles : handles[h] \in PiHandle
  BY PiTyped
<1>2. /\ handles' \in [Handles -> PiHandle] /\ peers' \in [Handles -> {"none", "open", "closing", "gone", "stuck"}]
      /\ reads' \in [Handles -> 0..MaxPendingRequests] /\ abandoned' \in [Handles -> 0..MaxPendingRequests]
  <2>1. ASSUME NEW h \in Handles PROVE [handles[h] EXCEPT !.aborted = TRUE, !.active = NoRun] \in PiHandle
    BY <1>1 DEF PiHandle
  <2>2. 0 \in 0..MaxPendingRequests
    BY LimitAssumption
  <2>3. handles' \in [Handles -> PiHandle]
    BY <1>1, <2>1 DEF EndConnection
  <2> QED BY <1>1, <2>2, <2>3 DEF EndConnection, ConnectionsTyped
<1>3. ASSUME NEW h \in Handles PROVE Kept(h) /\ (reads'[h] # 0 => reads[h] # 0)
  <2>1. CASE h \in hs
    <3>1. /\ handles'[h] = [handles[h] EXCEPT !.aborted = TRUE, !.active = NoRun]
          /\ peers'[h] = IF peers[h] = "open" THEN "closing" ELSE peers[h]
          /\ reads'[h] = 0
      BY <2>1 DEF EndConnection
    <3>2. /\ handles'[h].at = handles[h].at /\ handles'[h].kind = handles[h].kind
          /\ handles'[h].source = handles[h].source /\ handles'[h].session = handles[h].session
          /\ handles'[h].closed = handles[h].closed /\ handles'[h].forced = handles[h].forced
          /\ handles'[h].aborted = TRUE /\ handles'[h].active = NoRun
      BY <1>1, <3>1 DEF PiHandle
    <3>3. Sane(handles[h], peers[h]) /\ handles[h].at = "made"
      BY <1>1, <2>1 DEF SaneInv
    <3>4. Sane(handles'[h], peers'[h])
      BY <3>1, <3>2, <3>3 DEF Sane, Asking
    <3> QED BY <3>1, <3>2, <3>4 DEF Kept
  <2>2. CASE h \notin hs
    BY <2>2, <1>1 DEF EndConnection, Kept, SaneInv
  <2> QED BY <2>1, <2>2
<1> QED BY <1>2, <1>3, ConnectionsKeep

LEMMA ConnectionAborts ==
  ASSUME PiInv, NEW h \in Handles, handles[h].at = "made", NEW now, Drafted(now), AbortConnection(h, now), UNCHANGED opening,
         UNCHANGED <<said, commands, remote>>,
         \A r \in Runs : now[r].settled = runs[r].settled,
         \A r \in Runs : \/ now[r].prompt = runs[r].prompt
                         \/ now[r].prompt = "done" /\ runs[r].owner = h,
         \A r \in Runs : Concluded(now[r]) \/ runs[r].owner = h
  PROVE  /\ ConnectionInv' /\ RunsTyped' /\ RunInv' /\ AgentInv' /\ PiMoves
         /\ pendingInteractions' \subseteq pendingInteractions
         /\ \A n \in pendingInteractions' : runs'[dialogs[n]].result = "none"
         /\ \A r \in Runs : runs'[r].requested = runs[r].requested
<1>1. CASE handles[h].aborted
  BY <1>1, PiTyped, Unfinishing, NullAssumption, RunsGoOn DEF AbortConnection, Sane, Plain, Drafted, Concluded, Quiet
<1>2. CASE ~handles[h].aborted
  <2>1. EndConnection({h}, now, handles, "connection_aborted")
    BY <1>2 DEF AbortConnection
  <2>2. ConnectionInv'
    BY <2>1, HandlesEnd
  <2>3. \A g \in Handles : handles[g] \in PiHandle
    BY PiTyped
  <2>4. \A r \in Runs : now[r].prompt = runs[r].prompt \/ runs[r].owner \in {h}
    OBVIOUS
  <2>5. \A r \in Runs : Concluded(now[r]) \/ runs[r].owner \in {h}
    OBVIOUS
  <2> QED BY <2>1, <2>2, <2>3, <2>4, <2>5, ConnectionsEnd
<1> QED BY <1>1, <1>2

LEMMA RestKeeps ==
  ASSUME PiInv, UNCHANGED <<responses, dialogs>>, Quiet, remote' \in [Handles -> Runs \cup {NoRun}],
         ConnectionInv', RunsTyped', RunInv', AgentInv',
         pendingInteractions' \subseteq pendingInteractions,
         \A n \in pendingInteractions' : runs'[dialogs[n]].result = "none",
         \A r \in Runs : runs'[r].requested = runs[r].requested
  PROVE  PiInv'
<1>1. ProcessesTyped'
  BY PiTyped DEF ProcessesTyped, Quiet
<1>2. DialogsTyped' /\ DialogInv'
  BY PiTyped, DialogsKeep DEF DialogsTyped
<1> QED BY <1>1, <1>2 DEF PiInv, WorkingInv

LEMMA PromptAnsweredKeeps ==
  ASSUME PiInv, NEW r \in Runs, NEW outcome, PromptAnswered(r, outcome)
  PROVE  PiInv' /\ PiMoves
<1>1. /\ runs \in [Runs -> PiRun] /\ runs[r] \in PiRun /\ Honest(runs[r], said[r])
      /\ \A q \in Runs : Honest(runs[q], said[q]) /\ Concluded(runs[q])
  BY PiTyped
<1>2. /\ outcome \in Outcomes(runs[r].prompt) /\ UNCHANGED <<opening, responses, commands, remote, said, dialogs>>
  BY DEF PromptAnswered, process
<1>3. /\ outcome = "ok" => runs[r].prompt = "taken"
      /\ outcome = "remote_rejected" => runs[r].prompt = "declined"
      /\ runs[r].prompt \in {"sent", "taken", "declined", "capacity"}
      /\ outcome \in {"ok", "timeout", "remote_rejected", "capacity"}
  BY <1>1, <1>2 DEF Outcomes, PiRun, Requests
<1>4. /\ runs[r].start = "started" /\ runs[r].owner \in Handles /\ ~runs[r].acknowledged /\ runs[r].result = "none"
      /\ handles[runs[r].owner].active = r /\ handles[runs[r].owner].at = "made" /\ peers[runs[r].owner] = "open"
  BY <1>1, <1>3, Unfinishing, PiTyped, NullAssumption DEF Honest, PiRun, Concluded, Sane
<1>5. PICK run : run = [runs[r] EXCEPT !.prompt = "done", !.acknowledged = runs[r].acknowledged \/ outcome = "ok"]
  OBVIOUS
<1>6. /\ run.start = runs[r].start /\ run.owner = runs[r].owner /\ run.result = runs[r].result
      /\ run.incompatible = runs[r].incompatible /\ run.prompt = "done" /\ run.abort = runs[r].abort
      /\ run.settled = runs[r].settled /\ run.last = runs[r].last
      /\ run.confirmed = runs[r].confirmed /\ run.cancel = runs[r].cancel
      /\ run.requested = runs[r].requested /\ run.resolved = runs[r].resolved
  BY <1>1, <1>5 DEF PiRun
<1>7. (outcome = "ok" => run.acknowledged) /\ (outcome # "ok" => ~run.acknowledged)
  BY <1>1, <1>4, <1>5 DEF PiRun
<1>8. run \in PiRun
  BY <1>1, <1>5 DEF Requests, PiRun
<1>9. Concluded(run) /\ Honest(run, said[r])
  BY <1>1, <1>4, <1>6 DEF Honest, Concluded
<1>10. PICK now : now = [runs EXCEPT ![r].prompt = "done", ![r].acknowledged = @ \/ outcome = "ok"]
  OBVIOUS
<1>11. now \in [Runs -> PiRun] /\ now[r] = run /\ \A q \in Runs : q # r => now[q] = runs[q]
  BY <1>1, <1>5, <1>10, <1>8
<1>12. Drafted(now) /\ \A q \in Runs : Concluded(now[q]) /\ now[q].settled = runs[q].settled
  BY <1>1, <1>6, <1>9, <1>11 DEF Drafted
<1>13. Quiet /\ remote' \in [Handles -> Runs \cup {NoRun}]
  BY <1>2, PiTyped DEF Quiet, ProcessesTyped
<1>14. CASE outcome = "ok"
  <2>1. FinishIfReady(r, now)
    BY <1>10, <1>14 DEF PromptAnswered
  <2>2. Plain(now)
    BY <1>3, <1>6, <1>11, <1>12, <1>14 DEF Plain
  <2>3. /\ ConnectionInv' /\ RunsTyped' /\ RunInv' /\ AgentInv' /\ PiMoves
        /\ pendingInteractions' \subseteq pendingInteractions
        /\ \A n \in pendingInteractions' : runs'[dialogs[n]].result = "none"
        /\ \A q \in Runs : runs'[q].requested = runs[q].requested
    BY <1>2, <1>4, <1>12, <1>13, <2>1, <2>2, RunEndsIfReady
  <2> QED BY <1>2, <1>13, <2>3, RestKeeps
<1>15. CASE outcome = "remote_rejected"
  <2>1. Finish(r, now, "failed")
    BY <1>4, <1>10, <1>15 DEF PromptAnswered, Terminal
  <2>2. Plain(now)
    BY <1>3, <1>6, <1>11, <1>12, <1>15 DEF Plain
  <2>3. Justified(now[r], "failed") /\ now[r].prompt = "done"
    BY <1>6, <1>7, <1>11, <1>15 DEF Justified
  <2>4. Released(runs[r].owner)
    BY <1>3, <1>4, <1>15, PiTyped, <1>2 DEF AgentInv, Released
  <2>5. /\ ConnectionInv' /\ RunsTyped' /\ RunInv' /\ AgentInv' /\ PiMoves
        /\ pendingInteractions' \subseteq pendingInteractions
        /\ \A n \in pendingInteractions' : runs'[dialogs[n]].result = "none"
        /\ \A q \in Runs : runs'[q].requested = runs[q].requested
    BY <1>2, <1>4, <1>12, <1>13, <2>1, <2>2, <2>3, <2>4, RunEnds
  <2> QED BY <1>2, <1>13, <2>5, RestKeeps
<1>16. CASE outcome \in {"timeout", "capacity"}
  <2>1. AbortConnection(runs[r].owner, now)
    BY <1>4, <1>10, <1>16 DEF PromptAnswered, Terminal
  <2>2. \A q \in Runs : \/ now[q].prompt = runs[q].prompt
                        \/ now[q].prompt = "done" /\ runs[q].owner = runs[r].owner
    BY <1>6, <1>11
  <2>3. \A q \in Runs : Concluded(now[q]) \/ runs[q].owner = runs[r].owner
    BY <1>12
  <2>4. /\ ConnectionInv' /\ RunsTyped' /\ RunInv' /\ AgentInv' /\ PiMoves
        /\ pendingInteractions' \subseteq pendingInteractions
        /\ \A n \in pendingInteractions' : runs'[dialogs[n]].result = "none"
        /\ \A q \in Runs : runs'[q].requested = runs[q].requested
    BY <1>2, <1>4, <1>12, <2>1, <2>2, <2>3, ConnectionAborts
  <2> QED BY <1>2, <1>13, <2>4, RestKeeps
<1> QED BY <1>3, <1>14, <1>15, <1>16

LEMMA AbortAnsweredKeeps ==
  ASSUME PiInv, NEW r \in Runs, NEW outcome, AbortAnswered(r, outcome)
  PROVE  PiInv' /\ PiMoves
<1>1. /\ runs \in [Runs -> PiRun] /\ runs[r] \in PiRun /\ Honest(runs[r], said[r]) /\ Concluded(runs[r])
      /\ \A q \in Runs : Honest(runs[q], said[q]) /\ Concluded(runs[q])
  BY PiTyped
<1>2. /\ outcome \in Outcomes(runs[r].abort) /\ UNCHANGED <<opening, responses, commands, remote, said, dialogs>>
  BY DEF AbortAnswered, process
<1>3. runs[r].abort \in {"sent", "taken", "declined", "capacity"}
  BY <1>1, <1>2 DEF Outcomes, PiRun, Requests
<1>4. /\ runs[r].start = "started" /\ runs[r].owner \in Handles /\ handles[runs[r].owner].at = "made"
      /\ ~runs[r].confirmed /\ runs[r].cancel # "none" /\ runs[r].result # "cancelled"
  BY <1>1, <1>3, PiTyped, Unfinishing DEF Honest, PiRun, RunInv
<1>5. PICK ok \in BOOLEAN : ok = (outcome = "ok")
  OBVIOUS
<1>6. PICK cancel : cancel = CASE ~ok -> "connection_aborted"
                               [] ok /\ Terminal(r) -> CancelAfter("settling", runs[r].result)
                               [] ok /\ ~Terminal(r) -> "settling"
  OBVIOUS
<1>7. /\ cancel \in {"settling", "native", "connection_aborted", "already_terminal"} /\ cancel # "native"
      /\ ok /\ runs[r].result = "none" => cancel = "settling"
  BY <1>6, <1>4 DEF CancelAfter, Terminal
<1>8. PICK run : run = [runs[r] EXCEPT !.abort = "done", !.confirmed = ok, !.cancel = cancel]
  OBVIOUS
<1>9. /\ run.start = runs[r].start /\ run.owner = runs[r].owner /\ run.result = runs[r].result
      /\ run.incompatible = runs[r].incompatible /\ run.prompt = runs[r].prompt /\ run.abort = "done"
      /\ run.acknowledged = runs[r].acknowledged /\ run.settled = runs[r].settled /\ run.last = runs[r].last
      /\ run.confirmed = ok /\ run.cancel = cancel
      /\ run.requested = runs[r].requested /\ run.resolved = runs[r].resolved
  BY <1>1, <1>8 DEF PiRun
<1>10. run \in PiRun
  <2>1. runs[r] \in PiRun /\ "done" \in Requests
    BY <1>1 DEF Requests
  <2> QED BY <1>7, <1>8, <2>1 DEF PiRun
<1>11. Honest(run, said[r]) /\ (ok => Concluded(run))
  BY <1>1, <1>4, <1>7, <1>9 DEF Honest, Concluded
<1>12. PICK now : now = [runs EXCEPT ![r].abort = "done", ![r].confirmed = ok, ![r].cancel = cancel]
  OBVIOUS
<1>13. now \in [Runs -> PiRun] /\ now[r] = run /\ \A q \in Runs : q # r => now[q] = runs[q]
  BY <1>1, <1>8, <1>12, <1>10
<1>14. Drafted(now) /\ Plain(now) /\ \A q \in Runs : now[q].settled = runs[q].settled /\ now[q].prompt = runs[q].prompt
  BY <1>1, <1>9, <1>11, <1>13 DEF Drafted, Plain
<1>15. Quiet /\ remote' \in [Handles -> Runs \cup {NoRun}]
  BY <1>2, PiTyped DEF Quiet, ProcessesTyped
<1>16. CASE ok
  <2>1. FinishIfReady(r, now)
    BY <1>5, <1>6, <1>12, <1>16 DEF AbortAnswered
  <2>2. \A q \in Runs : Concluded(now[q])
    BY <1>1, <1>11, <1>13, <1>16
  <2>3. /\ ConnectionInv' /\ RunsTyped' /\ RunInv' /\ AgentInv' /\ PiMoves
        /\ pendingInteractions' \subseteq pendingInteractions
        /\ \A n \in pendingInteractions' : runs'[dialogs[n]].result = "none"
        /\ \A q \in Runs : runs'[q].requested = runs[q].requested
    BY <1>2, <1>4, <1>14, <1>15, <2>1, <2>2, RunEndsIfReady
  <2> QED BY <1>2, <1>15, <2>3, RestKeeps
<1>17. CASE ~ok
  <2>1. AbortConnection(runs[r].owner, now)
    BY <1>5, <1>6, <1>12, <1>17 DEF AbortAnswered
  <2>2. \A q \in Runs : Concluded(now[q]) \/ runs[q].owner = runs[r].owner
    BY <1>1, <1>13
  <2>3. /\ ConnectionInv' /\ RunsTyped' /\ RunInv' /\ AgentInv' /\ PiMoves
        /\ pendingInteractions' \subseteq pendingInteractions
        /\ \A n \in pendingInteractions' : runs'[dialogs[n]].result = "none"
        /\ \A q \in Runs : runs'[q].requested = runs[q].requested
    BY <1>2, <1>4, <1>14, <2>1, <2>2, ConnectionAborts
  <2> QED BY <1>2, <1>15, <2>3, RestKeeps
<1> QED BY <1>16, <1>17

LEMMA Undrafted ==
  ASSUME PiInv
  PROVE  /\ Drafted(runs) /\ \A q \in Runs : Concluded(runs[q])
BY PiTyped DEF Drafted

LEMMA ConnectionsLost ==
  ASSUME PiInv, NEW hs \in SUBSET Handles, EndConnection(hs, runs, handles, "connection_aborted"),
         \A h \in hs : handles[h].at = "made",
         UNCHANGED <<opening, responses, commands, remote, said, dialogs>>
  PROVE  PiInv' /\ PiMoves
<1>1. ConnectionInv'
  BY HandlesEnd
<1>2. /\ RunsTyped' /\ RunInv' /\ AgentInv' /\ PiMoves
      /\ pendingInteractions' \subseteq pendingInteractions
      /\ \A n \in pendingInteractions' : runs'[dialogs[n]].result = "none"
      /\ \A q \in Runs : runs'[q].requested = runs[q].requested
  BY Undrafted, PiTyped, ConnectionsEnd
<1>3. Quiet /\ remote' \in [Handles -> Runs \cup {NoRun}]
  BY PiTyped DEF Quiet, ProcessesTyped
<1> QED BY <1>1, <1>2, <1>3, RestKeeps

(* A cancel() that gives up, an event without a place, a read without a tombstone.                   *)
LEMMA LosesKeep ==
  ASSUME PiInv, NEW h \in Handles, handles[h].at = "made", AbortConnection(h, runs),
         UNCHANGED <<opening, responses, commands, remote, said, dialogs>>
  PROVE  PiInv' /\ PiMoves
<1>1. /\ ConnectionInv' /\ RunsTyped' /\ RunInv' /\ AgentInv' /\ PiMoves
      /\ pendingInteractions' \subseteq pendingInteractions
      /\ \A n \in pendingInteractions' : runs'[dialogs[n]].result = "none"
      /\ \A q \in Runs : runs'[q].requested = runs[q].requested
  BY Undrafted, ConnectionAborts
<1>2. Quiet /\ remote' \in [Handles -> Runs \cup {NoRun}]
  BY PiTyped DEF Quiet, ProcessesTyped
<1> QED BY <1>1, <1>2, RestKeeps

LEMMA CancelGivesUpKeeps ==
  ASSUME PiInv, NEW r \in Runs, CancelGivesUp(r)
  PROVE  PiInv' /\ PiMoves
<1>1. runs[r].start = "started"
  BY PiTyped DEF CancelGivesUp, Honest, PiRun
<1>2. runs[r].owner \in Handles /\ handles[runs[r].owner].at = "made"
  BY <1>1, PiTyped, Unfinishing DEF RunInv
<1> QED BY <1>2, LosesKeep DEF CancelGivesUp, process

LEMMA OverflowsKeeps ==
  ASSUME PiInv, NEW h \in Handles, Overflows(h)
  PROVE  PiInv' /\ PiMoves
<1>1. handles[h].at = "made"
  BY PiTyped DEF Overflows, Heard, Sane
<1> QED BY <1>1, LosesKeep DEF Overflows, process

LEMMA SettlesKeep ==
  ASSUME PiInv, NEW h \in Handles, Settles(h)
  PROVE  PiInv' /\ PiMoves
<1>1. /\ runs \in [Runs -> PiRun] /\ \A q \in Runs : Honest(runs[q], said[q]) /\ Concluded(runs[q])
      /\ remote \in [Handles -> Runs \cup {NoRun}]
  BY PiTyped DEF ProcessesTyped
<1>2. /\ UNCHANGED <<opening, responses, commands, said, dialogs>> /\ remote[h] # NoRun
      /\ remote' = [remote EXCEPT ![h] = NoRun]
  BY DEF Settles
<1>3. Quiet /\ remote' \in [Handles -> Runs \cup {NoRun}] /\ remote'[h] = NoRun
  BY <1>1, <1>2 DEF Quiet
<1>4. CASE ~Heard(h)
  BY <1>4, Undrafted, <1>1, <1>2, <1>3, RunsGoOn, RestKeeps DEF Settles, Plain
<1>5. CASE Heard(h)
  <2>1. PICK r : r = handles[h].active
    OBVIOUS
  <2>2. /\ r \in Runs /\ runs[r].owner = h /\ runs[r].start = "started" /\ runs[r].result = "none" /\ peers[h] = "open"
    BY <1>5, <2>1, Unfinishing DEF Heard
  <2>3. PromptsAt(h) = {}
    BY <1>2, <2>1, <2>2, PiTyped DEF AgentInv
  <2>4. PICK run : run = [runs[r] EXCEPT !.settled = TRUE]
    OBVIOUS
  <2>5. runs[r] \in PiRun
    BY <1>1, <2>2
  <2>6. /\ run.start = runs[r].start /\ run.owner = runs[r].owner /\ run.result = runs[r].result
        /\ run.incompatible = runs[r].incompatible /\ run.prompt = runs[r].prompt /\ run.abort = runs[r].abort
        /\ run.acknowledged = runs[r].acknowledged /\ run.last = runs[r].last
        /\ run.confirmed = runs[r].confirmed /\ run.cancel = runs[r].cancel
        /\ run.requested = runs[r].requested /\ run.resolved = runs[r].resolved
    BY <2>4, <2>5 DEF PiRun
  <2>7. run \in PiRun
    BY <2>4, <2>5 DEF PiRun
  <2>8. Honest(run, said[r]) /\ Concluded(run)
    BY <1>1, <2>2, <2>6 DEF Honest, Concluded
  <2>9. PICK now : now = [runs EXCEPT ![r].settled = TRUE]
    OBVIOUS
  <2>10. now \in [Runs -> PiRun] /\ now[r] = run /\ \A q \in Runs : q # r => now[q] = runs[q]
    BY <1>1, <2>2, <2>4, <2>9, <2>7
  <2>11. Drafted(now) /\ \A q \in Runs : Concluded(now[q])
    BY <1>1, <2>6, <2>8, <2>10 DEF Drafted
  <2>12. Plain(now)
    BY <1>3, <2>3, <2>2, <2>6, <2>10, <2>11 DEF Released, Plain
  <2>13. FinishIfReady(r, now)
    BY <1>5, <2>1, <2>9 DEF Settles
  <2>14. /\ ConnectionInv' /\ RunsTyped' /\ RunInv' /\ AgentInv' /\ PiMoves
         /\ pendingInteractions' \subseteq pendingInteractions
         /\ \A n \in pendingInteractions' : runs'[dialogs[n]].result = "none"
         /\ \A q \in Runs : runs'[q].requested = runs[q].requested
    BY <1>2, <1>3, <2>2, <2>11, <2>12, <2>13, RunEndsIfReady
  <2> QED BY <1>2, <1>3, <2>14, RestKeeps
<1> QED BY <1>4, <1>5

(* A dialog is asked. *)
LEMMA DialogsAdd ==
  ASSUME PiInv, NEW r \in Runs, Len(dialogs) < MaxDialogs, dialogs' = Append(dialogs, r), responses' = responses,
         pendingInteractions' \subseteq pendingInteractions \cup {Len(dialogs')},
         \A n \in pendingInteractions : n \in pendingInteractions' => runs'[dialogs[n]].result = "none",
         Len(dialogs') \in pendingInteractions' => runs'[r].result = "none" /\ Len(dialogs') \in runs'[r].requested,
         \A q \in Runs : runs[q].requested \subseteq runs'[q].requested
  PROVE  DialogsTyped' /\ DialogInv'
<1>1. DialogsTyped /\ DialogInv
  BY PiTyped
<1>2. /\ dialogs \in Seq(Runs) /\ Len(dialogs) \in Nat /\ \A n \in 1..Len(dialogs) : dialogs[n] \in Runs
      /\ dialogs' \in Seq(Runs) /\ Len(dialogs') = Len(dialogs) + 1 /\ dialogs'[Len(dialogs')] = r
      /\ \A n \in 1..Len(dialogs) : dialogs'[n] = dialogs[n]
  BY <1>1 DEF DialogsTyped
<1>3. DialogsTyped'
  BY <1>1, <1>2, LimitAssumption DEF DialogsTyped
<1>4. ASSUME NEW n \in pendingInteractions'
      PROVE  runs'[dialogs'[n]].result = "none" /\ n \in runs'[dialogs'[n]].requested
  BY <1>2, <1>4, <1>1 DEF DialogsTyped, DialogInv
<1>5. ASSUME NEW n \in 1..MaxDialogs, responses'[n] # "none"
      PROVE  n <= Len(dialogs') /\ n \in runs'[dialogs'[n]].requested
  BY <1>1, <1>2, <1>5 DEF DialogInv
<1> QED BY <1>3, <1>4, <1>5 DEF DialogInv

LEMMA AsksKeeps ==
  ASSUME PiInv, NEW h \in Handles, NEW room, Asks(h, room)
  PROVE  PiInv' /\ PiMoves
<1>1. /\ runs \in [Runs -> PiRun] /\ \A q \in Runs : Honest(runs[q], said[q]) /\ Concluded(runs[q])
      /\ handles \in [Handles -> PiHandle] /\ ConnectionsTyped /\ SaneInv /\ ProcessesTyped
  BY PiTyped
<1>2. PICK r : r = handles[h].active
  OBVIOUS
<1>3. /\ r \in Runs /\ runs[r].owner = h /\ runs[r].start = "started" /\ runs[r].result = "none"
      /\ remote[h] = r /\ handles[h].at = "made" /\ peers[h] = "open" /\ Len(dialogs) < MaxDialogs
      /\ dialogs' = Append(dialogs, r) /\ UNCHANGED <<opening, responses, commands, remote, said>>
  BY <1>2, Unfinishing, <1>1, PiTyped DEF Asks, Heard, AgentInv, SaneInv, Sane
<1>4. ProcessesTyped'
  BY <1>1, <1>3 DEF ProcessesTyped
<1>5. CASE UNCHANGED <<handles, peers, reads, abandoned>>
           /\ pendingInteractions' = pendingInteractions \cup {Len(dialogs')}
           /\ runs' = [runs EXCEPT ![r].requested = @ \cup {Len(dialogs')}]
  <2>1. PICK run : run = [runs[r] EXCEPT !.requested = runs[r].requested \cup {Len(dialogs')}]
    OBVIOUS
  <2>2. runs[r] \in PiRun
    BY <1>1, <1>3
  <2>3. /\ run.start = runs[r].start /\ run.owner = runs[r].owner /\ run.result = runs[r].result
        /\ run.incompatible = runs[r].incompatible /\ run.prompt = runs[r].prompt /\ run.abort = runs[r].abort
        /\ run.acknowledged = runs[r].acknowledged /\ run.settled = runs[r].settled /\ run.last = runs[r].last
        /\ run.confirmed = runs[r].confirmed /\ run.cancel = runs[r].cancel
        /\ run.requested = runs[r].requested \cup {Len(dialogs')} /\ run.resolved = runs[r].resolved
    BY <2>1, <2>2 DEF PiRun
  <2>4. run \in PiRun
    <3>1. Len(dialogs') \in 1..MaxDialogs
      BY <1>3, PiTyped, LimitAssumption DEF DialogsTyped
    <3>2. runs[r].requested \cup {Len(dialogs')} \in SUBSET (1..MaxDialogs)
      BY <2>2, <3>1 DEF PiRun
    <3> QED BY <2>1, <2>2, <3>2 DEF PiRun
  <2>5. runs' \in [Runs -> PiRun] /\ runs'[r] = run /\ \A q \in Runs : q # r => runs'[q] = runs[q]
    BY <1>1, <1>5, <2>1, <1>3, <2>4
  <2>6. Honest(run, said[r]) /\ Concluded(run)
    BY <1>1, <1>3, <2>3 DEF Honest, Concluded
  <2>7. \A q \in Runs : /\ runs'[q].start = runs[q].start /\ runs'[q].owner = runs[q].owner
                        /\ runs'[q].result = runs[q].result /\ runs'[q].settled = runs[q].settled
                        /\ runs'[q].prompt = runs[q].prompt /\ runs[q].requested \subseteq runs'[q].requested
                        /\ runs'[q].resolved = runs[q].resolved
                        /\ Honest(runs'[q], said'[q]) /\ Concluded(runs'[q])
    BY <1>1, <1>3, <2>3, <2>5, <2>6
  <2>8. ConnectionInv'
    BY <1>1, <1>3, <1>5, ConnectionsKeep DEF Kept, SaneInv, ConnectionsTyped
  <2>9. RunsTyped' /\ RunInv'
    <3>1. \A q \in Runs : (runs[q].start = "started" /\ runs'[q].result = "none") => handles'[runs[q].owner].active = q
      BY <1>5, <2>7, Unfinishing
    <3>2. \A q \in Runs : (runs[q].result = "none" /\ runs'[q].result = "connection_aborted") =>
                              peers'[runs[q].owner] # "open"
      BY <2>7
    <3>3. \A g \in Handles : handles'[g].active # NoRun => runs'[handles'[g].active].result = "none"
      BY <1>5, <2>7, Unfinishing
    <3>4. \A g \in Handles : /\ handles[g].at = "made" => handles'[g].at = "made"
                             /\ handles'[g].active \in {NoRun, handles[g].active}
                             /\ handles[g].at = "made" /\ peers'[g] = "open" => peers[g] = "open"
      BY <1>5
    <3>5. \A q \in Runs : /\ runs'[q].start = runs[q].start /\ runs'[q].owner = runs[q].owner
                          /\ runs[q].result # "none" => runs'[q].result = runs[q].result
                          /\ Honest(runs'[q], said'[q]) /\ Concluded(runs'[q])
      BY <2>7
    <3> QED BY <2>5, <3>1, <3>2, <3>3, <3>4, <3>5, RunsKeep
  <2>10. AgentInv'
    BY <1>3, <1>5, <2>7, AgentsKeep
  <2>11. DialogsTyped' /\ DialogInv'
    BY <1>3, <2>3, <2>5, <2>7, Unfinishing, <1>5, DialogsAdd
  <2>12. PiMoves
    BY <1>1, <1>3, <2>3, <2>5, <2>7 DEF Honest, PiMoves, Moved
  <2> QED BY <1>4, <2>8, <2>9, <2>10, <2>11, <2>12 DEF PiInv, WorkingInv
<1>6. CASE AbortConnection(h, runs)
  BY <1>3, <1>6, Undrafted, ConnectionAborts, PiTyped, DialogsAdd, <1>4 DEF DialogsTyped, PiInv, WorkingInv
<1> QED BY <1>2, <1>5, <1>6 DEF Asks

LEMMA WrittenKeeps ==
  ASSUME PiInv, NEW n \in 1..Len(dialogs), NEW ok \in BOOLEAN, NEW room \in Room, Written(n, ok, room)
  PROVE  PiInv' /\ PiMoves
<1>1. /\ runs \in [Runs -> PiRun] /\ \A q \in Runs : Honest(runs[q], said[q]) /\ Concluded(runs[q])
      /\ handles \in [Handles -> PiHandle] /\ ConnectionsTyped /\ SaneInv /\ ProcessesTyped /\ DialogsTyped
  BY PiTyped
<1>2. PICK r : r = dialogs[n]
  OBVIOUS
<1>3. /\ r \in Runs /\ runs[r].start = "started" /\ runs[r].owner \in Handles /\ handles[runs[r].owner].at = "made"
      /\ n \in runs[r].requested /\ n \in 1..MaxDialogs /\ responses[n] = "sending"
      /\ UNCHANGED <<opening, commands, remote, said, dialogs>>
  BY <1>1, <1>2, LimitAssumption, PiTyped, Unfinishing DEF DialogsTyped, Written, DialogInv, Honest, PiRun, RunInv, process
<1>4. /\ responses' \in [1..MaxDialogs -> {"none", "sending", "ok", "error"}]
      /\ \A m \in 1..MaxDialogs : responses'[m] # "none" => responses[m] # "none"
  BY <1>1, <1>3 DEF Written, DialogsTyped
<1>5. ProcessesTyped'
  BY <1>1, <1>3 DEF ProcessesTyped
<1>6. CASE ok /\ (room \/ Terminal(r))
  <2>1. PICK resolved : resolved = IF Terminal(r) THEN runs[r].resolved ELSE runs[r].resolved \cup {n}
    OBVIOUS
  <2>2. PICK run : run = [runs[r] EXCEPT !.resolved = resolved]
    OBVIOUS
  <2>3. runs[r] \in PiRun
    BY <1>1, <1>3
  <2>4. /\ run.start = runs[r].start /\ run.owner = runs[r].owner /\ run.result = runs[r].result
        /\ run.incompatible = runs[r].incompatible /\ run.prompt = runs[r].prompt /\ run.abort = runs[r].abort
        /\ run.acknowledged = runs[r].acknowledged /\ run.settled = runs[r].settled /\ run.last = runs[r].last
        /\ run.confirmed = runs[r].confirmed /\ run.cancel = runs[r].cancel
        /\ run.requested = runs[r].requested /\ run.resolved = resolved
    BY <2>2, <2>3 DEF PiRun
  <2>5. /\ resolved \subseteq 1..MaxDialogs /\ runs[r].resolved \subseteq resolved
        /\ resolved \subseteq runs[r].requested
        /\ runs[r].result # "none" => resolved = runs[r].resolved
    BY <1>1, <1>3, <2>1, <2>3 DEF PiRun, Honest, Terminal
  <2>6. run \in PiRun
    BY <2>2, <2>3, <2>5 DEF PiRun
  <2>7. runs' \in [Runs -> PiRun] /\ runs'[r] = run /\ \A q \in Runs : q # r => runs'[q] = runs[q]
    BY <1>2, <1>6, <1>1, <2>1, <2>2, <1>3, <2>6 DEF Written
  <2>8. Honest(run, said[r]) /\ Concluded(run)
    BY <1>1, <1>3, <2>4, <2>5 DEF Honest, Concluded
  <2>9. \A q \in Runs : /\ runs'[q].start = runs[q].start /\ runs'[q].owner = runs[q].owner
                        /\ runs'[q].result = runs[q].result /\ runs'[q].settled = runs[q].settled
                        /\ runs'[q].prompt = runs[q].prompt /\ runs'[q].requested = runs[q].requested
                        /\ runs[q].resolved \subseteq runs'[q].resolved
                        /\ runs[q].result # "none" => runs'[q].resolved = runs[q].resolved
                        /\ Honest(runs'[q], said'[q]) /\ Concluded(runs'[q])
    BY <1>1, <1>3, <2>4, <2>5, <2>7, <2>8
  <2>10. UNCHANGED <<handles, peers, reads, abandoned>> /\ pendingInteractions' = pendingInteractions \ {n}
    BY <1>2, <1>6 DEF Written
  <2>11. ConnectionInv'
    BY <1>1, <1>3, <2>10, ConnectionsKeep DEF Kept, SaneInv, ConnectionsTyped
  <2>12. RunsTyped' /\ RunInv'
    BY <2>9, <2>10, Unfinishing, <2>7, RunsKeep
  <2>13. AgentInv'
    BY <1>3, <2>9, <2>10, AgentsKeep
  <2>14. DialogsTyped' /\ DialogInv'
    BY <2>9, <2>10, Unfinishing, <1>3, <1>4, DialogsKeep
  <2>15. PiMoves
    BY <1>1, <1>3, <2>7, <2>9 DEF Honest, PiMoves, Moved
  <2> QED BY <1>5, <2>11, <2>12, <2>13, <2>14, <2>15 DEF PiInv, WorkingInv
<1>7. CASE ~(ok /\ (room \/ Terminal(r)))
  BY <1>2, <1>7, <1>3, Undrafted, ConnectionAborts, <1>4, DialogsKeep, <1>5 DEF Written, PiInv, WorkingInv
<1> QED BY <1>6, <1>7

(* What the host asks of a connection, or answers, while its Runs go on.                             *)
LEMMA CallsOnlyKeep ==
  ASSUME PiInv, UNCHANGED <<opening, handles, runs, pendingInteractions, peers, process>>,
         reads' \in [Handles -> 0..MaxPendingRequests], abandoned' \in [Handles -> 0..MaxPendingRequests],
         \A h \in Handles : reads'[h] # 0 => reads[h] # 0 \/ handles[h].at = "made",
         responses' \in [1..MaxDialogs -> {"none", "sending", "ok", "error"}],
         \A n \in 1..MaxDialogs : responses'[n] # "none" => responses[n] # "none" \/ n \in pendingInteractions
  PROVE  PiInv' /\ PiMoves
<1>1. UNCHANGED <<opening, handles, runs, pendingInteractions, peers, said, commands, remote, dialogs>>
  BY DEF process
<1>2. /\ ConnectionsTyped /\ SaneInv /\ RunsTyped /\ RunInv /\ ProcessesTyped /\ DialogsTyped /\ DialogInv /\ AgentInv
  BY PiTyped
<1>3. ConnectionInv'
  BY <1>1, <1>2, ConnectionsKeep DEF Kept, SaneInv, ConnectionsTyped
<1>4. RunsTyped' /\ RunInv'
  BY <1>1, <1>2 DEF RunsTyped, Started, RunInv
<1>5. AgentInv'
  BY <1>1, <1>2 DEF AgentInv, PromptsAt
<1>6. DialogsTyped' /\ DialogInv'
  BY <1>1, DialogsKeep, Unfinishing
<1>7. ProcessesTyped'
  BY <1>1, <1>2 DEF ProcessesTyped
<1>8. PiMoves
  BY PiTyped, <1>1 DEF Honest, PiMoves, Moved
<1> QED BY <1>3, <1>4, <1>5, <1>6, <1>7, <1>8 DEF PiInv, WorkingInv

(* There is a place for a read when fewer requests wait than the limit, reads among them.            *)
LEMMA PendingCountsReads ==
  ASSUME PiInv, NEW h \in Handles, Request(h) = "sent"
  PROVE  reads[h] < MaxPendingRequests
<1>1. PICK prompts, aborts : /\ prompts = {r \in Runs : runs[r].owner = h /\ runs[r].prompt \in InFlight}
                             /\ aborts = {r \in Runs : runs[r].owner = h /\ runs[r].abort \in InFlight}
  OBVIOUS
<1>2. PendingOf(h) < MaxPendingRequests
  BY DEF Request
<1>3. Cardinality(prompts) + Cardinality(aborts) + reads[h] < MaxPendingRequests
  BY <1>1, <1>2 DEF PendingOf
<1>4. prompts \subseteq Started /\ aborts \subseteq Started
  BY <1>1, Unfinishing DEF Started
<1>5. IsFiniteSet(Started)
  BY PiTyped DEF RunsTyped
<1>6. IsFiniteSet(prompts) /\ IsFiniteSet(aborts)
  BY <1>4, <1>5, FS_Subset
<1>7. Cardinality(prompts) \in Nat /\ Cardinality(aborts) \in Nat
  BY <1>6, FS_CardinalityType
<1>8. reads[h] \in Nat
  BY PiTyped, LimitAssumption DEF ConnectionsTyped
<1> QED BY <1>3, <1>7, <1>8, LimitAssumption

LEMMA ReadsKeep ==
  ASSUME PiInv, NEW h \in Handles, Read(h) \/ ReadAnswered(h) \/ LateResponse(h) \/ ReadAbandoned(h)
  PROVE  PiInv' /\ PiMoves
<1>1. /\ reads \in [Handles -> 0..MaxPendingRequests] /\ abandoned \in [Handles -> 0..MaxPendingRequests]
      /\ responses \in [1..MaxDialogs -> {"none", "sending", "ok", "error"}] /\ MaxPendingRequests \in Nat
  BY PiTyped, LimitAssumption DEF ConnectionsTyped, DialogsTyped
<1>2. CASE Read(h)
  BY <1>1, <1>2, PendingCountsReads, CallsOnlyKeep DEF Read, Usable, InSession
<1>3. CASE ReadAnswered(h)
  BY <1>1, <1>3, CallsOnlyKeep DEF ReadAnswered
<1>4. CASE LateResponse(h)
  BY <1>1, <1>4, CallsOnlyKeep DEF LateResponse
<1>5. CASE ReadAbandoned(h) /\ abandoned[h] < MaxPendingRequests
  BY <1>1, <1>5, CallsOnlyKeep DEF ReadAbandoned
<1>6. CASE ReadAbandoned(h) /\ abandoned[h] >= MaxPendingRequests
  <2>1. /\ EndConnection({h}, runs, handles, "connection_aborted") /\ reads[h] # 0
        /\ UNCHANGED <<opening, responses, commands, remote, said, dialogs>>
    BY <1>1, <1>6 DEF ReadAbandoned, process
  <2>2. handles[h].at = "made"
    BY <2>1, PiTyped DEF SaneInv
  <2> QED BY <2>1, <2>2, ConnectionsLost
<1> QED BY <1>1, <1>2, <1>3, <1>4, <1>5, <1>6

LEMMA RespondKeeps ==
  ASSUME PiInv, NEW h \in Handles, NEW n \in 1..Len(dialogs), Respond(h, n)
  PROVE  PiInv' /\ PiMoves
<1>1. /\ responses \in [1..MaxDialogs -> {"none", "sending", "ok", "error"}] /\ n \in pendingInteractions
      /\ responses' = [responses EXCEPT ![n] = "sending"] /\ UNCHANGED <<reads, abandoned>>
      /\ UNCHANGED <<opening, handles, runs, pendingInteractions, peers, process>>
  BY PiTyped DEF DialogsTyped, Respond
<1>2. /\ responses' \in [1..MaxDialogs -> {"none", "sending", "ok", "error"}]
      /\ \A m \in 1..MaxDialogs : responses'[m] # "none" => responses[m] # "none" \/ m \in pendingInteractions
  BY <1>1
<1>3. reads' \in [Handles -> 0..MaxPendingRequests] /\ abandoned' \in [Handles -> 0..MaxPendingRequests]
  BY <1>1, PiTyped DEF ConnectionsTyped
<1>4. \A g \in Handles : reads'[g] # 0 => reads[g] # 0
  BY <1>1
<1> QED BY <1>1, <1>2, <1>3, <1>4, CallsOnlyKeep

LEMMA HandlesRest ==
  ASSUME PiInv, UNCHANGED <<opening, handles, peers, reads, abandoned>>
  PROVE  ConnectionInv'
BY PiTyped, ConnectionsKeep DEF Kept, SaneInv, ConnectionsTyped

(* Runs change, and none of them ends. *)
LEMMA RunsRest ==
  ASSUME PiInv, UNCHANGED <<handles, peers>>, runs' \in [Runs -> PiRun],
         \A r \in Runs : /\ runs'[r].start = runs[r].start /\ runs'[r].owner = runs[r].owner
                         /\ runs'[r].result = runs[r].result
                         /\ Honest(runs'[r], said'[r]) /\ Concluded(runs'[r])
  PROVE  RunsTyped' /\ RunInv'
<1>1. \A r \in Runs : (runs[r].start = "started" /\ runs'[r].result = "none") => handles'[runs[r].owner].active = r
  BY Unfinishing
<1>2. \A r \in Runs : (runs[r].result = "none" /\ runs'[r].result = "connection_aborted") => peers'[runs[r].owner] # "open"
  OBVIOUS
<1>3. \A h \in Handles : handles'[h].active # NoRun => runs'[handles'[h].active].result = "none"
  BY Unfinishing
<1>4. \A h \in Handles : /\ handles[h].at = "made" => handles'[h].at = "made"
                         /\ handles'[h].active \in {NoRun, handles[h].active}
                         /\ handles[h].at = "made" /\ peers'[h] = "open" => peers[h] = "open"
  OBVIOUS
<1>5. \A r \in Runs : /\ runs'[r].start = runs[r].start /\ runs'[r].owner = runs[r].owner
                      /\ runs[r].result # "none" => runs'[r].result = runs[r].result
                      /\ Honest(runs'[r], said'[r]) /\ Concluded(runs'[r])
  OBVIOUS
<1> QED BY <1>1, <1>2, <1>3, <1>4, <1>5, RunsKeep

LEMMA CancelKeeps ==
  ASSUME PiInv, NEW r \in Runs, NEW timer \in BOOLEAN, Cancel(r, timer)
  PROVE  PiInv' /\ PiMoves
<1>1. /\ runs \in [Runs -> PiRun] /\ runs[r] \in PiRun /\ \A q \in Runs : Honest(runs[q], said[q]) /\ Concluded(runs[q])
      /\ ProcessesTyped /\ DialogsTyped
  BY PiTyped
<1>2. PICK h : h = runs[r].owner
  OBVIOUS
<1>3. /\ runs[r].start = "started" /\ runs[r].result = "none" /\ h \in Handles /\ handles[h].at = "made"
      /\ UNCHANGED <<opening, handles, peers, reads, abandoned, pendingInteractions, responses, remote, said, dialogs>>
  BY <1>2, PiTyped, Unfinishing DEF Cancel, Terminal, RunInv
<1>4. PICK first \in BOOLEAN : first = (runs[r].cancel = "none")
  OBVIOUS
<1>5. PICK cancel, abort, timed : /\ cancel = IF first THEN "aborting" ELSE runs[r].cancel
                                  /\ abort = IF first THEN Request(h) ELSE runs[r].abort
                                  /\ timed = (runs[r].timedOut \/ timer)
  OBVIOUS
<1>6. PICK run : run = [runs[r] EXCEPT !.timedOut = timed, !.cancel = cancel, !.abort = abort]
  OBVIOUS
<1>7. /\ run.start = runs[r].start /\ run.owner = runs[r].owner /\ run.result = runs[r].result
      /\ run.incompatible = runs[r].incompatible /\ run.prompt = runs[r].prompt /\ run.abort = abort
      /\ run.acknowledged = runs[r].acknowledged /\ run.settled = runs[r].settled /\ run.last = runs[r].last
      /\ run.confirmed = runs[r].confirmed /\ run.cancel = cancel
      /\ run.requested = runs[r].requested /\ run.resolved = runs[r].resolved
  BY <1>1, <1>6 DEF PiRun
<1>8. /\ cancel \in {"aborting", "settling", "native", "connection_aborted", "already_terminal"}
      /\ abort \in Requests /\ timed \in BOOLEAN /\ (first \/ (cancel = runs[r].cancel /\ abort = runs[r].abort))
      /\ first => cancel = "aborting" /\ ~runs[r].confirmed
  BY <1>1, <1>4, <1>5 DEF Request, Requests, Honest, PiRun
<1>9. run \in PiRun
  BY <1>1, <1>6, <1>8 DEF PiRun
<1>10. Honest(run, said[r]) /\ Concluded(run)
  BY <1>1, <1>3, <1>7, <1>8 DEF Honest, Concluded
<1>11. runs' \in [Runs -> PiRun] /\ runs'[r] = run /\ \A q \in Runs : q # r => runs'[q] = runs[q]
  BY <1>2, <1>4, <1>5, <1>1, <1>6, <1>9 DEF Cancel
<1>12. commands' = commands \/ commands' = [commands EXCEPT ![h] = Append(@, [type |-> "abort", run |-> r])]
  BY <1>2 DEF Cancel, Sent
<1>13. ProcessesTyped'
  <2>1. [type |-> "abort", run |-> r] \in Commands
    BY DEF Commands
  <2>2. commands \in [Handles -> Seq(Commands)]
    BY <1>1 DEF ProcessesTyped
  <2>3. PICK longer : longer = Append(commands[h], [type |-> "abort", run |-> r])
    OBVIOUS
  <2>4. longer \in Seq(Commands)
    <3>1. commands[h] \in Seq(Commands)
      BY <1>3, <2>2, Zenon
    <3> QED BY <2>1, <2>3, <3>1
  <2>5. commands' = commands \/ commands' = [commands EXCEPT ![h] = longer]
    BY <1>12, <2>3
  <2>6. commands' \in [Handles -> Seq(Commands)]
    BY <1>3, <2>2, <2>4, <2>5
  <2> QED BY <1>1, <1>3, <2>6 DEF ProcessesTyped
<1>14. \A q \in Runs : /\ runs'[q].start = runs[q].start /\ runs'[q].owner = runs[q].owner
                       /\ runs'[q].result = runs[q].result /\ runs'[q].settled = runs[q].settled
                       /\ runs'[q].prompt = runs[q].prompt /\ runs'[q].requested = runs[q].requested
                       /\ runs'[q].resolved = runs[q].resolved
                       /\ Honest(runs'[q], said'[q]) /\ Concluded(runs'[q])
  BY <1>1, <1>3, <1>7, <1>10, <1>11
<1>15. ConnectionInv' /\ RunsTyped' /\ RunInv'
  BY <1>3, <1>11, <1>14, HandlesRest, RunsRest
<1>16. AgentInv'
  <2>1. ASSUME NEW g \in Handles
        PROVE  /\ PromptsAt(g)' = PromptsAt(g)
               /\ \A i \in PromptsAt(g) : commands'[g][i].run = commands[g][i].run
               /\ handles[g].at # "made" => commands'[g] = <<>>
    <3>1. commands \in [Handles -> Seq(Commands)] /\ (handles[g].at # "made" => commands[g] = <<>>)
      BY <1>1, PiTyped DEF ProcessesTyped, AgentInv
    <3>2. CASE commands'[g] = commands[g]
      BY <3>1, <3>2 DEF PromptsAt
    <3>3. CASE g = h /\ commands'[g] = Append(commands[g], [type |-> "abort", run |-> r])
      BY <3>1, <3>3, <1>3 DEF PromptsAt
    <3> QED BY <1>12, <3>1, <3>2, <3>3
  <2> QED BY <1>3, <1>14, <2>1, AgentsMove
<1>17. DialogsTyped' /\ DialogInv'
  BY <1>3, <1>14, Unfinishing, <1>1, DialogsKeep DEF DialogsTyped
<1>18. PiMoves
  BY <1>1, <1>14 DEF Honest, PiMoves, Moved
<1> QED BY <1>13, <1>15, <1>16, <1>17, <1>18 DEF PiInv, WorkingInv

LEMMA MessageEndsKeeps ==
  ASSUME PiInv, NEW h \in Handles, NEW reason \in StopReasons, MessageEnds(h, reason)
  PROVE  PiInv' /\ PiMoves
<1>1. /\ runs \in [Runs -> PiRun] /\ \A q \in Runs : Honest(runs[q], said[q]) /\ Concluded(runs[q])
      /\ ProcessesTyped /\ DialogsTyped
  BY PiTyped
<1>2. PICK r : r = remote[h]
  OBVIOUS
<1>3. /\ r \in Runs /\ said' = [said EXCEPT ![r] = reason] /\ runs[r].owner = h /\ ~runs[r].settled
      /\ UNCHANGED <<opening, handles, peers, reads, abandoned, pendingInteractions, responses, commands, remote, dialogs>>
  BY <1>1, <1>2, PiTyped DEF MessageEnds, AgentInv, ProcessesTyped
<1>4. said' \in [Runs -> StopReasons \cup {"none"}] /\ said'[r] = reason /\ \A q \in Runs : q # r => said'[q] = said[q]
  BY <1>1, <1>3 DEF ProcessesTyped
<1>5. /\ runs' \in [Runs -> PiRun] /\ \A q \in Runs : q # r => runs'[q] = runs[q]
      /\ runs'[r].start = runs[r].start /\ runs'[r].owner = runs[r].owner /\ runs'[r].result = runs[r].result
      /\ runs'[r].settled = runs[r].settled /\ runs'[r].prompt = runs[r].prompt
      /\ runs'[r].requested = runs[r].requested /\ runs'[r].resolved = runs[r].resolved
      /\ Honest(runs'[r], reason) /\ Concluded(runs'[r])
  <2>1. CASE Heard(h)
    BY <1>2, <1>3, <2>1, PiTyped, NullAssumption, <1>1, Unfinishing DEF Heard, AgentInv, PiRun, Honest, Concluded, MessageEnds
  <2>2. CASE ~Heard(h)
    BY <2>2, <1>3, Unfinishing, NullAssumption, PiTyped, <1>1 DEF MessageEnds, Sane, Heard, Honest
  <2> QED BY <2>1, <2>2
<1>6. \A q \in Runs : /\ runs'[q].start = runs[q].start /\ runs'[q].owner = runs[q].owner
                      /\ runs'[q].result = runs[q].result /\ runs'[q].settled = runs[q].settled
                      /\ runs'[q].prompt = runs[q].prompt /\ runs'[q].requested = runs[q].requested
                      /\ runs'[q].resolved = runs[q].resolved
                      /\ Honest(runs'[q], said'[q]) /\ Concluded(runs'[q])
  BY <1>1, <1>4, <1>5
<1>7. ConnectionInv' /\ RunsTyped' /\ RunInv'
  BY <1>3, <1>5, <1>6, HandlesRest, RunsRest
<1>8. AgentInv'
  BY <1>3, <1>6, AgentsKeep
<1>9. DialogsTyped' /\ DialogInv'
  BY <1>3, <1>6, Unfinishing, <1>1, DialogsKeep DEF DialogsTyped
<1>10. ProcessesTyped'
  BY <1>1, <1>3, <1>4 DEF ProcessesTyped
<1>11. PiMoves
  BY <1>1, <1>6 DEF Honest, PiMoves, Moved
<1> QED BY <1>7, <1>8, <1>9, <1>10, <1>11 DEF PiInv, WorkingInv

LEMMA TakesKeeps ==
  ASSUME PiInv, NEW h \in Handles, NEW accept \in BOOLEAN, Takes(h, accept)
  PROVE  PiInv' /\ PiMoves
<1>1. /\ runs \in [Runs -> PiRun] /\ \A q \in Runs : Honest(runs[q], said[q]) /\ Concluded(runs[q])
      /\ ProcessesTyped /\ DialogsTyped /\ AgentInv
      /\ commands \in [Handles -> Seq(Commands)] /\ remote \in [Handles -> Runs \cup {NoRun}]
  BY PiTyped DEF ProcessesTyped
<1>2. PICK queue : queue = commands[h]
  OBVIOUS
<1>3. /\ queue \in Seq(Commands) /\ queue # <<>> /\ handles[h].at = "made"
      /\ commands' = [commands EXCEPT ![h] = Tail(queue)]
      /\ UNCHANGED <<opening, handles, peers, reads, abandoned, pendingInteractions, responses, said, dialogs>>
  <2>1. queue \in Seq(Commands)
    BY <1>1, <1>2, Zenon
  <2> QED BY <1>1, <1>2, <2>1 DEF Takes, AgentInv
<1>4. PICK c, r : c = Head(queue) /\ r = c.run
  OBVIOUS
<1>5. /\ c = queue[1] /\ c \in Commands /\ r \in Runs /\ Len(queue) \in Nat /\ Len(queue) >= 1
      /\ Tail(queue) \in Seq(Commands) /\ Len(Tail(queue)) = Len(queue) - 1
      /\ \A i \in 1..(Len(queue) - 1) : Tail(queue)[i] = queue[i + 1]
  <2>1. /\ c = queue[1] /\ c \in Commands /\ Len(queue) \in Nat /\ Len(queue) >= 1
        /\ Tail(queue) \in Seq(Commands) /\ Len(Tail(queue)) = Len(queue) - 1
        /\ \A i \in 1..(Len(queue) - 1) : Tail(queue)[i] = queue[i + 1]
    BY <1>3, <1>4
  <2> QED BY <1>4, <2>1 DEF Commands
<1>6. commands' \in [Handles -> Seq(Commands)] /\ commands'[h] = Tail(queue) /\ \A g \in Handles : g # h => commands'[g] = commands[g]
  BY <1>1, <1>3, <1>5
<1>7. PICK asked, answered : /\ asked = IF c.type = "prompt" THEN runs[r].prompt ELSE runs[r].abort
                             /\ answered = IF asked # "sent" THEN asked ELSE IF accept THEN "taken" ELSE "declined"
  OBVIOUS
<1>8. /\ asked \in Requests /\ answered \in Requests /\ (answered = asked \/ asked = "sent")
      /\ asked = "sent" => answered \in {"taken", "declined"} /\ (accept => answered = "taken")
  BY <1>1, <1>5, <1>7 DEF PiRun, Requests
<1>9. PICK run : run = IF c.type = "prompt" THEN [runs[r] EXCEPT !.prompt = answered] ELSE [runs[r] EXCEPT !.abort = answered]
  OBVIOUS
<1>10. runs[r] \in PiRun
  BY <1>1, <1>5
<1>11. /\ run.start = runs[r].start /\ run.owner = runs[r].owner /\ run.result = runs[r].result
       /\ run.incompatible = runs[r].incompatible
       /\ run.prompt = IF c.type = "prompt" THEN answered ELSE runs[r].prompt
       /\ run.abort = IF c.type = "prompt" THEN runs[r].abort ELSE answered
       /\ run.acknowledged = runs[r].acknowledged /\ run.settled = runs[r].settled /\ run.last = runs[r].last
       /\ run.confirmed = runs[r].confirmed /\ run.cancel = runs[r].cancel
       /\ run.requested = runs[r].requested /\ run.resolved = runs[r].resolved
  BY <1>9, <1>10 DEF PiRun
<1>12. run \in PiRun
  BY <1>8, <1>9, <1>10 DEF PiRun
<1>13. Honest(run, said[r]) /\ Concluded(run)
  BY <1>1, <1>5, <1>7, <1>8, <1>11 DEF Honest, Concluded
<1>14. runs' \in [Runs -> PiRun] /\ runs'[r] = run /\ \A q \in Runs : q # r => runs'[q] = runs[q]
  <2>1. CASE c.type = "prompt"
    <3>1. runs' = [runs EXCEPT ![r].prompt = answered]
      BY <1>2, <1>4, <1>7, <2>1 DEF Takes
    <3>2. runs' = [runs EXCEPT ![r] = run]
      BY <1>1, <1>9, <2>1, <3>1
    <3> QED BY <1>1, <1>5, <1>12, <3>2
  <2>2. CASE c.type # "prompt"
    <3>1. runs' = [runs EXCEPT ![r].abort = answered]
      BY <1>2, <1>4, <1>7, <2>2 DEF Takes
    <3>2. runs' = [runs EXCEPT ![r] = run]
      BY <1>1, <1>9, <2>2, <3>1
    <3> QED BY <1>1, <1>5, <1>12, <3>2
  <2> QED BY <2>1, <2>2
<1>15. \A q \in Runs : /\ runs'[q].start = runs[q].start /\ runs'[q].owner = runs[q].owner
                       /\ runs'[q].result = runs[q].result /\ runs'[q].settled = runs[q].settled
                       /\ runs'[q].requested = runs[q].requested /\ runs'[q].resolved = runs[q].resolved
                       /\ Honest(runs'[q], said'[q]) /\ Concluded(runs'[q])
  BY <1>1, <1>3, <1>11, <1>13, <1>14
<1>16. ConnectionInv' /\ RunsTyped' /\ RunInv'
  BY <1>3, <1>14, <1>15, HandlesRest, RunsRest
<1>17. /\ remote' \in [Handles -> Runs \cup {NoRun}] /\ \A g \in Handles : g # h => remote'[g] = remote[g]
       /\ remote'[h] = IF c.type = "prompt" /\ accept THEN r ELSE remote[h]
       /\ c.type = "prompt" /\ accept => remote[h] = NoRun
  <2>1. CASE c.type = "prompt"
    <3>1. remote' = [remote EXCEPT ![h] = IF accept THEN r ELSE @] /\ (accept => remote[h] = NoRun)
      BY <1>2, <1>4, <2>1 DEF Takes
    <3> QED BY <1>1, <1>5, <2>1, <3>1
  <2>2. CASE c.type # "prompt"
    BY <1>2, <1>4, <2>2, <1>1 DEF Takes
  <2> QED BY <2>1, <2>2
<1>18. AgentInv'
  <2> DEFINE At(g) ==
        /\ handles[g].at # "made" => commands[g] = <<>> /\ remote[g] = NoRun
        /\ remote[g] # NoRun => runs[remote[g]].owner = g /\ ~runs[remote[g]].settled
        /\ \A i \in PromptsAt(g) : runs[commands[g][i].run].owner = g /\ ~runs[commands[g][i].run].settled
        /\ (peers[g] = "open" /\ remote[g] # NoRun) =>
             handles[g].active = remote[g] /\ runs[remote[g]].prompt \in {"taken", "done"}
        /\ peers[g] = "open" =>
             /\ \A i \in PromptsAt(g) :
                  handles[g].active = commands[g][i].run /\ runs[commands[g][i].run].prompt = "sent"
             /\ \A i, j \in PromptsAt(g) : i = j
  <2>1. \A g \in Handles : At(g)
    BY <1>1 DEF AgentInv
  <2>2. SUFFICES \A g \in Handles : At(g)'
    BY DEF AgentInv
  <2>3. ASSUME NEW g \in Handles, g # h PROVE At(g)'
    <3>1. At(g) /\ commands'[g] = commands[g] /\ remote'[g] = remote[g] /\ PromptsAt(g)' = PromptsAt(g)
      BY <1>6, <1>17, <2>1, <2>3 DEF PromptsAt
    <3>2. \A i \in PromptsAt(g) : commands[g][i].run \in Runs
      <4>1. \A i \in 1..Len(commands[g]) : commands[g][i] \in Commands
        BY <1>1
      <4> QED BY <4>1 DEF PromptsAt, Commands
    <3>3. c.type = "prompt" => runs[r].owner = h
      BY <1>2, <1>5, <1>4, <2>1 DEF PromptsAt
    <3>4. \A q \in Runs : runs[q].owner = g => runs'[q].prompt = runs[q].prompt
      BY <1>11, <1>14, <2>3, <3>3
    <3>5. remote[g] # NoRun => remote[g] \in Runs
      BY <1>1
    <3>6. handles' = handles /\ peers' = peers
      BY <1>3
    <3>7. remote'[g] # NoRun => /\ runs'[remote'[g]].owner = g /\ ~runs'[remote'[g]].settled
                                /\ runs'[remote'[g]].prompt = runs[remote[g]].prompt
      BY <1>15, <3>1, <3>4, <3>5
    <3>8. \A i \in PromptsAt(g) : /\ runs'[commands'[g][i].run].owner = g /\ ~runs'[commands'[g][i].run].settled
                                  /\ runs'[commands'[g][i].run].prompt = runs[commands[g][i].run].prompt
      BY <1>15, <3>1, <3>2, <3>4
    <3> QED BY <3>1, <3>6, <3>7, <3>8
  <2>4. At(h)'
    <3>1. At(h)
      BY <2>1
    <3>2. ASSUME NEW i \in PromptsAt(h)'
          PROVE  /\ i + 1 \in PromptsAt(h) /\ i + 1 # 1 /\ commands'[h][i] = commands[h][i + 1] /\ commands[h][i + 1].run \in Runs
                 /\ i \in Nat
      <4>1. i \in 1..(Len(queue) - 1) /\ commands'[h][i].type = "prompt"
        BY <1>5, <1>6 DEF PromptsAt
      <4>2. i + 1 \in 1..Len(queue) /\ commands'[h][i] = queue[i + 1] /\ queue[i + 1] \in Commands
        BY <1>3, <1>5, <1>6, <4>1
      <4> QED BY <1>2, <4>1, <4>2 DEF PromptsAt, Commands
    <3>3. handles' = handles /\ peers' = peers
      BY <1>3
    <3>4. c.type = "prompt" => /\ 1 \in PromptsAt(h) /\ runs[r].owner = h /\ ~runs[r].settled
                               /\ peers[h] = "open" => handles[h].active = r /\ runs[r].prompt = "sent"
      BY <1>2, <1>5, <1>4, <3>1 DEF PromptsAt
    <3>5. remote'[h] # NoRun => runs'[remote'[h]].owner = h /\ ~runs'[remote'[h]].settled
      BY <1>1, <1>15, <1>17, <3>1, <3>4
    <3>6. \A i \in PromptsAt(h)' : runs'[commands'[h][i].run].owner = h /\ ~runs'[commands'[h][i].run].settled
      BY <1>15, <3>1, <3>2
    <3>7. c.type # "prompt" => \A q \in Runs : runs'[q].prompt = runs[q].prompt
      BY <1>11, <1>14
    <3>8. (peers'[h] = "open" /\ remote'[h] # NoRun) =>
            handles'[h].active = remote'[h] /\ runs'[remote'[h]].prompt \in {"taken", "done"}
      BY <3>3, <1>1, <1>17, <3>1, <3>7, <1>7, <1>8, <3>4, <1>11, <1>14
    <3>9. ASSUME peers'[h] = "open", NEW i \in PromptsAt(h)'
          PROVE  handles'[h].active = commands'[h][i].run /\ runs'[commands'[h][i].run].prompt = "sent"
      BY <3>2, <3>3, <3>9, <3>1, <3>4, <3>7
    <3>10. peers'[h] = "open" => \A i, j \in PromptsAt(h)' : i = j
      BY <3>3, <3>1, <3>2
    <3> HIDE DEF PromptsAt
    <3> QED BY <1>3, <3>3, <3>5, <3>6, <3>8, <3>9, <3>10
  <2> QED BY <2>3, <2>4
<1>19. DialogsTyped' /\ DialogInv'
  <2>1. \A n \in pendingInteractions' : runs'[dialogs[n]].result = "none"
    BY <1>3, <1>15, Unfinishing
  <2> QED BY <1>1, <1>3, <1>15, <2>1, DialogsKeep DEF DialogsTyped
<1>20. ProcessesTyped'
  BY <1>1, <1>3, <1>6, <1>17 DEF ProcessesTyped
<1>21. PiMoves
  BY <1>1, <1>15 DEF Honest, PiMoves, Moved
<1> QED BY <1>16, <1>18, <1>19, <1>20, <1>21 DEF PiInv, WorkingInv

LEMMA StartRunKeeps ==
  ASSUME PiInv, NEW r \in Runs, NEW h \in Handles, StartRun(r, h)
  PROVE  PiInv' /\ PiMoves
<1>1. /\ runs \in [Runs -> PiRun] /\ runs[r] \in PiRun /\ \A q \in Runs : Honest(runs[q], said[q]) /\ Concluded(runs[q])
      /\ ProcessesTyped /\ DialogsTyped /\ AgentInv /\ RunInv /\ RunsTyped /\ ConnectionsTyped /\ SaneInv
      /\ handles \in [Handles -> PiHandle] /\ handles[h] \in PiHandle
      /\ commands \in [Handles -> Seq(Commands)] /\ remote \in [Handles -> Runs \cup {NoRun}]
  BY PiTyped DEF ProcessesTyped
<1>2. /\ runs[r].start = "idle" /\ handles[h].at = "made" /\ peers[h] = "open" /\ handles[h].active = NoRun
      /\ handles[h].session \notin forkingSessions /\ h # NoHandle /\ r # NoRun
      /\ UNCHANGED <<opening, peers, reads, abandoned, pendingInteractions, responses, remote, said, dialogs>>
  BY NullAssumption DEF StartRun, Usable, InSession
<1>3. PICK prompt : prompt = Request(h)
  OBVIOUS
<1>4. prompt \in {"sent", "capacity"}
  BY <1>3 DEF Request
<1>5. PICK run : run = [runs[r] EXCEPT !.start = "started", !.owner = h, !.prompt = prompt]
  OBVIOUS
<1>6. /\ run.start = "started" /\ run.owner = h /\ run.result = runs[r].result
      /\ run.incompatible = runs[r].incompatible /\ run.prompt = prompt /\ run.abort = runs[r].abort
      /\ run.acknowledged = runs[r].acknowledged /\ run.settled = runs[r].settled /\ run.last = runs[r].last
      /\ run.confirmed = runs[r].confirmed /\ run.cancel = runs[r].cancel
      /\ run.requested = runs[r].requested /\ run.resolved = runs[r].resolved
  BY <1>1, <1>5 DEF PiRun
<1>7. run \in PiRun
  BY <1>1, <1>4, <1>5 DEF PiRun, Requests
<1>8. /\ runs[r].result = "none" /\ ~runs[r].settled /\ runs[r].owner = NoHandle
      /\ Honest(run, said[r]) /\ Concluded(run)
  BY <1>1, <1>2, <1>4, <1>6 DEF Honest, Concluded
<1>9. runs' \in [Runs -> PiRun] /\ runs'[r] = run /\ \A q \in Runs : q # r => runs'[q] = runs[q]
  BY <1>3, <1>1, <1>5, <1>7 DEF StartRun
<1>10. PICK used : used = [handles[h] EXCEPT !.active = r]
  OBVIOUS
<1>11. /\ used \in PiHandle /\ used.active = r /\ used.at = handles[h].at /\ used.kind = handles[h].kind
       /\ used.source = handles[h].source /\ used.session = handles[h].session /\ used.closed = handles[h].closed
       /\ used.aborted = handles[h].aborted /\ used.forced = handles[h].forced
  BY <1>1, <1>10 DEF PiHandle
<1>12. /\ handles' \in [Handles -> PiHandle] /\ handles'[h] = used /\ \A g \in Handles : g # h => handles'[g] = handles[g]
  BY <1>1, <1>10, <1>11 DEF StartRun
<1>13. ConnectionInv'
  <2>1. Sane(used, peers[h])
    BY <1>1, <1>2, <1>11 DEF SaneInv, Sane
  <2>2. \A g \in Handles : Kept(g)
    BY <1>1, <1>2, <1>11, <1>12, <2>1 DEF Kept, SaneInv
  <2> QED BY <1>1, <1>2, <1>12, <2>2, ConnectionsKeep DEF ConnectionsTyped
<1>14. \A g \in Handles : handles'[g].at = handles[g].at
  BY <1>11, <1>12
<1>15. RunsTyped'
  <2>1. Started' = Started \cup {r}
    BY <1>2, <1>6, <1>9 DEF Started
  <2>2. IsFiniteSet(Started)
    BY <1>1 DEF RunsTyped
  <2>3. IsFiniteSet(Started \cup {r})
    BY <2>2, FS_AddElement
  <2> QED BY <1>9, <2>1, <2>3 DEF RunsTyped
<1>16. RunInv'
  <2>1. \A q \in Runs : Honest(runs'[q], said'[q]) /\ Concluded(runs'[q])
    BY <1>1, <1>2, <1>8, <1>9
  <2>2. ASSUME NEW q \in Runs, runs'[q].start = "started"
        PROVE  /\ handles'[runs'[q].owner].at = "made"
               /\ runs'[q].result = "none" => handles'[runs'[q].owner].active = q
               /\ runs'[q].result = "connection_aborted" => peers'[runs'[q].owner] # "open"
    <3>1. CASE q = r
      BY <1>2, <1>6, <1>8, <1>9, <1>11, <1>12, <3>1
    <3>2. CASE q # r
      <4>1. runs'[q] = runs[q] /\ runs[q].owner \in Handles /\ q # NoRun
        BY <1>9, <2>2, <3>2, Unfinishing, NullAssumption
      <4>2. runs[q].result = "none" => runs[q].owner # h
        BY <1>2, <4>1, Unfinishing
      <4> QED BY <1>1, <1>2, <1>12, <1>14, <2>2, <4>1, <4>2 DEF RunInv
    <3> QED BY <3>1, <3>2
  <2>3. ASSUME NEW g \in Handles, handles'[g].active # NoRun
        PROVE  /\ runs'[handles'[g].active].start = "started" /\ runs'[handles'[g].active].owner = g
               /\ runs'[handles'[g].active].result = "none"
    BY <1>6, <1>8, <1>9, <1>11, <1>12, <2>3, Unfinishing, <1>2
  <2> QED BY <2>1, <2>2, <2>3 DEF RunInv
<1>17. PICK queue, longer : queue = commands[h] /\ longer = Append(queue, [type |-> "prompt", run |-> r])
  OBVIOUS
<1>18. /\ queue \in Seq(Commands) /\ longer \in Seq(Commands) /\ Len(queue) \in Nat /\ Len(longer) = Len(queue) + 1
       /\ longer[Len(queue) + 1].type = "prompt" /\ longer[Len(queue) + 1].run = r
       /\ \A i \in 1..Len(queue) : longer[i] = queue[i]
  <2>1. queue \in Seq(Commands)
    BY <1>1, <1>17, Zenon
  <2>2. [type |-> "prompt", run |-> r] \in Commands
    BY DEF Commands
  <2> QED BY <1>17, <2>1, <2>2
<1>19. commands' = IF prompt = "sent" THEN [commands EXCEPT ![h] = longer] ELSE commands
  BY <1>3, <1>17 DEF StartRun, Sent
<1>20. /\ commands' \in [Handles -> Seq(Commands)] /\ \A g \in Handles : g # h => commands'[g] = commands[g]
       /\ commands'[h] = IF prompt = "sent" THEN longer ELSE queue
  BY <1>1, <1>17, <1>18, <1>19
<1>21. PromptsAt(h) = {} /\ remote[h] = NoRun
  <2>1. \A i \in PromptsAt(h) : commands[h][i].run \in Runs
    <3>1. \A i \in 1..Len(commands[h]) : commands[h][i] \in Commands
      BY <1>1
    <3> QED BY <3>1 DEF PromptsAt, Commands
  <2> QED BY <1>1, <1>2, <2>1, NullAssumption, ZenonT(60) DEF AgentInv
<1>22. AgentInv'
  <2> DEFINE At(g) ==
        /\ handles[g].at # "made" => commands[g] = <<>> /\ remote[g] = NoRun
        /\ remote[g] # NoRun => runs[remote[g]].owner = g /\ ~runs[remote[g]].settled
        /\ \A i \in PromptsAt(g) : runs[commands[g][i].run].owner = g /\ ~runs[commands[g][i].run].settled
        /\ (peers[g] = "open" /\ remote[g] # NoRun) =>
             handles[g].active = remote[g] /\ runs[remote[g]].prompt \in {"taken", "done"}
        /\ peers[g] = "open" =>
             /\ \A i \in PromptsAt(g) :
                  handles[g].active = commands[g][i].run /\ runs[commands[g][i].run].prompt = "sent"
             /\ \A i, j \in PromptsAt(g) : i = j
  <2>1. \A g \in Handles : At(g)
    BY <1>1 DEF AgentInv
  <2>2. SUFFICES \A g \in Handles : At(g)'
    BY DEF AgentInv
  <2>3. ASSUME NEW g \in Handles, g # h PROVE At(g)'
    <3>1. /\ At(g) /\ commands'[g] = commands[g] /\ remote'[g] = remote[g] /\ PromptsAt(g)' = PromptsAt(g)
          /\ handles'[g] = handles[g] /\ peers' = peers /\ g # NoHandle
      BY <1>2, <1>12, <1>20, <2>1, <2>3, NullAssumption DEF PromptsAt
    <3>2. \A i \in PromptsAt(g) : commands[g][i].run \in Runs
      <4>1. \A i \in 1..Len(commands[g]) : commands[g][i] \in Commands
        BY <1>1
      <4> QED BY <4>1 DEF PromptsAt, Commands
    <3>3. remote[g] # NoRun => remote[g] \in Runs
      BY <1>1
    <3>4. \A q \in Runs : runs[q].owner = g => runs'[q] = runs[q]
      BY <1>8, <1>9, <3>1
    <3>5. remote'[g] # NoRun => runs'[remote'[g]] = runs[remote[g]]
      BY <3>1, <3>3, <3>4
    <3>6. \A i \in PromptsAt(g) : runs'[commands'[g][i].run] = runs[commands[g][i].run]
      BY <3>1, <3>2, <3>4
    <3> QED BY <3>1, <3>5, <3>6
  <2>4. At(h)'
    <3>1. remote'[h] = NoRun /\ handles'[h].active = r /\ handles'[h].at = "made"
      BY <1>2, <1>11, <1>12, <1>21
    <3>2. \A i \in PromptsAt(h)' : /\ i = Len(queue) + 1 /\ prompt = "sent" /\ commands'[h][i].run = r
      <4>1. CASE prompt = "sent"
        <5>1. \A i \in 1..Len(queue) : queue[i].type # "prompt"
          BY <1>17, <1>21 DEF PromptsAt
        <5> QED BY <1>18, <1>20, <4>1, <5>1 DEF PromptsAt
      <4>2. CASE prompt # "sent"
        BY <1>17, <1>20, <1>21, <4>2 DEF PromptsAt
      <4> QED BY <4>1, <4>2
    <3>3. runs'[r].owner = h /\ ~runs'[r].settled /\ runs'[r].prompt = prompt
      BY <1>6, <1>8, <1>9
    <3> HIDE DEF PromptsAt
    <3> QED BY <3>1, <3>2, <3>3
  <2> QED BY <2>3, <2>4
<1>23. \A q \in Runs : runs'[q].result = runs[q].result /\ runs'[q].requested = runs[q].requested
                       /\ runs'[q].resolved = runs[q].resolved
  BY <1>6, <1>9
<1>24. DialogsTyped' /\ DialogInv'
  <2>1. \A n \in pendingInteractions' : runs'[dialogs[n]].result = "none"
    BY <1>2, <1>23, Unfinishing
  <2> QED BY <1>1, <1>2, <1>23, <2>1, DialogsKeep DEF DialogsTyped
<1>25. ProcessesTyped'
  BY <1>1, <1>2, <1>20 DEF ProcessesTyped
<1>26. PiMoves
  <2>1. \A q \in Runs : runs[q].start = "idle" => runs[q].result = "none"
    BY <1>1 DEF Honest
  <2>2. \A q \in Runs : runs[q].start = "started" => runs'[q].start = "started" /\ runs'[q].owner = runs[q].owner
    BY <1>2, <1>9
  <2> QED BY <1>23, <2>1, <2>2 DEF PiMoves, Moved
<1> QED BY <1>13, <1>15, <1>16, <1>22, <1>24, <1>25, <1>26 DEF PiInv, WorkingInv

-------------------------------------------------------------------------------
(* Connections are opened and closed, and Runs go on as they were.                                   *)

LEMMA WorkRests ==
  ASSUME PiInv, UNCHANGED <<runs, pendingInteractions, responses, said, dialogs, commands, remote>>,
         \A h \in Handles : /\ handles'[h].active = handles[h].active
                            /\ handles[h].at = "made" => handles'[h].at = "made"
                            /\ handles[h].at = "made" /\ peers'[h] = "open" => peers[h] = "open"
  PROVE  WorkingInv' /\ PiMoves
<1>1. /\ RunsTyped /\ ProcessesTyped /\ DialogsTyped /\ DialogInv /\ runs \in [Runs -> PiRun]
      /\ \A r \in Runs : Honest(runs[r], said[r]) /\ Concluded(runs[r])
  BY PiTyped
<1>2. RunsTyped' /\ RunInv'
  BY <1>1, Unfinishing, RunsKeep
<1>3. AgentInv'
  BY AgentsKeep
<1>4. ProcessesTyped'
  BY <1>1 DEF ProcessesTyped
<1>5. DialogsTyped' /\ DialogInv'
  BY <1>1 DEF DialogsTyped, DialogInv
<1>6. PiMoves
  BY <1>1 DEF Honest, PiMoves, Moved
<1> QED BY <1>2, <1>3, <1>4, <1>5, <1>6 DEF WorkingInv

(* One connection comes into another state, and its Session is given away, or not.                   *)
LEMMA ConnectionMoves ==
  ASSUME PiInv, NEW h \in Handles, NEW new \in PiHandle, NEW peer \in {"none", "open", "closing", "gone", "stuck"},
         handles' = [handles EXCEPT ![h] = new], peers' = [peers EXCEPT ![h] = peer],
         UNCHANGED <<client, closing, reads, abandoned>>,
         TablesTyped', OwnInv', ForkInv', Sane(new, peer), handles[h].at = "made" => new.at = "made",
         closing # "ok",
         client = "closed" => new.at \notin Asking /\ (h \in Open' => new.forced # "none"),
         Open' \subseteq Open \cup {h}
  PROVE  ConnectionInv'
<1>1. ConnectionsTyped /\ SaneInv /\ CloseInv
  BY PiTyped
<1>2. \A g \in Handles : /\ handles'[g] = IF g = h THEN new ELSE handles[g]
                         /\ peers'[g] = IF g = h THEN peer ELSE peers[g]
  BY <1>1 DEF ConnectionsTyped
<1>3. ConnectionsTyped'
  BY <1>1 DEF ConnectionsTyped
<1>4. SaneInv'
  BY <1>1, <1>2 DEF SaneInv
<1>5. CloseInv'
  BY <1>1, <1>2 DEF CloseInv
<1> QED BY <1>3, <1>4, <1>5 DEF ConnectionInv

(* The Client moves on, and none of its connections does. *)
LEMMA ClientMoves ==
  ASSUME PiInv, UNCHANGED <<openingSessions, forkingSessions, sessions, created, ConnectionVars, responses, process>>,
         client' \in {"none", "probing", "failed", "open", "closed"}, closing' \in {"none", "waiting", "ok", "failed"},
         CloseInv'
  PROVE  PiInv' /\ PiMoves
<1>1. /\ UNCHANGED <<runs, handles, peers, reads, abandoned, pendingInteractions>>
      /\ UNCHANGED <<responses, said, dialogs, commands, remote>>
  BY DEF ConnectionVars, process
<1>2. TablesTyped /\ ConnectionsTyped /\ SaneInv /\ OwnInv /\ ForkInv
  BY PiTyped
<1>3. TablesTyped' /\ ConnectionsTyped' /\ SaneInv' /\ OwnInv'
  BY <1>1, <1>2 DEF TablesTyped, ConnectionsTyped, SaneInv, OwnInv
<1>4. ForkInv'
  BY <1>1, <1>2 DEF ForkInv, Forks
<1>5. WorkingInv' /\ PiMoves
  BY <1>1, WorkRests
<1> QED BY <1>3, <1>4, <1>5 DEF PiInv, ConnectionInv

LEMMA ConnectKeeps ==
  ASSUME PiInv, (\E profile \in ProfileOutcomes : Connect(profile)) \/ (\E ok \in BOOLEAN : Probed(ok))
  PROVE  PiInv' /\ PiMoves
<1>1. /\ UNCHANGED <<closing, openingSessions, forkingSessions, sessions, created, ConnectionVars, responses, process>>
      /\ client \in {"none", "probing"} /\ client' \in {"probing", "failed", "open"}
  BY DEF Connect, Probed
<1>2. CloseInv /\ TablesTyped
  BY PiTyped
<1>3. closing = "none" /\ closing' = "none"
  BY <1>1, <1>2 DEF CloseInv, TablesTyped
<1>4. CloseInv'
  BY <1>1, <1>3 DEF CloseInv
<1> QED BY <1>1, <1>3, <1>4, ClientMoves

(* close() succeeds when nothing is left of an opening, and every Session it closed by force is gone.  *)
LEMMA ClosedKeeps ==
  ASSUME PiInv, Closed
  PROVE  PiInv' /\ PiMoves
<1>1. /\ UNCHANGED <<client, openingSessions, forkingSessions, sessions, created, ConnectionVars, responses, process>>
      /\ UNCHANGED <<handles, peers, sessions>> /\ closing = "waiting" /\ closing' \in {"ok", "failed"}
      /\ closing' = "ok" => openingSessions = {} /\ \A h \in Open : handles[h].forced # "failed"
      /\ \A h \in Open : handles[h].forced # "waiting"
  BY DEF Closed, ConnectionVars
<1>2. CloseInv /\ TablesTyped /\ OwnInv /\ \A h \in Handles : handles[h] \in PiHandle /\ Sane(handles[h], peers[h])
  BY PiTyped
<1>3. client = "closed"
  BY <1>1, <1>2 DEF CloseInv
<1>4. ASSUME closing' = "ok", NEW h \in Handles
      PROVE  handles[h].at = "disowned" \/ peers[h] \in {"none", "gone"}
  BY <1>2, <1>1, <1>4, <1>3 DEF PiHandle, OwnInv, Sane, Open, CloseInv
<1>5. Open' = Open
  BY <1>1 DEF Open
<1>6. CloseInv'
  BY <1>1, <1>4, <1>2, <1>3, <1>5 DEF CloseInv
<1>7. client' \in {"none", "probing", "failed", "open", "closed"}
  BY <1>1, <1>2 DEF TablesTyped
<1> QED BY <1>1, <1>6, <1>7, ClientMoves

(* A connection that is no Session moves, or one that is becomes another that is: its Runs do not.   *)
LEMMA OpeningMoves ==
  ASSUME PiInv, NEW h \in Handles, NEW new \in PiHandle, NEW peer \in {"none", "open", "closing", "gone", "stuck"},
         handles[h].at \notin {"made", "refused", "disowned"}, new.active = NoRun,
         handles' = [handles EXCEPT ![h] = new], peers' = [peers EXCEPT ![h] = peer],
         UNCHANGED <<client, closing, reads, abandoned, runs, pendingInteractions, responses, process>>,
         TablesTyped', OwnInv', ForkInv', Sane(new, peer),
         client = "closed" => new.at \notin Asking \cup {"made"},
         Open' \subseteq Open \cup {h}, handles[h].at = "free" => client = "open"
  PROVE  PiInv' /\ PiMoves
<1>1. /\ ConnectionsTyped /\ CloseInv /\ OwnInv /\ TablesTyped
      /\ \A g \in Handles : handles[g] \in PiHandle /\ Sane(handles[g], peers[g])
  BY PiTyped
<1>2. handles[h].at = "free" \/ handles[h].at \in Unfinished
  BY <1>1 DEF PiHandle
<1>3. closing # "ok"
  BY <1>1, <1>2 DEF OwnInv, CloseInv
<1>4. client = "closed" => new.at \notin Asking /\ (h \in Open' => new.forced # "none")
  BY NullAssumption, <1>1 DEF OwnInv, Open, ConnectionsTyped
<1>5. ConnectionInv'
  BY <1>3, <1>4, ConnectionMoves
<1>6. WorkingInv' /\ PiMoves
  <2>1. \A g \in Handles : /\ handles'[g].active = handles[g].active
                           /\ handles[g].at = "made" => handles'[g].at = "made"
                           /\ handles[g].at = "made" /\ peers'[g] = "open" => peers[g] = "open"
    <3> TAKE g \in Handles
    <3>1. handles[h].active = NoRun
      BY <1>1 DEF Sane
    <3>2. /\ handles'[g] = IF g = h THEN new ELSE handles[g]
          /\ peers'[g] = IF g = h THEN peer ELSE peers[g]
      BY <1>1 DEF ConnectionsTyped
    <3> QED BY <3>1, <3>2
  <2>2. UNCHANGED <<runs, pendingInteractions, responses, said, dialogs, commands, remote>>
    BY DEF process
  <2> QED BY <2>1, <2>2, WorkRests
<1> QED BY <1>5, <1>6 DEF PiInv

LEMMA OpensKeep ==
  ASSUME PiInv, NEW h \in Handles, NEW type \in {"create", "resume", "fork"}, NEW source \in Sessions \cup {NoSession},
         Opening(h, type, source), created' = created,
         type # "fork" => forkingSessions' = forkingSessions,
         type = "fork" => /\ source \in created \ forkingSessions
                          /\ forkingSessions' = forkingSessions \cup {source}
                          /\ sessions[source] # NoHandle => handles[sessions[source]].active = NoRun
  PROVE  PiInv' /\ PiMoves
<1>1. /\ TablesTyped /\ ConnectionsTyped /\ OwnInv /\ ForkInv /\ SaneInv /\ CloseInv
      /\ \A g \in Handles : handles[g] \in PiHandle /\ Sane(handles[g], peers[g])
  BY PiTyped
<1>2. PICK new : new = [handles[h] EXCEPT !.at = "spawn", !.kind = type, !.source = source]
  OBVIOUS
<1>3. /\ new \in PiHandle /\ new.at = "spawn" /\ new.kind = type /\ new.source = source
      /\ new.active = handles[h].active /\ new.closed = handles[h].closed /\ new.aborted = handles[h].aborted
      /\ new.forced = handles[h].forced
  BY <1>1, <1>2 DEF PiHandle, Unfinished
<1>4. /\ client = "open" /\ handles[h].at = "free" /\ openingSessions' = openingSessions \cup {h}
      /\ UNCHANGED <<client, closing, sessions, created, runs, reads, abandoned, pendingInteractions, responses, peers>>
      /\ UNCHANGED process
  BY DEF Opening
<1>5. handles' = [handles EXCEPT ![h] = new]
  BY <1>1, <1>2 DEF Opening, ConnectionsTyped
<1>6. peers' = [peers EXCEPT ![h] = peers[h]] /\ peers[h] \in {"none", "open", "closing", "gone", "stuck"}
  BY <1>1, <1>4 DEF ConnectionsTyped
<1>7. peers[h] = "none" /\ ~handles[h].closed /\ ~handles[h].aborted /\ handles[h].active = NoRun
  BY <1>1, <1>4 DEF Sane
<1>8. Sane(new, peers[h])
  BY <1>1, <1>3, <1>4, <1>7 DEF Sane, Asking
<1>9. \A g \in Handles : handles'[g] = IF g = h THEN new ELSE handles[g]
  BY <1>1, <1>5 DEF ConnectionsTyped
<1>10. TablesTyped'
  BY <1>1, <1>4 DEF TablesTyped
<1>11. OwnInv'
  BY <1>1, <1>4, <1>9, <1>3 DEF OwnInv, TablesTyped
<1>12. ForkInv'
  <2>1. \A g \in Handles : Forks(g)' <=> (IF g = h THEN type = "fork" ELSE Forks(g))
    BY <1>3, <1>9 DEF Forks, Unfinished
  <2>2. \A g \in Handles : Forks(g)' => handles'[g].source \in forkingSessions'
    BY <1>1, <1>3, <1>9, <2>1 DEF ForkInv
  <2>3. \A f, g \in Handles : (f # g /\ Forks(f)' /\ Forks(g)') => handles'[f].source # handles'[g].source
    BY <1>1, <1>3, <1>9, <2>1 DEF ForkInv
  <2>4. ASSUME NEW g \in Handles, handles'[g].active # NoRun
        PROVE  handles'[g].session \notin forkingSessions'
    BY <1>3, <1>7, <1>9, <2>4, <1>1, NullAssumption DEF ForkInv, Sane, OwnInv
  <2> QED BY <2>2, <2>3, <2>4 DEF ForkInv
<1>13. Open' \subseteq Open \cup {h}
  BY <1>4 DEF Open
<1>14. /\ client = "closed" => new.at \notin Asking \cup {"made"}
       /\ handles[h].at \notin {"made", "refused", "disowned"} /\ new.active = NoRun
       /\ handles[h].at = "free" => client = "open"
  BY <1>3, <1>4, <1>7
<1>15. UNCHANGED <<client, closing, reads, abandoned, runs, pendingInteractions, responses, process>>
  BY <1>4
<1> QED BY <1>3, <1>5, <1>6, <1>8, <1>10, <1>11, <1>12, <1>13, <1>14, <1>15, OpeningMoves

LEMMA OpeningsKeep ==
  ASSUME PiInv, NEW h \in Handles, Create(h) \/ \E s \in Sessions : Resume(h, s) \/ Fork(h, s)
  PROVE  PiInv' /\ PiMoves
<1>1. CASE Create(h)
  BY <1>1, OpensKeep DEF Create, Opening
<1>2. ASSUME NEW s \in Sessions, Resume(h, s)
      PROVE  PiInv' /\ PiMoves
  BY <1>2, OpensKeep DEF Resume, Opening
<1>3. ASSUME NEW s \in Sessions, Fork(h, s)
      PROVE  PiInv' /\ PiMoves
  BY <1>3, OpensKeep DEF Fork, Opening
<1> QED BY <1>1, <1>2, <1>3

Turned(h, step) == handles' = [handles EXCEPT ![h].at = step]

(* An opening comes to another step, keeps what it is of, and its process goes on or is ended.       *)
LEMMA OpeningGoesOn ==
  ASSUME PiInv, NEW h \in Handles, NEW step \in {"clone", "child get_state", "cleanup", "get_state", "terminating"},
         NEW peer \in {"open", "closing"},
         handles[h].at \in Asking \cup {"spawn"},
         Turned(h, step), peers' = [peers EXCEPT ![h] = peer],
         step \in {"cleanup", "terminating"} <=> peer = "closing", peer = "open" => client # "closed",
         UNCHANGED <<client, closing, openingSessions, forkingSessions, sessions>>,
         created \subseteq created', created' \subseteq Sessions,
         UNCHANGED <<reads, abandoned, runs, pendingInteractions, responses, process>>
  PROVE  PiInv' /\ PiMoves
<1>1. /\ TablesTyped /\ ConnectionsTyped /\ OwnInv /\ ForkInv /\ SaneInv /\ CloseInv
      /\ \A g \in Handles : handles[g] \in PiHandle /\ Sane(handles[g], peers[g])
  BY PiTyped
<1>2. PICK new : new = [handles[h] EXCEPT !.at = step]
  OBVIOUS
<1>3. /\ new \in PiHandle /\ new.at = step /\ new.kind = handles[h].kind /\ new.source = handles[h].source
      /\ new.active = handles[h].active /\ new.closed = handles[h].closed /\ new.aborted = handles[h].aborted
      /\ new.forced = handles[h].forced /\ new.session = handles[h].session
  BY <1>1, <1>2 DEF PiHandle, Unfinished
<1>4. handles' = [handles EXCEPT ![h] = new]
  BY <1>1, <1>2 DEF ConnectionsTyped, Turned
<1>5. handles[h].at \in Unfinished
  BY DEF Asking, Unfinished
<1>6. /\ handles[h].at \notin {"made", "refused", "free", "disowned"} /\ ~handles[h].closed /\ ~handles[h].aborted
      /\ handles[h].active = NoRun /\ handles[h].forced = "none"
  BY <1>1 DEF Sane, Asking
<1>7. Sane(new, peer)
  BY <1>3, <1>6 DEF Sane, Asking
<1>8. \A g \in Handles : /\ handles'[g] = IF g = h THEN new ELSE handles[g]
                         /\ peers'[g] = IF g = h THEN peer ELSE peers[g]
  BY <1>1, <1>4 DEF ConnectionsTyped
<1>9. TablesTyped'
  BY <1>1 DEF TablesTyped
<1>10. OwnInv'
  <2>1. \A s \in Sessions : sessions'[s] # NoHandle => handles'[sessions'[s]].at = "made" /\ handles'[sessions'[s]].session = s
    <3>1. \A s \in Sessions : sessions[s] # NoHandle => sessions[s] \in Handles
      BY <1>1 DEF TablesTyped
    <3>2. handles[h].at # "made"
      BY <1>6
    <3>3. \A s \in Sessions : sessions[s] # NoHandle => sessions[s] # h
      BY <1>1, <3>2 DEF OwnInv
    <3> QED BY <1>1, <1>8, <3>1, <3>3, ZenonT(60) DEF OwnInv
  <2>4. handles'[h].at \notin {"made", "refused"} /\ handles[h].at \in Unfinished
    BY <1>3, <1>5, <1>8
  <2>5. \A g \in Handles : g # h => handles'[g] = handles[g] /\ peers'[g] = peers[g]
    BY <1>8
  <2>6. sessions' = sessions /\ openingSessions' = openingSessions
    OBVIOUS
  <2>2. \A g \in Handles : (handles'[g].at = "made" /\ peers'[g] # "gone") => sessions'[handles'[g].session] = g
    <3>1. \A g \in Handles : (handles[g].at = "made" /\ peers[g] # "gone") => sessions[handles[g].session] = g
      BY <1>1 DEF OwnInv
    <3> TAKE g \in Handles
    <3> HAVE handles'[g].at = "made" /\ peers'[g] # "gone"
    <3>2. handles'[g] = handles[g] /\ peers'[g] = peers[g]
      BY <2>4, <2>5
    <3> QED BY <2>6, <3>1, <3>2
  <2>3. \A g \in Handles : (handles'[g].at \in Unfinished \/ (handles'[g].at = "refused" /\ peers'[g] = "stuck"))
          => g \in openingSessions'
    BY <1>1, <2>4, <2>5, <2>6 DEF OwnInv
  <2> QED BY <2>1, <2>2, <2>3 DEF OwnInv
<1>11. ForkInv'
  <2>1. \A g \in Handles : /\ Forks(g)' => Forks(g) /\ handles'[g].source = handles[g].source
                           /\ handles'[g].active = handles[g].active /\ handles'[g].session = handles[g].session
    BY <1>3, <1>5, <1>8 DEF Forks
  <2> QED BY <1>1, <2>1, ZenonT(60) DEF ForkInv
<1>12. Open' \subseteq Open \cup {h}
  BY DEF Open
<1>13. /\ client = "closed" => new.at \notin Asking \cup {"made"}
       /\ peer \in {"none", "open", "closing", "gone", "stuck"}
  BY <1>3 DEF Asking
<1> QED BY <1>3, <1>4, <1>6, <1>7, <1>9, <1>10, <1>11, <1>12, <1>13, OpeningMoves

(* An opening has failed, and its process has none, is gone, or is kept with it.                     *)
LEMMA OpeningFails ==
  ASSUME PiInv, NEW h \in Handles, NEW gone \in BOOLEAN, NEW peer \in {"none", "gone", "stuck"},
         NEW at \in {"refused", "disowned"}, handles[h].at \in {"spawn", "cleanup", "terminating"},
         OpeningFailed(h, at, gone), peers' = [peers EXCEPT ![h] = peer],
         peer = "stuck" => ~gone \/ at = "disowned", handles[h].at # "spawn" => peer # "none",
         UNCHANGED <<client, closing, sessions, created, reads, abandoned, runs, pendingInteractions, responses, process>>
  PROVE  PiInv' /\ PiMoves
<1>1. /\ TablesTyped /\ ConnectionsTyped /\ OwnInv /\ ForkInv /\ SaneInv /\ CloseInv
      /\ \A g \in Handles : handles[g] \in PiHandle /\ Sane(handles[g], peers[g])
  BY PiTyped
<1>2. PICK new : new = [handles[h] EXCEPT !.at = at]
  OBVIOUS
<1>3. /\ new \in PiHandle /\ new.at = at /\ new.active = handles[h].active /\ new.closed = handles[h].closed
      /\ new.aborted = handles[h].aborted /\ new.forced = handles[h].forced
  BY <1>1, <1>2 DEF PiHandle, Unfinished
<1>4. handles' = [handles EXCEPT ![h] = new]
  BY <1>1, <1>2 DEF ConnectionsTyped, OpeningFailed
<1>5. handles[h].at \in Unfinished /\ handles[h].at \notin {"made", "refused", "free", "disowned"}
  BY DEF Unfinished
<1>6. /\ ~handles[h].closed /\ handles[h].active = NoRun /\ handles[h].forced = "none"
      /\ handles[h].aborted => handles[h].at # "spawn"
  BY <1>1 DEF Sane
<1>7. Sane(new, peer)
  BY <1>3, <1>6 DEF Sane, Asking
<1>8. \A g \in Handles : /\ handles'[g] = IF g = h THEN new ELSE handles[g]
                         /\ peers'[g] = IF g = h THEN peer ELSE peers[g]
  BY <1>1, <1>4 DEF ConnectionsTyped
<1>9. /\ openingSessions' = IF gone THEN openingSessions \ {h} ELSE openingSessions
      /\ forkingSessions' = IF handles[h].kind = "fork" THEN forkingSessions \ {handles[h].source} ELSE forkingSessions
  BY DEF OpeningFailed
<1>10. TablesTyped'
  BY <1>1, <1>9 DEF TablesTyped
<1>11. OwnInv'
  <2>1. handles'[h].at = at /\ peers'[h] = peer /\ h \in openingSessions
    BY <1>1, <1>3, <1>5, <1>8 DEF OwnInv
  <2>2. \A g \in Handles : g # h => handles'[g] = handles[g] /\ peers'[g] = peers[g]
    BY <1>8
  <2>3. \A s \in Sessions : sessions'[s] # NoHandle => handles'[sessions'[s]].at = "made" /\ handles'[sessions'[s]].session = s
    BY <1>1, <1>5, <2>2 DEF TablesTyped, OwnInv
  <2>4. \A g \in Handles : (handles'[g].at = "made" /\ peers'[g] # "gone") => sessions'[handles'[g].session] = g
    BY <1>1, <2>1, <2>2 DEF OwnInv
  <2>5. h \in openingSessions' \/ peers'[h] # "stuck" \/ handles'[h].at = "disowned"
    BY <1>9, <2>1
  <2>6. \A g \in Handles : (handles'[g].at \in Unfinished \/ (handles'[g].at = "refused" /\ peers'[g] = "stuck"))
          => g \in openingSessions'
    BY <1>1, <1>9, <2>1, <2>2, <2>5, ZenonT(60) DEF OwnInv, Unfinished
  <2> QED BY <2>3, <2>4, <2>6 DEF OwnInv
<1>12. ForkInv'
  <2>1. \A g \in Handles : Forks(g)' => g # h /\ Forks(g) /\ handles'[g] = handles[g]
    BY <1>3, <1>8 DEF Forks, Unfinished
  <2>2. \A g \in Handles : Forks(g)' => handles'[g].source \in forkingSessions'
    <3> TAKE g \in Handles
    <3> HAVE Forks(g)'
    <3>1. handles[g].source \in forkingSessions
      BY <1>1, <2>1 DEF ForkInv
    <3>2. handles[h].kind = "fork" => Forks(h) /\ handles[g].source # handles[h].source
      BY <1>1, <1>5, <2>1 DEF ForkInv, Forks
    <3> QED BY <1>9, <2>1, <3>1, <3>2
  <2>3. \A f, g \in Handles : (f # g /\ Forks(f)' /\ Forks(g)') => handles'[f].source # handles'[g].source
    BY <1>1, <2>1 DEF ForkInv
  <2>4. \A g \in Handles : handles'[g].active # NoRun => handles'[g].session \notin forkingSessions
    BY <1>1, <1>3, <1>6, <1>8 DEF ForkInv
  <2> QED BY <1>9, <2>2, <2>3, <2>4 DEF ForkInv
<1>13. Open' \subseteq Open \cup {h}
  BY DEF Open
<1>14. /\ client = "closed" => new.at \notin Asking \cup {"made"}
       /\ peer \in {"none", "open", "closing", "gone", "stuck"} /\ new.active = NoRun
  BY <1>3, <1>6 DEF Asking
<1> QED BY <1>3, <1>4, <1>5, <1>7, <1>10, <1>11, <1>12, <1>13, <1>14, OpeningMoves

LEMMA SpawnedKeeps ==
  ASSUME PiInv, NEW h \in Handles, NEW outcome \in SpawnOutcomes, Spawned(h, outcome)
  PROVE  PiInv' /\ PiMoves
<1>1. /\ handles[h].at = "spawn"
      /\ UNCHANGED <<client, closing, sessions, created, runs, reads, abandoned, pendingInteractions, responses, process>>
      /\ TablesTyped /\ ConnectionsTyped /\ Sane(handles[h], peers[h])
  BY PiTyped DEF Spawned
<1>2. CASE outcome \in {"ok", "no transport"}
  BY <1>2, <1>1, OpeningGoesOn DEF Spawned, Turned, TablesTyped
<1>3. CASE outcome = "no process"
  BY <1>3, <1>1, OpeningFails DEF Spawned, Sane, ConnectionsTyped
<1> QED BY <1>2, <1>3 DEF SpawnOutcomes

LEMMA GivenUpKeeps ==
  ASSUME PiInv, NEW h \in Handles, handles[h].at \in Asking, Turned(h, "cleanup"),
         peers' = [peers EXCEPT ![h] = "closing"], UNCHANGED <<client, closing, openingSessions, forkingSessions, sessions>>,
         created \subseteq created', created' \subseteq Sessions,
         UNCHANGED <<reads, abandoned, runs, pendingInteractions, responses, process>>
  PROVE  PiInv' /\ PiMoves
BY OpeningGoesOn

LEMMA GoesOnKeeps ==
  ASSUME PiInv, NEW h \in Handles, NEW step \in {"clone", "child get_state"}, handles[h].at \in Asking, Turned(h, step),
         UNCHANGED <<opening, peers, reads, abandoned, runs, pendingInteractions, responses, process>>
  PROVE  PiInv' /\ PiMoves
<1>1. /\ UNCHANGED <<client, closing, openingSessions, forkingSessions, sessions>> /\ created' = created
      /\ UNCHANGED <<reads, abandoned, runs, pendingInteractions, responses, process>> /\ peers' = peers
  BY DEF opening
<1>2. TablesTyped /\ ConnectionsTyped /\ CloseInv /\ Sane(handles[h], peers[h])
  BY PiTyped
<1>3. peers' = [peers EXCEPT ![h] = "open"]
  BY <1>1, <1>2 DEF Sane, ConnectionsTyped
<1>4. client # "closed"
  BY <1>2 DEF CloseInv
<1>5. created \subseteq created' /\ created' \subseteq Sessions
  BY <1>1, <1>2 DEF TablesTyped
<1> QED BY <1>1, <1>3, <1>4, <1>5, OpeningGoesOn

(* bind() of a Session that the Client does not have.                                                *)
LEMMA BindsKeep ==
  ASSUME PiInv, NEW h \in Handles, NEW s \in Sessions, handles[h].at \in Asking, Bound(h, s), sessions[s] = NoHandle,
         UNCHANGED <<client, closing, runs, reads, abandoned, pendingInteractions, responses, process>>
  PROVE  PiInv' /\ PiMoves
<1>1. /\ TablesTyped /\ ConnectionsTyped /\ OwnInv /\ ForkInv /\ SaneInv /\ CloseInv
      /\ \A g \in Handles : handles[g] \in PiHandle /\ Sane(handles[g], peers[g])
  BY PiTyped
<1>2. PICK new : new = [handles[h] EXCEPT !.at = "made", !.session = s]
  OBVIOUS
<1>3. /\ new \in PiHandle /\ new.at = "made" /\ new.session = s /\ new.active = handles[h].active
      /\ new.closed = handles[h].closed /\ new.aborted = handles[h].aborted /\ new.forced = handles[h].forced
  BY <1>1, <1>2 DEF PiHandle
<1>4. handles' = [handles EXCEPT ![h] = new]
  BY <1>1, <1>2 DEF ConnectionsTyped, Bound
<1>5. /\ peers' = peers /\ peers[h] = "open" /\ client # "closed" /\ handles[h].at \in Unfinished
      /\ handles[h].at \notin {"made", "refused", "free", "disowned"} /\ h \in Handles
  BY <1>1 DEF Bound, Sane, CloseInv, Asking, Unfinished
<1>6. ~handles[h].closed /\ ~handles[h].aborted /\ handles[h].active = NoRun /\ handles[h].forced = "none"
  BY <1>1, <1>5 DEF Sane
<1>7. Sane(new, "open")
  BY <1>3, <1>6, NullAssumption DEF Sane, Asking
<1>8. peers' = [peers EXCEPT ![h] = "open"]
  BY <1>1, <1>5 DEF ConnectionsTyped
<1>9. /\ sessions' = [sessions EXCEPT ![s] = h] /\ openingSessions' = openingSessions \ {h}
      /\ forkingSessions' = IF handles[h].kind = "fork" THEN forkingSessions \ {handles[h].source} ELSE forkingSessions
      /\ created' = created \cup {s}
  BY DEF Bound
<1>10. TablesTyped'
  BY <1>1, <1>9 DEF TablesTyped
<1>11. \A g \in Handles : g # h => handles'[g] = handles[g]
  BY <1>4
<1>12. handles'[h] = new
  BY <1>1, <1>4 DEF ConnectionsTyped
<1>13. \A q \in Sessions : sessions'[q] = IF q = s THEN h ELSE sessions[q]
  BY <1>1, <1>9 DEF TablesTyped
<1>14. OwnInv'
  <2>1. \A q \in Sessions : sessions'[q] # NoHandle => handles'[sessions'[q]].at = "made" /\ handles'[sessions'[q]].session = q
    <3> TAKE q \in Sessions
    <3> HAVE sessions'[q] # NoHandle
    <3>1. CASE q = s
      BY <1>3, <1>12, <1>13, <3>1
    <3>2. CASE q # s
      BY <1>1, <1>13, <3>2, <1>5, <1>11 DEF TablesTyped, OwnInv
    <3> QED BY <3>1, <3>2
  <2>2. \A g \in Handles : (handles'[g].at = "made" /\ peers'[g] # "gone") => sessions'[handles'[g].session] = g
    <3> TAKE g \in Handles
    <3> HAVE handles'[g].at = "made" /\ peers'[g] # "gone"
    <3>1. CASE g = h
      BY <1>3, <1>12, <1>13, <3>1
    <3>2. CASE g # h
      BY <1>5, <1>11, <3>2, <1>1, NullAssumption, <1>13 DEF OwnInv, Sane, PiHandle
    <3> QED BY <3>1, <3>2
  <2>3. \A g \in Handles : (handles'[g].at \in Unfinished \/ (handles'[g].at = "refused" /\ peers'[g] = "stuck"))
          => g \in openingSessions'
    BY <1>1, <1>3, <1>5, <1>9, <1>11, <1>12, ZenonT(60) DEF OwnInv, Unfinished
  <2> QED BY <2>1, <2>2, <2>3 DEF OwnInv
<1>15. ForkInv'
  <2>1. \A g \in Handles : Forks(g)' => g # h /\ Forks(g) /\ handles'[g] = handles[g]
    BY <1>3, <1>11, <1>12 DEF Forks, Unfinished
  <2>2. \A g \in Handles : Forks(g)' => handles'[g].source \in forkingSessions'
    <3> TAKE g \in Handles
    <3> HAVE Forks(g)'
    <3>1. handles[g].source \in forkingSessions
      BY <1>1, <2>1 DEF ForkInv
    <3>2. handles[h].kind = "fork" => Forks(h) /\ handles[g].source # handles[h].source
      BY <1>1, <1>5, <2>1 DEF ForkInv, Forks
    <3> QED BY <1>9, <2>1, <3>1, <3>2
  <2>3. \A f, g \in Handles : (f # g /\ Forks(f)' /\ Forks(g)') => handles'[f].source # handles'[g].source
    BY <1>1, <2>1 DEF ForkInv
  <2>4. \A g \in Handles : handles'[g].active # NoRun => handles'[g].session \notin forkingSessions
    BY <1>1, <1>3, <1>6, <1>11, <1>12 DEF ForkInv
  <2> QED BY <1>9, <2>2, <2>3, <2>4 DEF ForkInv
<1>16. Open' \subseteq Open \cup {h}
  BY <1>13 DEF Open
<1>17. new.active = NoRun /\ handles[h].at \notin {"made", "refused", "free", "disowned"}
  BY <1>3, <1>5, <1>6
<1>18. client = "closed" => new.at \notin Asking \cup {"made"}
  BY <1>5
<1> QED BY <1>3, <1>4, <1>7, <1>8, <1>10, <1>14, <1>15, <1>16, <1>17, <1>18, OpeningMoves

LEMMA AnswersKeep ==
  ASSUME PiInv, NEW h \in Handles, NEW s \in Sessions, StateAnswered(h, s) \/ ChildAnswered(h, s)
  PROVE  PiInv' /\ PiMoves
<1>1. handles[h].at \in Asking
  BY DEF StateAnswered, ChildAnswered, Asking
<1>2. UNCHANGED <<client, closing, runs, reads, abandoned, pendingInteractions, responses, process>>
  BY DEF StateAnswered, ChildAnswered
<1>3. CASE Bound(h, s) /\ sessions[s] = NoHandle
  BY <1>1, <1>2, <1>3, BindsKeep
<1>4. CASE Bound(h, s) /\ sessions[s] # NoHandle
  BY <1>4, PiTyped, <1>1, <1>2, GivenUpKeeps DEF Bound, Turned, TablesTyped
<1>5. CASE StateAnswered(h, s) /\ handles[h].kind = "fork"
  BY <1>5, <1>2, <1>1, GoesOnKeeps DEF StateAnswered, Turned, opening
<1> QED BY <1>3, <1>4, <1>5 DEF StateAnswered, ChildAnswered

LEMMA OpeningStepKeeps ==
  ASSUME PiInv, NEW h \in Handles, OpeningStep(h)
  PROVE  PiInv' /\ PiMoves
<1>1. CASE \E outcome \in SpawnOutcomes : Spawned(h, outcome)
  BY <1>1, SpawnedKeeps
<1>2. CASE OpeningRejected(h)
  BY <1>2, PiTyped, GivenUpKeeps DEF OpeningRejected, Turned, Asking, opening, TablesTyped
<1>3. CASE Cloned(h)
  BY <1>3, GoesOnKeeps DEF Cloned, Turned, Asking
<1>4. ASSUME NEW s \in Sessions, StateAnswered(h, s) \/ ChildAnswered(h, s)
      PROVE  PiInv' /\ PiMoves
  BY <1>4, AnswersKeep
<1> QED BY <1>1, <1>2, <1>3, <1>4 DEF OpeningStep

LEMMA PeerFailsKeeps ==
  ASSUME PiInv, NEW h \in Handles, NEW protocol \in BOOLEAN, PeerFails(h, protocol)
  PROVE  PiInv' /\ PiMoves
<1>1. /\ peers[h] = "open" /\ Sane(handles[h], peers[h]) /\ handles[h] \in PiHandle /\ UNCHANGED <<opening, responses, process>>
      /\ runs \in [Runs -> PiRun] /\ \A r \in Runs : Honest(runs[r], said[r]) /\ Concluded(runs[r])
  BY PiTyped DEF PeerFails
<1>2. CASE ~InSession(h)
  BY <1>1, <1>2, PiTyped, GivenUpKeeps
     DEF Sane, InSession, PiHandle, Unfinished, Asking, PeerFails, Turned, opening, TablesTyped
<1>3. CASE InSession(h)
  <2>1. PICK now : now = [r \in Runs |-> [runs[r] EXCEPT !.incompatible = @ \/ (protocol /\ r = handles[h].active)]]
    OBVIOUS
  <2>2. PICK result \in {"failed", "connection_aborted"} : result = IF protocol THEN "failed" ELSE "connection_aborted"
    OBVIOUS
  <2>3. EndConnection({h}, now, handles, result) /\ \A g \in {h} : handles[g].at = "made"
    BY <1>3, <2>1, <2>2 DEF PeerFails, InSession
  <2>4. ASSUME NEW r \in Runs
        PROVE  /\ now[r] \in PiRun /\ Honest(now[r], said[r]) /\ Concluded(now[r])
               /\ now[r].start = runs[r].start /\ now[r].owner = runs[r].owner /\ now[r].result = runs[r].result
               /\ now[r].requested = runs[r].requested /\ now[r].resolved = runs[r].resolved
               /\ now[r].settled = runs[r].settled /\ now[r].prompt = runs[r].prompt
               /\ (protocol /\ r = handles[h].active) => now[r].incompatible
    BY <1>1, <2>1 DEF PiRun, Honest, Concluded
  <2>5. now \in [Runs -> PiRun]
    BY <2>1, <2>4
  <2>6. Drafted(now)
    BY <2>4, <2>5 DEF Drafted
  <2>7. result = "failed" => \A g \in {h} : handles[g].active # NoRun => now[handles[g].active].incompatible
    BY <2>2, <2>4, Unfinishing
  <2>8. ConnectionInv'
    BY <1>1, <2>3, HandlesEnd
  <2>9. UNCHANGED <<said, commands, remote>> /\ UNCHANGED <<responses, dialogs>>
    BY <1>1 DEF process
  <2>10. /\ RunsTyped' /\ RunInv' /\ AgentInv' /\ PiMoves
         /\ pendingInteractions' \subseteq pendingInteractions
         /\ \A n \in pendingInteractions' : runs'[dialogs[n]].result = "none"
         /\ \A q \in Runs : runs'[q].requested = runs[q].requested
    <3>1. \A g \in Handles : handles[g] \in PiHandle /\ handles[g].active = handles[g].active
      BY PiTyped
    <3>2. /\ \A r \in Runs : now[r].settled = runs[r].settled
          /\ \A r \in Runs : now[r].prompt = runs[r].prompt \/ runs[r].owner \in {h}
          /\ \A r \in Runs : Concluded(now[r]) \/ runs[r].owner \in {h}
      BY <2>4
    <3> QED BY <2>3, <2>6, <2>7, <2>9, <3>1, <3>2, ConnectionsEnd
  <2>11. Quiet /\ remote' \in [Handles -> Runs \cup {NoRun}]
    BY <2>9, PiTyped DEF Quiet, ProcessesTyped
  <2> QED BY <2>8, <2>9, <2>10, <2>11, RestKeeps
<1> QED BY <1>2, <1>3

(* The process of an opening has exited, or could not be ended.                                      *)
LEMMA OpeningEnds ==
  ASSUME PiInv, NEW h \in Handles, NEW gone \in BOOLEAN, PeerEnded(h, gone),
         handles[h].at \in {"cleanup", "terminating"}
  PROVE  PiInv' /\ PiMoves
<1>1. AgentInv /\ ProcessesTyped /\ TablesTyped
  BY PiTyped
<1>2. /\ UNCHANGED <<client, closing, sessions, created, runs, reads, abandoned, pendingInteractions, responses, said, dialogs>>
      /\ commands' = [commands EXCEPT ![h] = <<>>] /\ remote' = [remote EXCEPT ![h] = IF gone THEN NoRun ELSE @]
  BY DEF PeerEnded
<1>3. PICK peer \in {"none", "gone", "stuck"} : peer = IF gone THEN "gone" ELSE "stuck"
  OBVIOUS
<1>4. peers' = [peers EXCEPT ![h] = peer]
  BY <1>3 DEF PeerEnded
<1>5. commands[h] = <<>> /\ remote[h] = NoRun
  BY <1>1 DEF AgentInv
<1>6. commands' = commands /\ remote' = remote
  BY <1>1, <1>2, <1>5 DEF ProcessesTyped
<1>7. UNCHANGED <<client, closing, sessions, created, reads, abandoned, runs, pendingInteractions, responses, process>>
  BY <1>2, <1>6 DEF process
<1>8. PICK lost \in BOOLEAN : lost <=> ~gone /\ handles[h].at = "terminating" /\ client = "closed"
  OBVIOUS
<1>9. PICK at \in {"refused", "disowned"}, forgotten \in BOOLEAN :
        at = (IF lost THEN "disowned" ELSE "refused") /\ (forgotten <=> gone \/ lost)
  OBVIOUS
<1>10. OpeningFailed(h, at, forgotten)
  BY <1>8, <1>9 DEF PeerEnded, OpeningFailed
<1>11. (peer = "stuck" => ~forgotten \/ at = "disowned") /\ peer # "none"
  BY <1>3, <1>9
<1> QED BY <1>2, <1>4, <1>7, <1>10, <1>11, OpeningFails

(* That of a Session: it takes nothing more, and works on at most what it worked on.                 *)
LEMMA SessionWorkEnds ==
  ASSUME PiInv, NEW h \in Handles, peers[h] = "closing", peers'[h] # "open", handles'[h].at = "made",
         \A g \in Handles : /\ handles'[g].at = handles[g].at /\ handles'[g].active = handles[g].active
                            /\ g # h => peers'[g] = peers[g],
         UNCHANGED <<runs, pendingInteractions, responses, said, dialogs>>,
         commands' = [commands EXCEPT ![h] = <<>>],
         remote' \in [Handles -> Runs \cup {NoRun}], remote'[h] \in {remote[h], NoRun},
         \A g \in Handles \ {h} : remote'[g] = remote[g]
  PROVE  WorkingInv' /\ PiMoves
<1>1. /\ RunsTyped /\ ProcessesTyped /\ DialogsTyped /\ DialogInv /\ AgentInv /\ runs \in [Runs -> PiRun]
      /\ \A r \in Runs : Honest(runs[r], said[r]) /\ Concluded(runs[r])
  BY PiTyped
<1>2. RunsTyped' /\ RunInv'
  BY <1>1, Unfinishing, RunsKeep
<1>3. commands \in [Handles -> Seq(Commands)]
  BY <1>1 DEF ProcessesTyped
<1>4. commands'[h] = <<>> /\ \A g \in Handles : g # h => commands'[g] = commands[g]
  BY <1>3
<1>5. AgentInv'
  <2> DEFINE At(g) ==
        /\ handles[g].at # "made" => commands[g] = <<>> /\ remote[g] = NoRun
        /\ remote[g] # NoRun => runs[remote[g]].owner = g /\ ~runs[remote[g]].settled
        /\ \A i \in PromptsAt(g) : runs[commands[g][i].run].owner = g /\ ~runs[commands[g][i].run].settled
        /\ (peers[g] = "open" /\ remote[g] # NoRun) =>
             handles[g].active = remote[g] /\ runs[remote[g]].prompt \in {"taken", "done"}
        /\ peers[g] = "open" =>
             /\ \A i \in PromptsAt(g) :
                  handles[g].active = commands[g][i].run /\ runs[commands[g][i].run].prompt = "sent"
             /\ \A i, j \in PromptsAt(g) : i = j
  <2> SUFFICES \A g \in Handles : At(g)'
    BY DEF AgentInv
  <2>1. \A g \in Handles : At(g)
    BY <1>1 DEF AgentInv
  <2>2. ASSUME NEW g \in Handles, g # h PROVE At(g)'
    BY <1>4, <2>2, <2>1 DEF PromptsAt
  <2>3. At(h)'
    BY <1>4, <2>1 DEF PromptsAt
  <2> QED BY <2>2, <2>3
<1>6. ProcessesTyped'
  BY <1>3, <1>1 DEF ProcessesTyped
<1>7. DialogsTyped' /\ DialogInv'
  BY <1>1 DEF DialogsTyped, DialogInv
<1>8. PiMoves
  BY <1>1 DEF Honest, PiMoves, Moved
<1> QED BY <1>2, <1>5, <1>6, <1>7, <1>8 DEF WorkingInv

LEMMA SessionEnds ==
  ASSUME PiInv, NEW h \in Handles, NEW gone \in BOOLEAN, PeerEnded(h, gone),
         handles[h].at \notin {"cleanup", "terminating"}
  PROVE  PiInv' /\ PiMoves
<1>1. /\ TablesTyped /\ ConnectionsTyped /\ OwnInv /\ ForkInv /\ SaneInv /\ CloseInv /\ ProcessesTyped
      /\ \A g \in Handles : handles[g] \in PiHandle /\ Sane(handles[g], peers[g])
  BY PiTyped
<1>2. PICK forced \in {"none", "waiting", "ok", "failed"} :
        forced = IF handles[h].forced = "waiting" THEN IF gone THEN "ok" ELSE "failed" ELSE handles[h].forced
  BY <1>1 DEF PiHandle
<1>3. PICK new : new = [handles[h] EXCEPT !.forced = forced]
  OBVIOUS
<1>4. /\ new \in PiHandle /\ new.at = handles[h].at /\ new.active = handles[h].active /\ new.closed = handles[h].closed
      /\ new.aborted = handles[h].aborted /\ new.forced = forced /\ new.session = handles[h].session
      /\ new.kind = handles[h].kind /\ new.source = handles[h].source
  BY <1>1, <1>3 DEF PiHandle
<1>5. PICK peer \in {"none", "open", "closing", "gone", "stuck"} : peer = IF gone THEN "gone" ELSE "stuck"
  OBVIOUS
<1>6. handles' = [handles EXCEPT ![h] = new]
  BY <1>1, <1>2, <1>3 DEF PeerEnded, ConnectionsTyped
<1>7. /\ peers' = [peers EXCEPT ![h] = peer] /\ peers[h] = "closing"
      /\ UNCHANGED <<client, closing, openingSessions, forkingSessions, created, reads, abandoned>>
      /\ UNCHANGED <<runs, pendingInteractions, responses, said, dialogs>>
      /\ commands' = [commands EXCEPT ![h] = <<>>] /\ remote' = [remote EXCEPT ![h] = IF gone THEN NoRun ELSE @]
      /\ Forget(IF gone /\ handles[h].forced = "waiting" THEN {h} ELSE {})
  BY <1>5 DEF PeerEnded
<1>8. \A g \in Handles : /\ handles'[g] = IF g = h THEN new ELSE handles[g]
                         /\ peers'[g] = IF g = h THEN peer ELSE peers[g]
  BY <1>1, <1>6, <1>7 DEF ConnectionsTyped
<1>9. handles[h].at = "made" /\ handles[h].active = NoRun /\ handles[h].aborted
  BY <1>1, <1>7 DEF Sane, PiHandle, Unfinished, Asking
<1>10. handles[h].forced \in {"none", "waiting"} /\ (handles[h].closed <=> handles[h].forced # "none")
  BY <1>1, <1>7 DEF Sane, PiHandle
<1>11. Sane(new, peer)
  BY <1>1, <1>9, <1>2, <1>4, <1>5, <1>10 DEF Sane, Asking
<1>12. \A s \in Sessions : /\ sessions'[s] \in {sessions[s], NoHandle}
                           /\ sessions'[s] = NoHandle => sessions[s] = NoHandle \/ (sessions[s] = h /\ peer = "gone")
                           /\ sessions'[s] # NoHandle => sessions'[s] = sessions[s]
  BY <1>5, <1>7 DEF Forget
<1>13. TablesTyped'
  BY <1>1, <1>7, <1>12 DEF Forget, TablesTyped
<1>14. OwnInv'
  <2>1. \A s \in Sessions : sessions'[s] # NoHandle => handles'[sessions'[s]].at = "made" /\ handles'[sessions'[s]].session = s
    <3> TAKE s \in Sessions
    <3> HAVE sessions'[s] # NoHandle
    <3>1. sessions'[s] = sessions[s] /\ sessions[s] \in Handles
      BY <1>1, <1>12 DEF TablesTyped
    <3>2. handles[sessions[s]].at = "made" /\ handles[sessions[s]].session = s
      BY <1>1, <1>12 DEF OwnInv
    <3> QED BY <1>4, <1>8, <3>1, <3>2
  <2>2. \A g \in Handles : (handles'[g].at = "made" /\ peers'[g] # "gone") => sessions'[handles'[g].session] = g
    <3> TAKE g \in Handles
    <3> HAVE handles'[g].at = "made" /\ peers'[g] # "gone"
    <3>1. handles[g].at = "made" /\ peers[g] # "gone" /\ handles'[g].session = handles[g].session /\ handles[g].session \in Sessions
      BY <1>1, <1>4, <1>7, <1>8 DEF Sane, PiHandle
    <3>2. sessions[handles[g].session] = g
      BY <1>1, <3>1 DEF OwnInv
    <3>3. g # NoHandle /\ (g = h => peer # "gone")
      BY <1>8, NullAssumption
    <3> QED BY <1>12, <3>1, <3>2, <3>3
  <2>3. \A g \in Handles : (handles'[g].at \in Unfinished \/ (handles'[g].at = "refused" /\ peers'[g] = "stuck"))
          => g \in openingSessions'
    <3> TAKE g \in Handles
    <3> HAVE handles'[g].at \in Unfinished \/ (handles'[g].at = "refused" /\ peers'[g] = "stuck")
    <3>1. handles'[h].at = "made"
      BY <1>4, <1>8, <1>9
    <3>2. g # h
      BY <3>1 DEF Unfinished
    <3>3. handles'[g] = handles[g] /\ peers'[g] = peers[g] /\ openingSessions' = openingSessions
      BY <1>7, <1>8, <3>2
    <3>4. handles[g].at \in Unfinished \/ (handles[g].at = "refused" /\ peers[g] = "stuck")
      BY <3>3
    <3> QED BY <1>1, <3>3, <3>4 DEF OwnInv
  <2> QED BY <2>1, <2>2, <2>3 DEF OwnInv
<1>15. ForkInv'
  BY <1>4, <1>8, <1>1, <1>7 DEF ForkInv, Forks
<1>16. closing # "ok"
  BY <1>1, <1>7, <1>9 DEF CloseInv
<1>17. Open' \subseteq Open
  BY <1>12, NullAssumption DEF Open
<1>18. client = "closed" => new.at \notin Asking /\ (h \in Open' => new.forced # "none")
  BY <1>1, <1>2, <1>4, <1>9, <1>17 DEF CloseInv, Asking
<1>19. ConnectionInv'
  BY <1>4, <1>7, <1>17, <1>6, <1>11, <1>13, <1>14, <1>15, <1>16, <1>18, ConnectionMoves
<1>20. WorkingInv' /\ PiMoves
  <2>1. peers'[h] # "open" /\ handles'[h].at = "made"
    BY <1>4, <1>5, <1>8, <1>9
  <2>2. \A g \in Handles : /\ handles'[g].at = handles[g].at /\ handles'[g].active = handles[g].active
                           /\ g # h => peers'[g] = peers[g]
    BY <1>4, <1>8
  <2>3. /\ remote' \in [Handles -> Runs \cup {NoRun}] /\ remote'[h] \in {remote[h], NoRun}
        /\ \A g \in Handles \ {h} : remote'[g] = remote[g]
    BY <1>1, <1>7 DEF ProcessesTyped
  <2> QED BY <1>7, <2>1, <2>2, <2>3, SessionWorkEnds
<1> QED BY <1>19, <1>20 DEF PiInv

(* What forceClose() makes of a Session. *)
LEMMA ForcedHandle ==
  ASSUME NEW handle \in PiHandle, NEW peer \in {"none", "open", "closing", "gone", "stuck"}
  PROVE  /\ Forced(handle, peer) \in PiHandle
         /\ Forced(handle, peer).at = handle.at /\ Forced(handle, peer).kind = handle.kind
         /\ Forced(handle, peer).source = handle.source /\ Forced(handle, peer).session = handle.session
         /\ Forced(handle, peer).active = handle.active /\ Forced(handle, peer).aborted = handle.aborted
         /\ Forced(handle, peer).closed = TRUE
         /\ handle.forced # "none" => Forced(handle, peer).forced = handle.forced
         /\ handle.forced = "none" =>
              Forced(handle, peer).forced = IF peer = "gone" THEN "ok" ELSE IF peer = "stuck" THEN "failed" ELSE "waiting"
<1>1. PICK forced \in {"none", "waiting", "ok", "failed"} :
        forced = IF handle.forced # "none" THEN handle.forced
                 ELSE IF peer = "gone" THEN "ok" ELSE IF peer = "stuck" THEN "failed" ELSE "waiting"
  BY DEF PiHandle
<1>2. Forced(handle, peer) = [handle EXCEPT !.closed = TRUE, !.forced = forced]
  BY <1>1 DEF Forced, PiHandle
<1> QED BY <1>1, <1>2 DEF PiHandle

(* What closing makes of a connection: a Session is closed by force, an opening is given up.         *)
Closes(hs, after, h) ==
  \/ h \notin hs /\ after[h] = handles[h]
  \/ h \in hs /\ handles[h].at = "made" /\ after[h] = Forced(handles[h], peers[h])
  \/ h \in hs /\ handles[h].at \in Asking /\ after[h] = [handles[h] EXCEPT !.at = "cleanup"]

LEMMA ClosesKeep ==
  ASSUME PiInv, NEW hs \in SUBSET Handles, NEW after, EndConnection(hs, runs, after, "connection_aborted"),
         \A h \in Handles : Closes(hs, after, h), Forget({h \in hs : handles[h].at = "made" /\ peers[h] = "gone"}),
         UNCHANGED <<openingSessions, forkingSessions, created, responses, process>>,
         client' \in {"none", "probing", "failed", "open", "closed"}, closing' \in {"none", "waiting", "ok", "failed"},
         CloseInv'
  PROVE  PiInv' /\ PiMoves
<1>1. /\ TablesTyped /\ ConnectionsTyped /\ OwnInv /\ ForkInv /\ SaneInv /\ ProcessesTyped
      /\ \A g \in Handles : handles[g] \in PiHandle /\ Sane(handles[g], peers[g])
      /\ \A g \in Handles : peers[g] \in {"none", "open", "closing", "gone", "stuck"}
  BY PiTyped DEF ConnectionsTyped
<1>2. ASSUME NEW h \in Handles
      PROVE  /\ after[h] \in PiHandle /\ after[h].active = handles[h].active /\ after[h].session = handles[h].session
             /\ after[h].kind = handles[h].kind /\ after[h].source = handles[h].source
             /\ after[h].aborted = handles[h].aborted
             /\ handles[h].at = "made" => after[h].at = "made"
             /\ h \in hs => \/ /\ handles[h].at = "made" /\ after[h].closed /\ after[h].forced # "none"
                               /\ after[h].forced = "ok" => peers[h] = "gone"
                               /\ after[h].forced = "failed" => peers[h] = "stuck"
                               /\ after[h].forced = "waiting" => peers[h] \in {"open", "closing"}
                            \/ /\ handles[h].at \in Asking /\ after[h].at = "cleanup"
                               /\ ~after[h].closed /\ after[h].forced = "none"
             /\ h \notin hs => after[h] = handles[h]
  <2>1. CASE h \notin hs /\ after[h] = handles[h]
    BY <1>1, <2>1
  <2>2. CASE h \in hs /\ handles[h].at = "made" /\ after[h] = Forced(handles[h], peers[h])
    <3>1. PICK handle \in PiHandle, peer \in {"none", "open", "closing", "gone", "stuck"} :
            handle = handles[h] /\ peer = peers[h]
      BY <1>1
    <3>2. after[h] = Forced(handle, peer)
      BY <2>2, <3>1
    <3>3. /\ after[h] \in PiHandle /\ after[h].active = handle.active /\ after[h].session = handle.session
          /\ after[h].kind = handle.kind /\ after[h].source = handle.source
          /\ after[h].aborted = handle.aborted /\ after[h].at = handle.at /\ after[h].closed = TRUE
          /\ handle.forced # "none" => after[h].forced = handle.forced
          /\ handle.forced = "none" =>
               after[h].forced = IF peer = "gone" THEN "ok" ELSE IF peer = "stuck" THEN "failed" ELSE "waiting"
      <4>1. PICK over : over = Forced(handle, peer)
        OBVIOUS
      <4>2. /\ over \in PiHandle /\ over.active = handle.active /\ over.session = handle.session
            /\ over.kind = handle.kind /\ over.source = handle.source
            /\ over.aborted = handle.aborted /\ over.at = handle.at /\ over.closed = TRUE
            /\ handle.forced # "none" => over.forced = handle.forced
            /\ handle.forced = "none" =>
                 over.forced = IF peer = "gone" THEN "ok" ELSE IF peer = "stuck" THEN "failed" ELSE "waiting"
        BY <4>1, ForcedHandle, ZenonT(60)
      <4> QED BY <3>2, <4>1, <4>2
    <3>4. peer # "none" /\ Sane(handle, peer)
      BY <1>1, <2>2, <3>1 DEF Sane
    <3>5. /\ after[h].forced # "none"
          /\ after[h].forced = "ok" => peer = "gone"
          /\ after[h].forced = "failed" => peer = "stuck"
          /\ after[h].forced = "waiting" => peer \in {"open", "closing"}
      BY <3>3, <3>4 DEF Sane
    <3> QED BY <2>2, <3>1, <3>3, <3>5
  <2>3. CASE h \in hs /\ handles[h].at \in Asking /\ after[h] = [handles[h] EXCEPT !.at = "cleanup"]
    <3>1. /\ after[h] \in PiHandle /\ after[h].active = handles[h].active /\ after[h].session = handles[h].session
          /\ after[h].kind = handles[h].kind /\ after[h].source = handles[h].source
          /\ after[h].aborted = handles[h].aborted /\ after[h].at = "cleanup" /\ after[h].closed = handles[h].closed
          /\ after[h].forced = handles[h].forced
      <4>1. handles[h] \in PiHandle /\ "cleanup" \in Unfinished /\ after[h] = [handles[h] EXCEPT !.at = "cleanup"]
        BY <1>1, <2>3 DEF Unfinished
      <4> QED BY <4>1 DEF PiHandle
    <3>2. ~handles[h].closed /\ handles[h].forced = "none" /\ handles[h].at # "made"
      BY <1>1, <2>3 DEF Sane, Asking
    <3> QED BY <2>3, <3>1, <3>2
  <2> QED BY <2>1, <2>2, <2>3 DEF Closes
<1>3. ASSUME NEW h \in Handles
      PROVE  /\ handles'[h] \in PiHandle /\ handles'[h].at = after[h].at /\ handles'[h].session = handles[h].session
             /\ handles'[h].kind = handles[h].kind /\ handles'[h].source = handles[h].source
             /\ handles'[h].closed = after[h].closed /\ handles'[h].forced = after[h].forced
             /\ h \in hs => handles'[h].aborted /\ handles'[h].active = NoRun
             /\ h \notin hs => handles'[h] = handles[h] /\ peers'[h] = peers[h] /\ reads'[h] = reads[h]
             /\ peers'[h] = IF h \in hs /\ peers[h] = "open" THEN "closing" ELSE peers[h]
             /\ h \in hs => reads'[h] = 0
  <2>1. handles'[h] = IF h \in hs THEN [after[h] EXCEPT !.aborted = TRUE, !.active = NoRun] ELSE after[h]
    BY DEF EndConnection
  <2>2. /\ peers'[h] = IF h \in hs /\ peers[h] = "open" THEN "closing" ELSE peers[h]
        /\ reads'[h] = IF h \in hs THEN 0 ELSE reads[h]
    BY DEF EndConnection
  <2>3. CASE h \in hs
    <3>1. handles'[h] = [after[h] EXCEPT !.aborted = TRUE, !.active = NoRun] /\ after[h] \in PiHandle
      BY <1>2, <2>1, <2>3
    <3>2. /\ handles'[h] \in PiHandle /\ handles'[h].at = after[h].at /\ handles'[h].session = after[h].session
          /\ handles'[h].kind = after[h].kind /\ handles'[h].source = after[h].source
          /\ handles'[h].closed = after[h].closed /\ handles'[h].forced = after[h].forced
          /\ handles'[h].aborted = TRUE /\ handles'[h].active = NoRun
      BY <3>1 DEF PiHandle
    <3> QED BY <1>2, <2>2, <2>3, <3>2
  <2>4. CASE h \notin hs
    BY <1>2, <2>1, <2>4, <1>1, <2>2
  <2> QED BY <2>3, <2>4
<1>4. ConnectionsTyped'
  <2>1. handles' \in [Handles -> PiHandle]
    BY <1>3 DEF EndConnection
  <2>2. 0 \in 0..MaxPendingRequests
    BY LimitAssumption
  <2> QED BY <1>1, <2>1, <2>2 DEF EndConnection, ConnectionsTyped
<1>5. SaneInv'
  <2>1. ASSUME NEW h \in Handles, h \in hs, handles[h].at = "made" PROVE Sane(handles'[h], peers'[h])
    <3>4. /\ after[h].closed /\ after[h].forced # "none"
          /\ after[h].forced = "ok" => peers[h] = "gone"
          /\ after[h].forced = "failed" => peers[h] = "stuck"
          /\ after[h].forced = "waiting" => peers[h] \in {"open", "closing"}
      BY <2>1, <1>2 DEF Asking
    <3>5. peers[h] # "none" /\ handles[h].session # NoSession
      BY <1>1, <2>1 DEF Sane
    <3>1. handles'[h].at = "made" /\ handles'[h].session # NoSession /\ handles'[h].closed
      BY <1>2, <1>3, <2>1, <3>4, <3>5
    <3>2. handles'[h].aborted /\ handles'[h].active = NoRun /\ peers'[h] = IF peers[h] = "open" THEN "closing" ELSE peers[h]
      BY <1>3, <2>1
    <3>3. handles'[h].forced = after[h].forced
      BY <1>3
    <3> QED BY <3>1, <3>2, <3>3, <3>4, <3>5 DEF Sane, Asking
  <2>2. ASSUME NEW h \in Handles, h \in hs, handles[h].at # "made" PROVE Sane(handles'[h], peers'[h])
    <3>1. peers[h] = "open"
      BY <1>1, <1>2, <2>2 DEF Sane
    <3>2. peers'[h] = "closing" /\ handles'[h].aborted /\ handles'[h].active = NoRun
      BY <1>3, <2>2, <3>1
    <3>3. handles'[h].at = "cleanup" /\ ~handles'[h].closed /\ handles'[h].forced = "none"
      BY <1>2, <1>3, <2>2
    <3> QED BY <3>2, <3>3 DEF Sane, Asking
  <2>3. ASSUME NEW h \in Handles, h \notin hs PROVE Sane(handles'[h], peers'[h])
    BY <1>1, <1>3, <2>3
  <2>4. \A h \in Handles : reads'[h] # 0 => handles'[h].at = "made"
    BY <1>1, <1>3 DEF SaneInv
  <2> QED BY <2>1, <2>2, <2>3, <2>4 DEF SaneInv
<1>6. TablesTyped'
  BY <1>1 DEF Forget, TablesTyped
<1>7. \A s \in Sessions : /\ sessions'[s] # NoHandle => sessions'[s] = sessions[s]
                          /\ sessions'[s] # sessions[s] => peers[sessions[s]] = "gone"
  BY DEF Forget
<1>8. \A h \in Handles : /\ handles'[h].at = "made" <=> handles[h].at = "made"
                         /\ handles'[h].at = "refused" <=> handles[h].at = "refused"
                         /\ handles'[h].at \in Unfinished <=> handles[h].at \in Unfinished
                         /\ peers'[h] = "gone" <=> peers[h] = "gone"
                         /\ peers'[h] = "stuck" <=> peers[h] = "stuck"
  <2> TAKE h \in Handles
  <2>1. peers'[h] = peers[h] \/ (peers[h] = "open" /\ peers'[h] = "closing")
    BY <1>3
  <2>2. \/ handles'[h].at = handles[h].at
        \/ handles[h].at \in Asking /\ handles'[h].at = "cleanup"
    BY <1>2, <1>3
  <2> QED BY <2>1, <2>2 DEF Unfinished, Asking
<1>9. OwnInv'
  <2>1. \A s \in Sessions : sessions'[s] # NoHandle => handles'[sessions'[s]].at = "made" /\ handles'[sessions'[s]].session = s
    <3> TAKE s \in Sessions
    <3> HAVE sessions'[s] # NoHandle
    <3>1. sessions'[s] = sessions[s] /\ sessions[s] \in Handles
      BY <1>1, <1>7 DEF TablesTyped
    <3>2. handles[sessions[s]].at = "made" /\ handles[sessions[s]].session = s
      BY <1>1, <3>1 DEF OwnInv
    <3> QED BY <1>3, <1>8, <3>1, <3>2
  <2>2. \A g \in Handles : (handles'[g].at = "made" /\ peers'[g] # "gone") => sessions'[handles'[g].session] = g
    <3> TAKE g \in Handles
    <3> HAVE handles'[g].at = "made" /\ peers'[g] # "gone"
    <3>1. handles[g].at = "made" /\ peers[g] # "gone" /\ handles'[g].session = handles[g].session
      BY <1>3, <1>8
    <3>2. sessions[handles[g].session] = g /\ handles[g].session \in Sessions
      BY <1>1, <3>1 DEF OwnInv, Sane, PiHandle
    <3> QED BY <1>7, <3>1, <3>2
  <2>3. \A g \in Handles : (handles'[g].at \in Unfinished \/ (handles'[g].at = "refused" /\ peers'[g] = "stuck"))
          => g \in openingSessions'
    BY <1>1, <1>8 DEF OwnInv
  <2> QED BY <2>1, <2>2, <2>3 DEF OwnInv
<1>10. ForkInv'
  BY <1>3, <1>8, <1>1 DEF Forks, ForkInv
<1>11. ConnectionInv'
  BY <1>4, <1>5, <1>6, <1>9, <1>10 DEF ConnectionInv
<1>12. UNCHANGED <<said, commands, remote>> /\ UNCHANGED <<responses, dialogs>>
  BY DEF process
<1>13. /\ RunsTyped' /\ RunInv' /\ AgentInv' /\ PiMoves
       /\ pendingInteractions' \subseteq pendingInteractions
       /\ \A n \in pendingInteractions' : runs'[dialogs[n]].result = "none"
       /\ \A q \in Runs : runs'[q].requested = runs[q].requested
  <2>1. /\ \A h \in Handles : after[h] \in PiHandle /\ after[h].active = handles[h].active
        /\ \A h \in Handles : handles[h].at = "made" => after[h].at = "made"
    BY <1>2
  <2>2. /\ Drafted(runs) /\ \A r \in Runs : Concluded(runs[r]) \/ runs[r].owner \in hs
    BY Undrafted
  <2>3. /\ \A r \in Runs : runs[r].settled = runs[r].settled
        /\ \A r \in Runs : runs[r].prompt = runs[r].prompt \/ runs[r].owner \in hs
    OBVIOUS
  <2> QED BY <1>12, <2>1, <2>2, <2>3, ConnectionsEnd
<1>14. Quiet /\ remote' \in [Handles -> Runs \cup {NoRun}]
  BY <1>1, <1>12 DEF Quiet, ProcessesTyped
<1> QED BY <1>11, <1>12, <1>13, <1>14, RestKeeps

LEMMA CloseSessionKeeps ==
  ASSUME PiInv, NEW h \in Handles, CloseSession(h)
  PROVE  PiInv' /\ PiMoves
<1>1. PICK after : after = [handles EXCEPT ![h] = Forced(@, peers[h])]
  OBVIOUS
<1>2. /\ TablesTyped /\ ConnectionsTyped /\ OwnInv /\ CloseInv
      /\ \A g \in Handles : handles[g] \in PiHandle /\ Sane(handles[g], peers[g])
  BY PiTyped
<1>3. /\ handles[h].at = "made" /\ handles[h].forced = "none"
      /\ EndConnection({h}, runs, after, "connection_aborted") /\ Forget({h} \cap {g \in Handles : peers[g] = "gone"})
      /\ UNCHANGED <<client, closing, openingSessions, forkingSessions, created, responses, process>>
  BY <1>1 DEF CloseSession, InSession
<1>4. {h} \cap {g \in Handles : peers[g] = "gone"} = {g \in {h} : handles[g].at = "made" /\ peers[g] = "gone"}
  BY <1>3
<1>5. \A g \in Handles : Closes({h}, after, g)
  BY <1>1, <1>2, <1>3 DEF Closes, ConnectionsTyped
<1>6. CloseInv'
  <2>1. \A g \in Handles : /\ peers'[g] = IF g = h /\ peers[g] = "open" THEN "closing" ELSE peers[g]
                           /\ g # h => handles'[g] = handles[g]
    BY <1>1, <1>2, <1>3 DEF EndConnection, ConnectionsTyped
  <2>2. handles'[h].at = "made" /\ handles'[h].forced # "none"
    <3>1. PICK handle \in PiHandle, peer \in {"none", "open", "closing", "gone", "stuck"} :
            handle = handles[h] /\ peer = peers[h]
      BY <1>2 DEF ConnectionsTyped
    <3>2. PICK over : over = Forced(handle, peer)
      OBVIOUS
    <3>3. over \in PiHandle /\ over.at = "made" /\ over.forced # "none"
      BY <1>3, <3>1, <3>2, ForcedHandle
    <3>4. after[h] = over
      BY <1>1, <1>2, <3>1, <3>2 DEF ConnectionsTyped
    <3>5. handles'[h] = [over EXCEPT !.aborted = TRUE, !.active = NoRun]
      BY <1>3, <3>4 DEF EndConnection
    <3> QED BY <3>3, <3>5 DEF PiHandle
  <2>3. Open' \subseteq Open
    BY <1>3, NullAssumption DEF Open, Forget
  <2>4. closing = "ok" => /\ openingSessions' = {}
                          /\ \A g \in Handles : handles'[g].at = "disowned" \/ peers'[g] \in {"none", "gone"}
    BY <1>2, <1>3, <2>1 DEF CloseInv
  <2>5. client = "closed" => \A g \in Handles : /\ handles'[g].at \notin Asking
                                                /\ g \in Open' => handles'[g].forced # "none"
    BY <1>2, <2>1, <2>2, <2>3 DEF CloseInv, Asking
  <2> QED BY <1>2, <1>3, <2>4, <2>5 DEF CloseInv
<1>7. /\ client' \in {"none", "probing", "failed", "open", "closed"} /\ closing' \in {"none", "waiting", "ok", "failed"}
      /\ UNCHANGED <<openingSessions, forkingSessions, created, responses, process>>
  BY <1>2, <1>3 DEF TablesTyped
<1> QED BY <1>3, <1>4, <1>5, <1>6, <1>7, ClosesKeep

LEMMA CloseKeeps ==
  ASSUME PiInv, Close
  PROVE  PiInv' /\ PiMoves
<1>1. /\ TablesTyped /\ ConnectionsTyped /\ OwnInv /\ CloseInv
      /\ \A g \in Handles : handles[g] \in PiHandle /\ Sane(handles[g], peers[g])
  BY PiTyped
<1> DEFINE waiting == {h \in openingSessions : handles[h].at \in {"get_state", "clone", "child get_state"}}
           after == [h \in Handles |-> CASE h \in Open -> Forced(handles[h], peers[h])
                                         [] h \in waiting -> [handles[h] EXCEPT !.at = "cleanup"]
                                         [] OTHER -> handles[h]]
           hs == Open \cup waiting
<1>5. /\ EndConnection(hs, runs, after, "connection_aborted") /\ Forget({h \in Open : peers[h] = "gone"})
      /\ client' = "closed" /\ closing' = "waiting"
      /\ UNCHANGED <<openingSessions, forkingSessions, created, responses, process>>
  BY DEF Close
<1> HIDE DEF after
<1>6. hs \in SUBSET Handles
  BY <1>1 DEF Open, TablesTyped
<1>7. \A h \in Handles : /\ h \in Open => handles[h].at = "made"
                         /\ h \in waiting <=> handles[h].at \in Asking
  <2> TAKE h \in Handles
  <2>1. h \in Open => handles[h].at = "made"
    BY <1>1, NullAssumption DEF Open, OwnInv
  <2>2. handles[h].at \in Asking => h \in openingSessions
    BY <1>1 DEF OwnInv, Asking, Unfinished
  <2> QED BY <2>1, <2>2 DEF Asking
<1>8. ASSUME NEW h \in Handles
      PROVE  /\ h \in Open => after[h] = Forced(handles[h], peers[h])
             /\ h \in waiting => after[h] = [handles[h] EXCEPT !.at = "cleanup"]
             /\ h \notin hs => after[h] = handles[h]
  BY <1>7 DEF Asking, after
<1>2. \A h \in Handles : h \in hs <=> h \in Open \/ h \in waiting
  OBVIOUS
<1> HIDE DEF waiting, hs
<1>9. \A h \in Handles : Closes(hs, after, h)
  BY <1>2, <1>7, <1>8 DEF Closes
<1>10. {h \in Open : peers[h] = "gone"} = {h \in hs : handles[h].at = "made" /\ peers[h] = "gone"}
  <2>1. \A h \in Open : h \in Handles
    BY DEF Open
  <2>2. \A h \in Handles : h \in Open <=> h \in hs /\ handles[h].at = "made"
    BY <1>2, <1>7 DEF Asking
  <2> QED BY <1>6, <2>1, <2>2
<1>11. CloseInv'
  <2>1. Open' \subseteq Open
    BY <1>5, NullAssumption DEF Open, Forget
  <2>2. ASSUME NEW g \in Handles
        PROVE  handles'[g].at \notin Asking /\ (g \in Open => handles'[g].forced # "none")
    <3>1. CASE g \in Open
      <4>1. PICK handle \in PiHandle, peer \in {"none", "open", "closing", "gone", "stuck"} :
              handle = handles[g] /\ peer = peers[g]
        BY <1>1 DEF ConnectionsTyped
      <4>2. PICK over : over = Forced(handle, peer)
        OBVIOUS
      <4>3. over \in PiHandle /\ over.at = "made" /\ over.forced # "none"
        <5>1. handle.at = "made" /\ handle.forced \in {"none", "waiting", "ok", "failed"}
          BY <1>7, <3>1, <4>1 DEF PiHandle
        <5>2. over \in PiHandle /\ over.at = handle.at
          BY <4>2, ForcedHandle
        <5>3. /\ handle.forced # "none" => over.forced = handle.forced
              /\ handle.forced = "none" =>
                   over.forced = IF peer = "gone" THEN "ok" ELSE IF peer = "stuck" THEN "failed" ELSE "waiting"
          BY <4>2, ForcedHandle
        <5> QED BY <5>1, <5>2, <5>3
      <4>4. handles'[g] = [over EXCEPT !.aborted = TRUE, !.active = NoRun]
        BY <1>2, <1>5, <1>8, <3>1, <4>1, <4>2 DEF EndConnection
      <4> QED BY <4>3, <4>4 DEF PiHandle, Asking
    <3>2. CASE g \in waiting
      <4>1. handles'[g] = [after[g] EXCEPT !.aborted = TRUE, !.active = NoRun]
        BY <1>2, <1>5, <3>2 DEF EndConnection
      <4>2. after[g] \in PiHandle /\ after[g].at = "cleanup" /\ g \notin Open
        <5>1. after[g] = [handles[g] EXCEPT !.at = "cleanup"] /\ handles[g] \in PiHandle
          BY <1>1, <1>8, <3>2
        <5>2. g \notin Open
          BY <1>7, <3>2 DEF Asking
        <5> QED BY <5>1, <5>2 DEF PiHandle, Unfinished
      <4> QED BY <4>1, <4>2 DEF PiHandle, Asking
    <3>3. CASE g \notin hs
      BY <1>5, <1>8, <3>3, <1>2, <1>7 DEF EndConnection
    <3> QED BY <1>2, <3>1, <3>2, <3>3
  <2> QED BY <1>5, <2>1, <2>2 DEF CloseInv
<1>12. client' \in {"none", "probing", "failed", "open", "closed"} /\ closing' \in {"none", "waiting", "ok", "failed"}
  BY <1>5
<1> QED BY <1>5, <1>6, <1>9, <1>10, <1>11, <1>12, ClosesKeep

LEMMA PeerStepKeeps ==
  ASSUME PiInv, NEW h \in Handles, PeerStep(h)
  PROVE  PiInv' /\ PiMoves
BY OpeningEnds, SessionEnds DEF PeerStep

LEMMA PiInvStep == PiInv /\ [Next]_vars => PiInv' /\ PiMoves
<1> SUFFICES ASSUME PiInv, [Next]_vars PROVE PiInv' /\ PiMoves
  OBVIOUS
<1>1. CASE UNCHANGED vars
  BY <1>1, PiTyped, CallsOnlyKeep DEF vars, ConnectionsTyped, DialogsTyped
<1>2. CASE (\E profile \in ProfileOutcomes : Connect(profile)) \/ (\E ok \in BOOLEAN : Probed(ok)) \/ Close \/ Closed
  BY <1>2, ConnectKeeps, CloseKeeps, ClosedKeeps
<1>3. ASSUME NEW h \in Handles,
             \/ Create(h) \/ CloseSession(h) \/ \E s \in Sessions : Resume(h, s) \/ Fork(h, s)
             \/ OpeningStep(h) \/ PeerStep(h) \/ \E protocol \in BOOLEAN : PeerFails(h, protocol)
      PROVE  PiInv' /\ PiMoves
  BY <1>3, OpeningsKeep, CloseSessionKeeps, OpeningStepKeeps, PeerStepKeeps, PeerFailsKeeps
<1>4. ASSUME NEW h \in Handles,
             \/ Read(h) \/ ReadAnswered(h) \/ ReadAbandoned(h) \/ LateResponse(h)
             \/ \E n \in 1..Len(dialogs) : Respond(h, n)
      PROVE  PiInv' /\ PiMoves
  BY <1>4, ReadsKeep, RespondKeeps
<1>5. ASSUME NEW h \in Handles, Process(h)
      PROVE  PiInv' /\ PiMoves
  BY <1>5, TakesKeeps, MessageEndsKeeps, SettlesKeep, OverflowsKeeps, AsksKeeps DEF Process, Room
<1>6. ASSUME NEW r \in Runs,
             \/ \E h \in Handles : StartRun(r, h)
             \/ PromptRequest(r) \/ AbortRequest(r) \/ CancelGivesUp(r) \/ \E timer \in BOOLEAN : Cancel(r, timer)
      PROVE  PiInv' /\ PiMoves
  BY <1>6, StartRunKeeps, PromptAnsweredKeeps, AbortAnsweredKeeps, CancelGivesUpKeeps, CancelKeeps
     DEF PromptRequest, AbortRequest
<1>7. ASSUME NEW n \in 1..Len(dialogs), NEW ok \in BOOLEAN, NEW room \in Room, Written(n, ok, room)
      PROVE  PiInv' /\ PiMoves
  BY <1>7, WrittenKeeps
<1>8. CASE Next
  <2>1. \/ (\E profile \in ProfileOutcomes : Connect(profile)) \/ (\E ok \in BOOLEAN : Probed(ok)) \/ Close \/ Closed
        \/ \E h \in Handles :
             \/ \/ Create(h) \/ CloseSession(h) \/ \E s \in Sessions : Resume(h, s) \/ Fork(h, s)
                \/ OpeningStep(h) \/ PeerStep(h) \/ \E protocol \in BOOLEAN : PeerFails(h, protocol)
             \/ \/ Read(h) \/ ReadAnswered(h) \/ ReadAbandoned(h) \/ LateResponse(h)
                \/ \E n \in 1..Len(dialogs) : Respond(h, n)
             \/ Process(h)
        \/ \E r \in Runs :
             \/ \E h \in Handles : StartRun(r, h)
             \/ PromptRequest(r) \/ AbortRequest(r) \/ CancelGivesUp(r) \/ \E timer \in BOOLEAN : Cancel(r, timer)
        \/ \E n \in 1..Len(dialogs), ok \in BOOLEAN, room \in Room : Written(n, ok, room)
    BY <1>8, Zenon DEF Next
  <2> QED BY <1>2, <1>3, <1>4, <1>5, <1>6, <1>7, <2>1
<1> QED BY <1>1, <1>8

(* Whatever its processes do, in whatever order requests, events and dialogs are answered, fail or   *)
(* are given up: a process works for the active Run of its Session, a Session is given out once, the *)
(* Client owns every process that may be there and close() succeeds when there is none, and Runs end *)
(* as their agents and their aborts said.                                                           *)
THEOREM PiIsSound == Spec => []PiSound
<1>1. Spec => []PiInv
  BY PiInitHolds, PiInvStep, PTL DEF Spec
<1> QED BY <1>1, PiInvImplies, PTL

(* The Runs of RPC connections as the contract sees them. *)
StatusOf(r) == IF runs[r].start # "started" THEN "none" ELSE IF runs[r].result # "none" THEN runs[r].result ELSE "active"

LEMMA PiRefines ==
  ASSUME PiInv, PiInv', PiMoves
  PROVE  Contract!Next
<1>1. \A r \in Runs : /\ runs[r] \in PiRun /\ runs'[r] \in PiRun /\ Honest(runs[r], said[r]) /\ Honest(runs'[r], said'[r])
                      /\ Moved(r)
  BY DEF PiInv, WorkingInv, RunsTyped, RunInv, PiMoves
<1>2. ASSUME NEW r \in Runs
      PROVE  /\ runs[r].start = "started" \/ runs[r].start = "idle"
             /\ runs'[r].start = "started" \/ runs'[r].start = "idle"
             /\ runs'[r].result \in Terminals \cup {"none"} /\ runs[r].result \in Terminals \cup {"none"}
             /\ runs'[r].requested \in SUBSET (1..MaxDialogs) /\ runs'[r].resolved \in SUBSET (1..MaxDialogs)
             /\ runs'[r].resolved \subseteq runs'[r].requested
  BY <1>1 DEF PiRun, Honest
<1>3. ASSUME NEW r \in Runs
      PROVE  /\ \/ StatusOf(r) = "none" /\ StatusOf(r)' = "active"
                \/ StatusOf(r) = "active" /\ StatusOf(r)' = "active"
                \/ StatusOf(r) = "active" /\ StatusOf(r)' \in Terminals
                \/ StatusOf(r)' = StatusOf(r) /\ StatusOf(r) # "active"
             /\ StatusOf(r) # "active" => runs'[r].requested = runs[r].requested /\ runs'[r].resolved = runs[r].resolved
             /\ StatusOf(r) = "active" =>
                  runs[r].requested \subseteq runs'[r].requested /\ runs[r].resolved \subseteq runs'[r].resolved
  BY <1>1, <1>2 DEF Moved, StatusOf
<1>4. \A r \in Runs : Contract!RunStep(r)
  <2> TAKE r \in Runs
  <2>1. /\ \/ StatusOf(r) = "none" /\ StatusOf(r)' = "active"
           \/ StatusOf(r) = "active" /\ StatusOf(r)' = "active"
           \/ StatusOf(r) = "active" /\ StatusOf(r)' \in Terminals
           \/ StatusOf(r)' = StatusOf(r) /\ StatusOf(r) # "active"
        /\ StatusOf(r) # "active" => runs'[r].requested = runs[r].requested /\ runs'[r].resolved = runs[r].resolved
        /\ StatusOf(r) = "active" =>
             runs[r].requested \subseteq runs'[r].requested /\ runs[r].resolved \subseteq runs'[r].resolved
    BY <1>3
  <2>2. runs'[r].resolved \subseteq runs'[r].requested
    BY <1>2
  <2> QED BY <2>1, <2>2 DEF StatusOf, Terminal, Contract!RunStep, Contract!Start, Contract!Progress, Contract!Settle,
                            Contract!Rest, Contract!Reports, Contract!Silent, Contract!RunStatus, Terminals
<1>5. \A r \in Runs : StatusOf(r)' \in {"none", "active"} \cup Contract!RunStatus
  <2> TAKE r \in Runs
  <2>1. StatusOf(r)' = "none" \/ StatusOf(r)' = "active" \/ StatusOf(r)' \in Terminals
    BY <1>2 DEF StatusOf
  <2> QED BY <2>1 DEF Contract!RunStatus, Terminals
<1> QED BY <1>2, <1>4, <1>5 DEF Contract!Next, StatusOf, Terminal

LEMMA PiImplements == Spec => ImplementsRunContract
<1>1. Init => Contract!Init
  BY DEF Init, Contract!Init
<1>2. PiInv /\ PiInv' /\ [Next]_vars => [Contract!Next]_(Contract!runVars)
  BY PiInvStep, PiRefines
<1> QED BY <1>1, <1>2, PiInitHolds, PiInvStep, PTL DEF Spec, ImplementsRunContract, Contract!Spec

(* Runs of both kinds of connection start once, report the dialogs they asked and their resolution   *)
(* while they are active, end once, and say nothing after that: what HarnessRun promises its host.   *)
THEOREM PiRunsImplementContract == Spec /\ Sdk!SdkSpec => RunsImplementContract
BY PiImplements, SdkImplements DEF RunsImplementContract

================================================================================
