------------------------------ MODULE OpenCodeProofs ------------------------------
(* Proofs about OpenCodeAdapter: what its Client builds on is certain, permissions are settled once, *)
(* cancellations say what happened, and its Runs keep the contract.                                 *)
EXTENDS MCOpenCodeAdapter, FiniteSetTheorems, TLAPS

HandleRec == [call: {"free", "create", "status", "get", "made", "refused"},
              session: Sessions \cup {NoSession}, unsafe: BOOLEAN]

CancelStates == CancelWaits \cup {"none", "native", "connection_aborted", "already_terminal", "error"}

RunRec == [open: {"idle", "opening", "opened", "refused"}, owner: Handles \cup {NoHandle}, pump: BOOLEAN,
           result: Terminals \cup {"none"}, prompt: {"none", "waiting", "over"} \cup Terminals,
           cancel: CancelStates, timedOut: BOOLEAN, resolved: SUBSET (1..MaxInteractions)]

InteractionRec == [run: Runs, permission: Permissions, late: BOOLEAN]

Typed == TypeOK /\ Len(interactions) <= MaxInteractions

(* A Client that is open, or asks, has an open transport, and no other has. *)
ClientInv == client \in {"probing", "open"} <=> transport = "open"

(* A handle that was made, or is being resumed, has a Session. *)
HandleInv == \A h \in Handles : handles[h].call \in {"status", "get", "made"} => handles[h].session \in created

(* A Run by itself, with its prompt at the Provider. *)
Working(r) == remote[r] \in {"running", "aborting"}

RunInv ==
  \A r \in Runs :
    /\ runs[r].open = "idle" <=> runs[r].owner = NoHandle
    /\ runs[r].owner # NoHandle => handles[runs[r].owner].call = "made"
    /\ runs[r].open = "idle" => runs[r].result = "none"
    /\ runs[r].open = "opened" <=> runs[r].prompt # "none"
    /\ runs[r].result # "none" => runs[r].prompt \in {"none", "over"}
    /\ runs[r].result = "none" => runs[r].prompt # "over"
    /\ runs[r].prompt # "connection_aborted"
    /\ runs[r].prompt = "none" => remote[r] = "none" /\ runs[r].resolved = {} /\ runs[r].cancel = "none"
    /\ Working(r) => runs[r].prompt \in {"waiting", "over"}
    /\ runs[r].prompt = "waiting" => Working(r)
    /\ runs[r].timedOut => runs[r].cancel # "none"

(* What a cancel() was told of a Run. *)
CancelFits(run) ==
  /\ run.cancel = "native" => run.result = "cancelled"
  /\ run.cancel = "connection_aborted" => run.result = "connection_aborted"
  /\ run.cancel = "already_terminal" => run.result # "none"
  /\ (run.cancel = "error" /\ run.timedOut) => run.result # "none"

CancelInv == \A r \in Runs : CancelFits(runs[r])

(* A Run that is under way is the active one of its Session. *)
Underway(r) == runs[r].open \in {"opening", "opened"} /\ ~Terminal(r)

ActiveInv ==
  /\ \A r \in Runs : Underway(r) => activeBySession[SessionOf(r)] = r
  /\ \A s \in Sessions : activeBySession[s] # NoRun => Underway(activeBySession[s]) /\ SessionOf(activeBySession[s]) = s
  /\ \A r \in Runs : Underway(r) => client = "open"

(* A Session that is quarantined, or is being forked, has no active Run. *)
HeldInv ==
  /\ \A s \in quarantinedSessions : activeBySession[s] = NoRun
  /\ \A s \in Sessions : forks[s] # "none" => activeBySession[s] = NoRun /\ s \notin quarantinedSessions

(* What the Provider works on. *)
WorkInv ==
  /\ \A r \in Runs : (Working(r) /\ Terminal(r)) => SessionOf(r) \in quarantinedSessions
  /\ \A q, r \in Runs : (Working(q) /\ Working(r) /\ SessionOf(q) = SessionOf(r)) => q = r
  /\ \A s \in remoteForks : forks[s] = "post" \/ s \in quarantinedSessions
  /\ \A r \in Runs : Working(r) => SessionOf(r) \notin remoteForks

(* Permissions, by either identifier. *)
RunOf(i) == interactions[i].run
KeyOf(i) == <<SessionOf(RunOf(i)), interactions[i].permission>>

PendingInv ==
  /\ \A i \in 1..Len(interactions) :
       /\ runs[RunOf(i)].open = "opened"
       /\ ~Terminal(RunOf(i)) => i \in pendingByLocalId \cup runs[RunOf(i)].resolved
       /\ runs[RunOf(i)].result \in Statuses /\ ~interactions[i].late => i \in runs[RunOf(i)].resolved
       /\ interactions[i].late => Terminal(RunOf(i))
  /\ \A i \in pendingByLocalId :
       /\ pendingByProviderId[KeyOf(i)] = i
       /\ interactions[i].late \/ ~Terminal(RunOf(i))
       /\ i \notin runs[RunOf(i)].resolved
  /\ \A key \in Sessions \X Permissions : pendingByProviderId[key] # 0 => pendingByProviderId[key] \in pendingByLocalId
  /\ \A r \in Runs : \A i \in runs[r].resolved : i \in 1..Len(interactions) /\ RunOf(i) = r /\ ~interactions[i].late

OpenCodeInv ==
  /\ Typed /\ ClientInv /\ HandleInv /\ RunInv /\ CancelInv /\ ActiveInv /\ HeldInv /\ WorkInv /\ PendingInv

(* A Run as the contract sees it, and what a step may make of it. *)
StatusOfRun(r) == IF runs[r].open # "opened" THEN "none" ELSE IF Terminal(r) THEN runs[r].result ELSE "active"
Requested(r) == {i \in 1..Len(interactions) : interactions[i].run = r /\ ~interactions[i].late}

Moved(r) ==
  \/ StatusOfRun(r)' = StatusOfRun(r) /\ Requested(r)' = Requested(r) /\ runs'[r].resolved = runs[r].resolved
  \/ /\ \/ StatusOfRun(r) = "none" /\ StatusOfRun(r)' = "active"
        \/ StatusOfRun(r) = "active" /\ StatusOfRun(r)' # "none"
     /\ Requested(r) \subseteq Requested(r)' /\ runs[r].resolved \subseteq runs'[r].resolved

RunsMove == \A r \in Runs : Moved(r)

-------------------------------------------------------------------------------
(* What there is of a Run, a handle, a permission. *)
LEMMA RunFacts ==
  ASSUME OpenCodeInv, NEW r \in Runs
  PROVE  /\ runs[r] \in RunRec
         /\ runs[r].owner # NoHandle =>
              /\ runs[r].owner \in Handles /\ handles[runs[r].owner].call = "made"
              /\ SessionOf(r) \in Sessions /\ SessionOf(r) \in created
         /\ Underway(r) => runs[r].owner # NoHandle /\ activeBySession[SessionOf(r)] = r
         /\ CancelFits(runs[r])
<1>1. runs[r] \in RunRec
  BY DEF OpenCodeInv, Typed, TypeOK, RunRec, CancelStates
<1>2. runs[r].owner # NoHandle =>
        /\ runs[r].owner \in Handles /\ handles[runs[r].owner].call = "made"
        /\ SessionOf(r) \in Sessions /\ SessionOf(r) \in created
  BY <1>1 DEF RunRec, OpenCodeInv, RunInv, HandleInv, SessionOf, Typed, TypeOK
<1>3. Underway(r) => runs[r].owner # NoHandle /\ activeBySession[SessionOf(r)] = r
  BY <1>1 DEF OpenCodeInv, RunInv, ActiveInv, Underway, RunRec
<1>4. CancelFits(runs[r])
  BY DEF OpenCodeInv, CancelInv
<1> QED BY <1>1, <1>2, <1>3, <1>4

LEMMA PermissionFacts ==
  ASSUME OpenCodeInv, NEW i \in 1..Len(interactions)
  PROVE  /\ RunOf(i) \in Runs /\ interactions[i].permission \in Permissions /\ KeyOf(i) \in Sessions \X Permissions
         /\ runs[RunOf(i)].open = "opened" /\ i \in Nat
<1>1. RunOf(i) \in Runs /\ interactions[i].permission \in Permissions /\ i \in Nat
  <2>1. interactions \in Seq(InteractionRec) /\ Len(interactions) \in Nat
    BY DEF OpenCodeInv, Typed, TypeOK, InteractionRec
  <2>2. interactions[i] \in InteractionRec
    BY <2>1
  <2> QED BY <2>1, <2>2 DEF RunOf, InteractionRec
<1>2. runs[RunOf(i)].open = "opened"
  BY DEF OpenCodeInv, PendingInv
<1>3. runs[RunOf(i)].owner # NoHandle
  BY <1>1, <1>2 DEF OpenCodeInv, RunInv
<1>4. SessionOf(RunOf(i)) \in Sessions
  BY <1>1, <1>3, RunFacts
<1> QED BY <1>1, <1>2, <1>4 DEF KeyOf

LEMMA PendingFacts ==
  ASSUME OpenCodeInv
  PROVE  /\ \A i \in 1..Len(interactions) :
              /\ runs[RunOf(i)].open = "opened"
              /\ ~Terminal(RunOf(i)) => i \in pendingByLocalId \cup runs[RunOf(i)].resolved
              /\ runs[RunOf(i)].result \in Statuses /\ ~interactions[i].late => i \in runs[RunOf(i)].resolved
              /\ interactions[i].late => Terminal(RunOf(i))
         /\ \A i \in pendingByLocalId :
              (interactions[i].late \/ ~Terminal(RunOf(i))) /\ i \notin runs[RunOf(i)].resolved
BY DEF OpenCodeInv, PendingInv

(* CancelAfter, case by case. *)
LEMMA CancelAfterFacts ==
  ASSUME NEW run \in RunRec, NEW result \in Terminals,
         run.cancel \notin {"native", "connection_aborted", "already_terminal"}
  PROVE  /\ CancelAfter(run.cancel, result) \in CancelStates
         /\ run.cancel = "none" <=> CancelAfter(run.cancel, result) = "none"
         /\ CancelAfter(run.cancel, result) = "native" => result = "cancelled"
         /\ CancelAfter(run.cancel, result) = "connection_aborted" => result = "connection_aborted"
<1>1. CASE run.cancel = "starting"
  BY <1>1 DEF CancelAfter, CancelStates
<1>2. CASE run.cancel = "acknowledged"
  BY <1>2 DEF CancelAfter, CancelStates, Terminals
<1>3. CASE run.cancel \notin {"starting", "acknowledged"}
  BY <1>3 DEF CancelAfter, RunRec
<1> QED BY <1>1, <1>2, <1>3

-------------------------------------------------------------------------------
(* Runs end. *)

(* What the step makes of a Run before it ends any. *)
Readied(r, run) ==
  /\ run.open = runs[r].open /\ run.owner = runs[r].owner /\ run.result = runs[r].result /\ run.prompt = runs[r].prompt
  /\ run.prompt = "none" => run.cancel = "none" /\ run.resolved = {}
  /\ run.timedOut => run.cancel # "none"
  /\ runs[r].resolved \subseteq run.resolved
  /\ \A i \in run.resolved : i \in 1..Len(interactions)' /\ RunOf(i)' = r /\ ~interactions'[i].late
  /\ run.result = "none" => run.cancel \notin {"native", "connection_aborted", "already_terminal"}

(* What is asked meanwhile is of a Run that ends, and resolved. *)
Asks(rs, now) ==
  /\ interactions' \in Seq(InteractionRec)
  /\ Len(interactions) <= Len(interactions)' /\ Len(interactions)' <= MaxInteractions
  /\ \A i \in 1..Len(interactions) : interactions'[i] = interactions[i]
  /\ \A i \in 1..Len(interactions)' : i > Len(interactions) =>
       /\ RunOf(i)' \in rs /\ runs[RunOf(i)'].open = "opened" /\ i \in now[RunOf(i)'].resolved
       /\ ~interactions'[i].late

(* What is forgotten with Runs: all that is pending of them, and maybe what comes too late for any.   *)
Forgotten(rs) ==
  \E S \in SUBSET pendingByLocalId :
    /\ \A i \in pendingByLocalId : RunOf(i) \in rs => i \in S
    /\ \A i \in S : RunOf(i) \in rs \/ interactions[i].late
    /\ Forget(S)

(* The Provider is done with the Run, or goes on. *)
LeavesOff(rs, unsafe) ==
  /\ remote' \in [Runs -> {"none", "running", "aborting", "done"}]
  /\ \A r \in Runs : remote'[r] = remote[r] \/ (r \in rs /\ runs[r].prompt # "none" /\ remote'[r] = "done")
  /\ \A r \in rs : unsafe \/ remote'[r] \notin {"running", "aborting"}

(* close() ends what is under way. *)
ClosesAll(rs) ==
  \/ UNCHANGED <<client, transport>>
  \/ client' = "closed" /\ transport' = "closed" /\ \A r \in Runs : Underway(r) => r \in rs

(* What finish() of Runs is, and what else may happen with it. *)
Ends(rs, now, pending, result, unsafe) ==
  /\ now \in [Runs -> RunRec] /\ pending \subseteq pendingByLocalId /\ result \in Terminals /\ unsafe \in BOOLEAN
  /\ rs \subseteq Runs /\ \A r \in rs : Underway(r) /\ Readied(r, now[r])
  /\ \A r \in Runs : r \notin rs => now[r] = runs[r]
  /\ result \in Statuses => pending = pendingByLocalId
  /\ SettleAll(rs, now, pending, result, unsafe) /\ Forgotten(rs)
  /\ Asks(rs, now) /\ LeavesOff(rs, unsafe) /\ ClosesAll(rs)
  /\ closedHandles' \subseteq Handles /\ claimed' \subseteq claimed
  /\ UNCHANGED <<knownSessions, forks, created, remoteForks>>

(* A Run that ends with the step. *)
LEMMA EndedRun ==
  ASSUME OpenCodeInv, NEW rs, NEW now, NEW pending, NEW result, NEW unsafe, Ends(rs, now, pending, result, unsafe),
         NEW r \in rs
  PROVE  /\ runs'[r] \in RunRec /\ runs'[r].open = runs[r].open /\ runs'[r].owner = runs[r].owner
         /\ runs'[r].result = result /\ result # "none"
         /\ runs'[r].prompt = (IF runs[r].prompt = "none" THEN "none" ELSE "over")
         /\ runs'[r].prompt = "none" => runs'[r].cancel = "none" /\ runs'[r].resolved = {}
         /\ runs'[r].timedOut => runs'[r].cancel # "none"
         /\ CancelFits(runs'[r])
         /\ now[r].resolved \subseteq runs'[r].resolved
         /\ \A i \in pending : RunOf(i) = r => i \in runs'[r].resolved
         /\ \A i \in runs'[r].resolved : i \in 1..Len(interactions)' /\ RunOf(i)' = r /\ ~interactions'[i].late
<1>0. /\ rs \subseteq Runs /\ pending \subseteq pendingByLocalId /\ result \in Terminals /\ now \in [Runs -> RunRec]
      /\ Underway(r) /\ Readied(r, now[r]) /\ Asks(rs, now)
  BY DEF Ends
<1>01. \A q \in Runs : runs'[q] = IF q \in rs THEN Finished(now[q], result, PendingOf({q}) \cap pending) ELSE now[q]
  BY DEF Ends, SettleAll
<1>1. r \in Runs /\ now[r] \in RunRec /\ runs[r] \in RunRec
  BY <1>0, RunFacts
<1>02. PICK mid \in RunRec : mid = now[r]
  BY <1>1
<1>2. PICK P : P = PendingOf({r}) \cap pending
  OBVIOUS
<1>3. runs'[r] = [mid EXCEPT !.result = result, !.prompt = IF @ = "none" THEN @ ELSE "over",
                               !.cancel = CancelAfter(@, result), !.resolved = @ \cup P]
  BY <1>01, <1>02, <1>1, <1>2 DEF Finished
<1>4. PICK c : c = CancelAfter(mid.cancel, result)
  OBVIOUS
<1>5. mid.result = "none" /\ mid.cancel \notin {"native", "connection_aborted", "already_terminal"} /\ result # "none"
  BY <1>0, <1>02, <1>1 DEF Readied, Underway, Terminal, Terminals
<1>6. /\ c \in CancelStates
      /\ mid.cancel = "none" <=> c = "none"
      /\ c = "native" => result = "cancelled"
      /\ c = "connection_aborted" => result = "connection_aborted"
  BY <1>5, <1>0, CancelAfterFacts, <1>4
<1>7. \A i \in P : /\ i \in pending /\ RunOf(i) = r /\ i \in 1..Len(interactions) /\ i \in 1..Len(interactions)'
                  /\ RunOf(i)' = r /\ i \in 1..MaxInteractions /\ ~interactions'[i].late
  <2> SUFFICES ASSUME NEW i \in P
               PROVE  /\ i \in pending /\ RunOf(i) = r /\ i \in 1..Len(interactions) /\ i \in 1..Len(interactions)'
                      /\ RunOf(i)' = r /\ i \in 1..MaxInteractions /\ ~interactions'[i].late
    OBVIOUS
  <2>1. i \in pending /\ RunOf(i) = r /\ i \in 1..Len(interactions)
    BY <1>0, <1>2 DEF PendingOf, RunOf, OpenCodeInv, Typed, TypeOK
  <2>2. i \in 1..Len(interactions)' /\ i \in 1..MaxInteractions /\ interactions'[i] = interactions[i]
    BY <1>0, <2>1, BoundAssumption DEF OpenCodeInv, Typed, TypeOK, Asks
  <2>3. ~interactions[i].late
    BY <1>0, <2>1 DEF OpenCodeInv, PendingInv, Underway
  <2> QED BY <2>1, <2>2, <2>3 DEF RunOf
<1>8. PICK R : R = mid.resolved \cup P
  OBVIOUS
<1>9. R \subseteq 1..MaxInteractions
  BY <1>1, <1>7, <1>8 DEF RunRec
<1>10. PICK p : p = (IF mid.prompt = "none" THEN "none" ELSE "over")
  OBVIOUS
<1>11. runs'[r] = [mid EXCEPT !.result = result, !.prompt = p, !.cancel = c, !.resolved = R]
  BY <1>3, <1>4, <1>8, <1>10
<1>12. /\ runs'[r].open = mid.open /\ runs'[r].owner = mid.owner /\ runs'[r].result = result /\ runs'[r].prompt = p
       /\ runs'[r].cancel = c /\ runs'[r].timedOut = mid.timedOut /\ runs'[r].resolved = R
  BY <1>1, <1>11 DEF RunRec
<1>13. runs'[r] \in RunRec
  BY <1>0, <1>6, <1>9, <1>10, <1>11 DEF RunRec
<1>14. /\ mid.open = runs[r].open /\ mid.owner = runs[r].owner /\ mid.prompt = runs[r].prompt
       /\ mid.prompt = "none" => mid.cancel = "none" /\ mid.resolved = {}
       /\ mid.timedOut => mid.cancel # "none"
       /\ \A i \in mid.resolved : i \in 1..Len(interactions)' /\ RunOf(i)' = r /\ ~interactions'[i].late
  BY <1>0, <1>02 DEF Readied
<1>15. runs'[r].prompt = "none" => runs'[r].cancel = "none" /\ runs'[r].resolved = {}
  <2> SUFFICES ASSUME p = "none" PROVE c = "none" /\ R = {}
    BY <1>12
  <2>1. mid.prompt = "none"
    BY <1>10
  <2>2. P = {}
    <3> SUFFICES ASSUME NEW i \in P PROVE FALSE
      OBVIOUS
    <3>1. runs[RunOf(i)].open = "opened" /\ RunOf(i) = r
      BY <1>7, PermissionFacts
    <3> QED BY <1>1, <1>14, <2>1, <3>1 DEF OpenCodeInv, RunInv
  <2> QED BY <1>6, <1>8, <1>14, <2>1, <2>2
<1>16. CancelFits(runs'[r])
  BY <1>5, <1>6, <1>12 DEF CancelFits
<1>17. \A i \in pending : RunOf(i) = r => i \in P
  BY <1>0, <1>2 DEF PendingOf, RunOf
<1> QED
  BY <1>02, <1>5, <1>6, <1>7, <1>8, <1>10, <1>12, <1>13, <1>14, <1>15, <1>16, <1>17

Kept(r) == /\ runs'[r].open = runs[r].open /\ runs'[r].owner = runs[r].owner
           /\ runs[r].owner # NoHandle => SessionOf(r)' = SessionOf(r)

LEMMA EndingRuns ==
  ASSUME OpenCodeInv, NEW rs, NEW now, NEW pending, NEW result, NEW unsafe, Ends(rs, now, pending, result, unsafe)
  PROVE  /\ runs' \in [Runs -> RunRec] /\ handles' \in [Handles -> HandleRec]
         /\ \A h \in Handles : handles'[h].call = handles[h].call /\ handles'[h].session = handles[h].session
         /\ \A r \in Runs : r \notin rs => runs'[r] = runs[r]
         /\ \A r \in rs : r \in Runs /\ runs'[r].result = result /\ result # "none"
         /\ \A r \in Runs : Kept(r)
         /\ \A r \in Runs : Underway(r)' <=> Underway(r) /\ r \notin rs
<1> USE DEF Ends
<1>1. \A r \in Runs : runs'[r] = IF r \in rs THEN Finished(now[r], result, PendingOf({r}) \cap pending) ELSE now[r]
  BY DEF SettleAll
<1>2. \A r \in Runs : r \notin rs => runs'[r] = runs[r]
  BY <1>1
<1>3. ASSUME NEW r \in rs
      PROVE  /\ runs'[r] \in RunRec /\ runs'[r].open = runs[r].open /\ runs'[r].owner = runs[r].owner
             /\ runs'[r].result = result /\ result # "none" /\ r \in Runs
  <2>1. r \in Runs
    OBVIOUS
  <2> HIDE DEF Ends
  <2> QED BY <2>1, EndedRun
<1>4. runs' \in [Runs -> RunRec]
  BY <1>2, <1>3, RunFacts DEF SettleAll
<1>5. handles \in [Handles -> HandleRec]
  BY DEF OpenCodeInv, Typed, TypeOK, HandleRec
<1>6. \A h \in Handles : /\ handles'[h] \in HandleRec
                         /\ handles'[h].call = handles[h].call /\ handles'[h].session = handles[h].session
  <2> SUFFICES ASSUME NEW h \in Handles
               PROVE  /\ handles'[h] \in HandleRec
                      /\ handles'[h].call = handles[h].call /\ handles'[h].session = handles[h].session
    OBVIOUS
  <2>1. PICK u : u = (handles[h].unsafe \/ (unsafe /\ \E r \in rs : runs[r].owner = h))
    OBVIOUS
  <2>2. handles'[h] = [handles[h] EXCEPT !.unsafe = u]
    BY <2>1 DEF SettleAll
  <2>3. u \in BOOLEAN /\ handles[h] \in HandleRec
    BY <1>5, <2>1
  <2> QED BY <2>2, <2>3 DEF HandleRec
<1>7. handles' \in [Handles -> HandleRec]
  BY <1>6 DEF SettleAll
<1>8. ASSUME NEW r \in Runs PROVE Kept(r)
  BY <1>2, <1>3, RunFacts, <1>6 DEF Kept, SessionOf
<1>9. \A r \in Runs : Underway(r)' <=> Underway(r) /\ r \notin rs
  BY <1>2, <1>3 DEF Underway, Terminal
<1> QED BY <1>2, <1>3, <1>4, <1>6, <1>7, <1>8, <1>9

LEMMA EndsRunInv ==
  ASSUME OpenCodeInv, NEW rs, NEW now, NEW pending, NEW result, NEW unsafe, Ends(rs, now, pending, result, unsafe)
  PROVE  RunInv' /\ CancelInv' /\ HandleInv' /\ ClientInv'
<1> USE DEF Ends
<1>1. /\ \A h \in Handles : handles'[h].call = handles[h].call /\ handles'[h].session = handles[h].session
      /\ \A r \in Runs : r \notin rs => runs'[r] = runs[r]
      /\ \A r \in Runs : Kept(r)
  BY EndingRuns
<1>2. HandleInv'
  BY <1>1 DEF OpenCodeInv, HandleInv
<1>3. ClientInv'
  BY DEF OpenCodeInv, ClientInv, ClosesAll
<1>4. \A r \in Runs : runs[r].owner # NoHandle => runs[r].owner \in Handles /\ handles'[runs[r].owner].call = "made"
  BY <1>1, RunFacts
<1>5. ASSUME NEW r \in rs
      PROVE  /\ runs'[r].result = result /\ result # "none"
             /\ runs'[r].prompt = (IF runs[r].prompt = "none" THEN "none" ELSE "over")
             /\ runs'[r].prompt = "none" => runs'[r].cancel = "none" /\ runs'[r].resolved = {}
             /\ runs'[r].timedOut => runs'[r].cancel # "none"
             /\ CancelFits(runs'[r])
  <2>1. r \in Runs
    OBVIOUS
  <2> HIDE DEF Ends
  <2> QED BY <2>1, EndedRun
<1>6. CancelInv'
  BY <1>1, <1>5 DEF OpenCodeInv, CancelInv
<1>7. \A r \in Runs : remote'[r] = remote[r] \/ (r \in rs /\ runs[r].prompt # "none" /\ remote'[r] = "done")
  BY DEF LeavesOff
<1>8. RunInv'
  <2> SUFFICES ASSUME NEW r \in Runs
               PROVE  /\ runs'[r].open = "idle" <=> runs'[r].owner = NoHandle
                      /\ runs'[r].owner # NoHandle => handles'[runs'[r].owner].call = "made"
                      /\ runs'[r].open = "idle" => runs'[r].result = "none"
                      /\ runs'[r].open = "opened" <=> runs'[r].prompt # "none"
                      /\ runs'[r].result # "none" => runs'[r].prompt \in {"none", "over"}
                      /\ runs'[r].result = "none" => runs'[r].prompt # "over"
                      /\ runs'[r].prompt # "connection_aborted"
                      /\ runs'[r].prompt = "none" => remote'[r] = "none" /\ runs'[r].resolved = {} /\ runs'[r].cancel = "none"
                      /\ Working(r)' => runs'[r].prompt \in {"waiting", "over"}
                      /\ runs'[r].prompt = "waiting" => Working(r)'
                      /\ runs'[r].timedOut => runs'[r].cancel # "none"
    BY DEF RunInv
  <2>1. CASE r \notin rs
    BY <1>1, <1>4, <1>7, <2>1 DEF OpenCodeInv, RunInv, Working
  <2>2. CASE r \in rs
    BY <1>1, <2>2, <1>4, <1>5, <1>7 DEF Kept, OpenCodeInv, RunInv, Working, Underway
  <2> QED BY <2>1, <2>2
<1> QED BY <1>2, <1>3, <1>6, <1>8

LEMMA EndsWorkInv ==
  ASSUME OpenCodeInv, NEW rs, NEW now, NEW pending, NEW result, NEW unsafe, Ends(rs, now, pending, result, unsafe)
  PROVE  ActiveInv' /\ HeldInv' /\ WorkInv'
<1> USE DEF Ends
<1>1. /\ \A r \in Runs : r \notin rs => runs'[r] = runs[r]
      /\ \A r \in rs : r \in Runs /\ runs'[r].result = result /\ result # "none"
      /\ \A r \in Runs : Kept(r)
      /\ \A r \in Runs : Underway(r)' <=> Underway(r) /\ r \notin rs
  BY EndingRuns
<1>2. /\ \A s \in Sessions : activeBySession'[s] = IF activeBySession[s] \in rs THEN NoRun ELSE activeBySession[s]
      /\ activeBySession \in [Sessions -> Runs \cup {NoRun}] /\ quarantinedSessions \subseteq Sessions
      /\ quarantinedSessions' = quarantinedSessions \cup (IF unsafe THEN {SessionOf(r) : r \in rs} ELSE {})
      /\ NoRun \notin rs
  BY NullAssumption DEF SettleAll, OpenCodeInv, Typed, TypeOK
<1>3. \A r \in Runs : Underway(r) => runs[r].owner # NoHandle /\ SessionOf(r) \in Sessions /\ activeBySession[SessionOf(r)] = r
  BY RunFacts
<1>4. ActiveInv'
  <2>1. ASSUME NEW r \in Runs, Underway(r)' PROVE activeBySession'[SessionOf(r)'] = r /\ client' = "open"
    BY <1>1, <1>3, <2>1, <1>2 DEF Kept, OpenCodeInv, ActiveInv, ClosesAll
  <2>2. ASSUME NEW s \in Sessions, activeBySession'[s] # NoRun
        PROVE  \E r \in Runs : activeBySession'[s] = r /\ Underway(r)' /\ SessionOf(r)' = s
    <3>1. PICK r \in Runs : r = activeBySession[s]
      BY <1>2, <2>2
    <3>2. activeBySession'[s] = r /\ r \notin rs
      BY <1>2, <2>2, <3>1
    <3>3. Underway(r) /\ SessionOf(r) = s
      BY <3>1, NullAssumption DEF OpenCodeInv, ActiveInv
    <3>4. Underway(r)' /\ SessionOf(r)' = s
      BY <1>1, <1>3, <3>2, <3>3 DEF Kept
    <3> QED BY <3>2, <3>4
  <2>3. ASSUME NEW s \in Sessions, activeBySession'[s] # NoRun
        PROVE  Underway(activeBySession[s])' /\ SessionOf(activeBySession[s])' = s
    <3>1. PICK r \in Runs : activeBySession'[s] = r /\ Underway(r)' /\ SessionOf(r)' = s
      BY <2>2, <2>3
    <3> QED BY <3>1 DEF Underway, Terminal, SessionOf
  <2> QED BY <2>1, <2>3 DEF ActiveInv
<1>5. \A s \in quarantinedSessions' : s \in Sessions /\ activeBySession'[s] = NoRun
  <2> SUFFICES ASSUME NEW s \in quarantinedSessions' PROVE s \in Sessions /\ activeBySession'[s] = NoRun
    OBVIOUS
  <2>1. CASE s \in quarantinedSessions
    BY <1>2, <2>1 DEF OpenCodeInv, HeldInv
  <2>2. CASE s \notin quarantinedSessions
    <3>1. PICK r \in rs : s = SessionOf(r)
      BY <1>2, <2>2
    <3>2. r \in Runs /\ Underway(r)
      BY <1>1
    <3> QED BY <1>2, <1>3, <3>1, <3>2
  <2> QED BY <2>1, <2>2
<1>6. HeldInv'
  BY <1>1, <1>3, NullAssumption, <1>2, <1>5 DEF OpenCodeInv, HeldInv
<1>7. \A r \in Runs : Working(r)' => Working(r) /\ runs[r].owner # NoHandle /\ SessionOf(r)' = SessionOf(r)
  <2> SUFFICES ASSUME NEW r \in Runs, Working(r)'
               PROVE  Working(r) /\ runs[r].owner # NoHandle /\ SessionOf(r)' = SessionOf(r)
    OBVIOUS
  <2>1. Working(r)
    BY DEF LeavesOff, Working
  <2>2. runs[r].owner # NoHandle
    BY <2>1 DEF OpenCodeInv, RunInv
  <2> QED BY <1>1, <2>1, <2>2 DEF Kept
<1>8. WorkInv'
  BY <1>2, <1>7, <1>1 DEF LeavesOff, Working, Terminal, OpenCodeInv, WorkInv
<1> QED BY <1>4, <1>6, <1>8

LEMMA EndsPendingInv ==
  ASSUME OpenCodeInv, NEW rs, NEW now, NEW pending, NEW result, NEW unsafe, Ends(rs, now, pending, result, unsafe)
  PROVE  PendingInv'
<1>1. /\ \A r \in Runs : r \notin rs => runs'[r] = runs[r]
      /\ \A r \in rs : r \in Runs /\ runs'[r].result = result /\ result # "none"
      /\ \A r \in Runs : Kept(r)
  BY EndingRuns
<1>2. ASSUME NEW r \in rs
      PROVE  /\ now[r].resolved \subseteq runs'[r].resolved
             /\ \A i \in pending : RunOf(i) = r => i \in runs'[r].resolved
             /\ \A i \in runs'[r].resolved : i \in 1..Len(interactions)' /\ RunOf(i)' = r /\ ~interactions'[i].late
             /\ runs[r].resolved \subseteq now[r].resolved
             /\ runs[r].result = "none"
  BY EndedRun DEF Ends, Readied, Underway, Terminal
<1>3. /\ rs \subseteq Runs /\ Asks(rs, now) /\ (result \in Statuses => pending = pendingByLocalId)
      /\ Forgotten(rs)
  BY DEF Ends
<1>31. PICK S \in SUBSET pendingByLocalId :
         /\ \A i \in pendingByLocalId : RunOf(i) \in rs => i \in S
         /\ \A i \in S : RunOf(i) \in rs \/ interactions[i].late
         /\ Forget(S)
  BY <1>3 DEF Forgotten
<1>32. /\ pendingByLocalId' = pendingByLocalId \ S
       /\ pendingByProviderId' = [key \in DOMAIN pendingByProviderId |->
            IF pendingByProviderId[key] \in S THEN 0 ELSE pendingByProviderId[key]]
  BY <1>31 DEF Forget
<1>4. /\ pendingByLocalId \subseteq 1..Len(interactions) /\ DOMAIN pendingByProviderId = Sessions \X Permissions
      /\ Len(interactions) \in Nat /\ Len(interactions)' \in Nat /\ Len(interactions) <= Len(interactions)'
  BY <1>3 DEF OpenCodeInv, Typed, TypeOK, Asks
<1>5. \A i \in 1..Len(interactions) : /\ interactions'[i] = interactions[i] /\ RunOf(i)' = RunOf(i)
                                     /\ i \in 1..Len(interactions)'
  BY <1>3, <1>4 DEF Asks, RunOf
<1>6. \A i \in 1..Len(interactions)' : i \notin 1..Len(interactions) =>
        /\ RunOf(i)' \in rs /\ runs[RunOf(i)'].open = "opened" /\ i \in now[RunOf(i)'].resolved
        /\ ~interactions'[i].late
  BY <1>3, <1>4 DEF Asks
<1>7. ASSUME NEW i \in 1..Len(interactions)'
      PROVE  /\ runs'[RunOf(i)'].open = "opened"
             /\ runs'[RunOf(i)'].result \in Statuses /\ ~interactions'[i].late => i \in runs'[RunOf(i)'].resolved
             /\ ~Terminal(RunOf(i))' => i \in pendingByLocalId' \cup runs'[RunOf(i)'].resolved
             /\ interactions'[i].late => Terminal(RunOf(i))'
  <2>1. CASE i \notin 1..Len(interactions)
    <3>1. PICK r \in rs : r = RunOf(i)'
      BY <1>6, <2>1
    <3>2. runs'[r].open = "opened" /\ i \in runs'[r].resolved /\ ~interactions'[i].late
      BY <1>1, <1>2, <1>3, <1>6, <2>1, <3>1 DEF Kept
    <3> QED BY <3>1, <3>2
  <2>2. CASE i \in 1..Len(interactions)
    <3>1. PICK r \in Runs : r = RunOf(i) /\ r = RunOf(i)' /\ runs[r].open = "opened"
      BY <1>5, <2>2, PermissionFacts
    <3>2. runs'[r].open = "opened"
      BY <1>1, <3>1 DEF Kept
    <3>3. /\ ~Terminal(r) => i \in pendingByLocalId \cup runs[r].resolved
          /\ runs[r].result \in Statuses /\ ~interactions[i].late => i \in runs[r].resolved
          /\ interactions[i].late => Terminal(r)
          /\ interactions'[i] = interactions[i]
      BY <1>5, <2>2, <3>1 DEF OpenCodeInv, PendingInv
    <3>4. CASE r \notin rs
      <4>1. runs'[r] = runs[r]
        BY <1>1, <3>4
      <4>2. ~Terminal(r) /\ i \in pendingByLocalId => i \in pendingByLocalId'
        BY <1>31, <1>32, <3>1, <3>3, <3>4
      <4> QED BY <3>1, <3>2, <3>3, <4>1, <4>2 DEF Terminal
    <3>5. CASE r \in rs
      <4>1. runs'[r].result = result /\ result # "none" /\ ~Terminal(r)
        BY <1>1, <1>2, <3>5 DEF Terminal
      <4>2. result \in Statuses => i \in runs'[r].resolved
        BY <1>2, <1>3, <3>1, <3>3, <3>5, <4>1
      <4>3. ~interactions'[i].late
        BY <3>3, <4>1
      <4> QED BY <3>1, <3>2, <4>1, <4>2, <4>3 DEF Terminal
    <3> QED BY <3>4, <3>5
  <2> QED BY <2>1, <2>2
<1>8. ASSUME NEW i \in pendingByLocalId'
      PROVE  /\ pendingByProviderId'[KeyOf(i)'] = i
             /\ interactions'[i].late \/ ~Terminal(RunOf(i))'
             /\ i \notin runs'[RunOf(i)'].resolved
  <2>1. /\ i \in pendingByLocalId /\ i \notin S /\ i \in 1..Len(interactions) /\ RunOf(i) \notin rs /\ RunOf(i)' = RunOf(i)
        /\ interactions'[i] = interactions[i]
    BY <1>31, <1>32, <1>4, <1>5
  <2>2. PICK r \in Runs : r = RunOf(i) /\ runs[r].open = "opened"
    BY <2>1, PermissionFacts
  <2>3. runs[r].owner # NoHandle
    BY <2>2 DEF OpenCodeInv, RunInv
  <2>4. SessionOf(RunOf(i))' = SessionOf(RunOf(i))
    BY <1>1, <2>3, <2>1, <2>2 DEF Kept, SessionOf
  <2>5. KeyOf(i)' = KeyOf(i)
    BY <1>5, <2>1, <2>4 DEF KeyOf
  <2>6. KeyOf(i) \in DOMAIN pendingByProviderId
    BY <1>4, <2>1, PermissionFacts
  <2>7. pendingByProviderId[KeyOf(i)] = i /\ (interactions[i].late \/ ~Terminal(r)) /\ i \notin runs[r].resolved
    BY <2>1, <2>2 DEF OpenCodeInv, PendingInv
  <2>8. pendingByProviderId'[KeyOf(i)] = i
    BY <1>32, <2>1, <2>6, <2>7
  <2>9. runs'[r] = runs[r]
    BY <1>1, <2>1, <2>2
  <2> QED BY <2>1, <2>2, <2>5, <2>7, <2>8, <2>9 DEF Terminal
<1>9. ASSUME NEW key \in Sessions \X Permissions, pendingByProviderId'[key] # 0
      PROVE  pendingByProviderId'[key] \in pendingByLocalId'
  BY <1>32, <1>4, <1>9 DEF OpenCodeInv, PendingInv
<1>10. ASSUME NEW r \in Runs, NEW i \in runs'[r].resolved
       PROVE  i \in 1..Len(interactions)' /\ RunOf(i)' = r /\ ~interactions'[i].late
  BY <1>2, <1>1, <1>5 DEF OpenCodeInv, PendingInv
<1>11. \A i \in 1..Len(interactions)' : Terminal(RunOf(i))' <=> runs'[RunOf(i)'].result # "none"
  BY DEF Terminal
<1> QED BY <1>7, <1>8, <1>9, <1>10 DEF PendingInv

LEMMA EndsTyped ==
  ASSUME OpenCodeInv, NEW rs, NEW now, NEW pending, NEW result, NEW unsafe, Ends(rs, now, pending, result, unsafe)
  PROVE  Typed'
<1>1. Typed
  BY DEF OpenCodeInv
<1>2. runs' \in [Runs -> RunRec] /\ handles' \in [Handles -> HandleRec]
  BY EndingRuns
<1>3. \A r \in rs : SessionOf(r) \in Sessions
  <2> SUFFICES ASSUME NEW r \in rs PROVE SessionOf(r) \in Sessions
    OBVIOUS
  <2>1. r \in Runs /\ Underway(r)
    BY DEF Ends
  <2> QED BY <2>1, RunFacts
<1>4. /\ client' \in {"none", "probing", "failed", "open", "closed"} /\ transport' \in {"none", "open", "closed"}
      /\ closedHandles' \subseteq Handles
      /\ activeBySession' \in [Sessions -> Runs \cup {NoRun}]
      /\ knownSessions' \subseteq created' /\ quarantinedSessions' \subseteq Sessions
      /\ forks' \in [Sessions -> {"none", "status", "get", "post"}]
      /\ created' \subseteq Sessions /\ remoteForks' \subseteq Sessions
  BY <1>1, <1>3 DEF Ends, ClosesAll, Typed, TypeOK, SettleAll
<1>5. /\ interactions' \in Seq(InteractionRec) /\ Len(interactions)' <= MaxInteractions
      /\ Len(interactions) \in Nat /\ Len(interactions)' \in Nat /\ Len(interactions) <= Len(interactions)'
  BY <1>1 DEF Ends, Asks, Typed, TypeOK
<1>6. pendingByLocalId' \subseteq 1..Len(interactions)' /\ claimed' \subseteq 1..Len(interactions)'
  <2>1. pendingByLocalId \subseteq 1..Len(interactions) /\ claimed \subseteq 1..Len(interactions)
    BY <1>1 DEF Typed, TypeOK
  <2>2. pendingByLocalId' \subseteq pendingByLocalId /\ claimed' \subseteq claimed
    BY DEF Ends, Forgotten, Forget
  <2> QED BY <1>5, <2>1, <2>2
<1>7. pendingByProviderId' \in [Sessions \X Permissions -> 0..Len(interactions)']
  <2>1. pendingByProviderId \in [Sessions \X Permissions -> 0..Len(interactions)]
    BY <1>1 DEF Typed, TypeOK
  <2>2. PICK S : pendingByProviderId' = [key \in DOMAIN pendingByProviderId |->
                                          IF pendingByProviderId[key] \in S THEN 0 ELSE pendingByProviderId[key]]
    BY DEF Ends, Forgotten, Forget
  <2>3. pendingByProviderId' = [key \in Sessions \X Permissions |->
                                 IF pendingByProviderId[key] \in S THEN 0 ELSE pendingByProviderId[key]]
    BY <2>1, <2>2
  <2>4. \A key \in Sessions \X Permissions : pendingByProviderId[key] \in 0..Len(interactions)' /\ 0 \in 0..Len(interactions)'
    BY <1>5, <2>1
  <2> QED BY <2>3, <2>4
<1>8. remote' \in [Runs -> {"none", "running", "aborting", "done"}]
  BY DEF Ends, LeavesOff
<1>9. interactions' \in Seq([run: Runs, permission: Permissions, late: BOOLEAN])
  BY <1>5 DEF InteractionRec
<1> QED BY <1>2, <1>4, <1>5, <1>6, <1>7, <1>8, <1>9 DEF Typed, TypeOK, RunRec, CancelStates, HandleRec

(* Runs that end, and all others rest. *)
LEMMA EndsKeep ==
  ASSUME OpenCodeInv, NEW rs, NEW now, NEW pending, NEW result, NEW unsafe, Ends(rs, now, pending, result, unsafe)
  PROVE  OpenCodeInv' /\ RunsMove
<1>1. OpenCodeInv'
  BY EndsTyped, EndsRunInv, EndsWorkInv, EndsPendingInv DEF OpenCodeInv
<1>2. /\ \A r \in Runs : r \notin rs => runs'[r] = runs[r]
      /\ \A r \in rs : r \in Runs /\ runs'[r].result = result /\ result # "none"
      /\ \A r \in Runs : Kept(r)
  BY EndingRuns
<1>3. /\ Len(interactions) \in Nat /\ Len(interactions)' \in Nat /\ Len(interactions) <= Len(interactions)'
      /\ \A i \in 1..Len(interactions) : interactions'[i] = interactions[i]
      /\ \A i \in 1..Len(interactions)' : i > Len(interactions) =>
           interactions'[i].run \in rs /\ runs[interactions'[i].run].open = "opened"
  BY DEF OpenCodeInv, Typed, TypeOK, Ends, Asks, RunOf
<1>4. ASSUME NEW r \in Runs PROVE Moved(r)
  <2>1. Requested(r) \subseteq Requested(r)'
    BY <1>3 DEF Requested
  <2>2. r \notin rs \/ runs[r].open # "opened" => Requested(r)' = Requested(r)
    BY <1>3 DEF Requested
  <2>3. runs'[r].open = runs[r].open
    BY <1>2 DEF Kept
  <2>4. CASE r \notin rs
    BY <1>2, <2>2, <2>4 DEF Moved, StatusOfRun, Terminal
  <2>5. CASE r \in rs /\ runs[r].open # "opened"
    BY <2>5, <1>1, <2>3, <2>2 DEF OpenCodeInv, RunInv, Moved, StatusOfRun
  <2>6. CASE r \in rs /\ runs[r].open = "opened"
    BY <2>6, EndedRun, <1>2, <2>3, <2>1 DEF Ends, Readied, StatusOfRun, Underway, Terminal, Moved
  <2> QED BY <2>4, <2>5, <2>6
<1> QED BY <1>1, <1>4 DEF RunsMove

(* Around the end of a Run. *)
Around ==
  /\ closedHandles' \subseteq Handles /\ claimed' \subseteq claimed
  /\ UNCHANGED <<client, transport, knownSessions, forks, created, remoteForks>>

LEMMA NothingAsked ==
  ASSUME OpenCodeInv, NEW rs, NEW now, UNCHANGED interactions
  PROVE  Asks(rs, now)
<1>1. interactions \in Seq(InteractionRec) /\ Len(interactions) \in Nat /\ Len(interactions) <= MaxInteractions
  BY DEF OpenCodeInv, Typed, TypeOK, InteractionRec
<1> QED BY <1>1 DEF Asks

LEMMA AsItWas ==
  ASSUME OpenCodeInv, NEW r \in Runs, UNCHANGED interactions
  PROVE  Readied(r, runs[r]) /\ runs \in [Runs -> RunRec]
<1>1. runs \in [Runs -> RunRec]
  BY DEF OpenCodeInv, Typed, TypeOK, RunRec, CancelStates
<1>2. /\ runs[r].prompt = "none" => runs[r].cancel = "none" /\ runs[r].resolved = {}
      /\ runs[r].timedOut => runs[r].cancel # "none"
  BY DEF OpenCodeInv, RunInv
<1>3. \A i \in runs[r].resolved : i \in 1..Len(interactions)' /\ RunOf(i)' = r /\ ~interactions'[i].late
  BY DEF OpenCodeInv, PendingInv, RunOf
<1>4. runs[r].result = "none" => runs[r].cancel \notin {"native", "connection_aborted", "already_terminal"}
  BY DEF OpenCodeInv, CancelInv, CancelFits
<1> QED BY <1>1, <1>2, <1>3, <1>4 DEF Readied

(* finish() of a Run, from the state the step has brought it to. *)
LEMMA SettleKeeps ==
  ASSUME OpenCodeInv, NEW r \in Runs, Underway(r), NEW now \in [Runs -> RunRec], NEW result \in Terminals, NEW unsafe \in BOOLEAN,
         Readied(r, now[r]), \A q \in Runs : q # r => now[q] = runs[q],
         Settle(r, now, result, unsafe), Asks({r}, now), LeavesOff({r}, unsafe), Around
  PROVE  OpenCodeInv' /\ RunsMove
<1>1. SettleAll({r}, now, pendingByLocalId, result, unsafe) /\ Forget(PendingOf({r}))
  BY DEF Settle, Underway
<1>2. PendingOf({r}) = {i \in pendingByLocalId : RunOf(i) \in {r}}
  BY DEF PendingOf, RunOf
<1>3. Forgotten({r})
  BY <1>1, <1>2 DEF Forgotten
<1>4. ClosesAll({r})
  BY DEF Around, ClosesAll
<1>5. Ends({r}, now, pendingByLocalId, result, unsafe)
  BY <1>1, <1>3, <1>4 DEF Ends, Around
<1> QED BY <1>5, EndsKeep

LEMMA SettlesAsItIs ==
  ASSUME OpenCodeInv, NEW r \in Runs, Underway(r), NEW result \in Terminals, NEW unsafe \in BOOLEAN,
         Settle(r, runs, result, unsafe), LeavesOff({r}, unsafe), Around, UNCHANGED interactions
  PROVE  OpenCodeInv' /\ RunsMove
<1>1. Readied(r, runs[r]) /\ runs \in [Runs -> RunRec]
  BY AsItWas
<1>2. Asks({r}, runs)
  BY NothingAsked
<1> QED BY <1>1, <1>2, SettleKeeps

LEMMA StillWorks ==
  ASSUME OpenCodeInv, NEW rs, UNCHANGED remote
  PROVE  LeavesOff(rs, TRUE)
BY DEF LeavesOff, OpenCodeInv, Typed, TypeOK

LEMMA AbortsAsItIs ==
  ASSUME OpenCodeInv, NEW r \in Runs, Underway(r), AbortRun(r, runs), Around, UNCHANGED <<interactions, remote>>
  PROVE  OpenCodeInv' /\ RunsMove
<1>1. Settle(r, runs, "connection_aborted", TRUE) /\ "connection_aborted" \in Terminals
  BY DEF AbortRun, Terminals
<1>2. LeavesOff({r}, TRUE)
  BY StillWorks
<1> QED BY <1>1, <1>2, SettlesAsItIs

(* Nothing about a Run changes. *)
LEMMA RunsRest ==
  ASSUME OpenCodeInv, UNCHANGED <<runs, interactions>>
  PROVE  RunsMove
BY DEF RunsMove, Moved, StatusOfRun, Requested, Terminal

-------------------------------------------------------------------------------
(* connect() and close(). *)
LEMMA ConnectKeeps ==
  ASSUME OpenCodeInv,
         (\E profile \in ProfileOutcomes : Connect(profile)) \/ (\E outcome \in Outcomes : Probed(outcome))
  PROVE  OpenCodeInv' /\ RunsMove
<1>1. UNCHANGED <<closedHandles, handles, tables, forks, runs, inter, provider>>
  BY DEF Connect, Probed
<1>2. /\ client' \in {"none", "probing", "failed", "open", "closed"} /\ transport' \in {"none", "open", "closed"}
      /\ client' \in {"probing", "open"} <=> transport' = "open"
      /\ client = "open" => client' = "open"
  BY DEF OpenCodeInv, ClientInv, Typed, TypeOK, Connect, Probed
<1>3. Typed'
  BY <1>1, <1>2 DEF OpenCodeInv, Typed, TypeOK, tables, inter, provider
<1>4. HandleInv' /\ RunInv' /\ CancelInv' /\ HeldInv' /\ WorkInv' /\ PendingInv'
  BY <1>1 DEF OpenCodeInv, HandleInv, RunInv, CancelInv, CancelFits, HeldInv, WorkInv, PendingInv, Working, Terminal, SessionOf,
              RunOf, KeyOf, tables, inter, provider
<1>5. ActiveInv' /\ ClientInv'
  BY <1>1, <1>2 DEF OpenCodeInv, ActiveInv, ClientInv, Underway, Terminal, SessionOf, tables
<1>6. RunsMove
  BY <1>1, RunsRest DEF inter
<1> QED BY <1>3, <1>4, <1>5, <1>6 DEF OpenCodeInv

LEMMA CloseKeeps ==
  ASSUME OpenCodeInv, Close
  PROVE  OpenCodeInv' /\ RunsMove
<1>1. PICK rs \in SUBSET Runs : rs = ActiveRuns
  BY DEF ActiveRuns
<1>2. \A r \in Runs : Underway(r) <=> r \in rs
  <2>1. ASSUME NEW r \in rs PROVE Underway(r)
    <3>1. PICK s \in Sessions : activeBySession[s] = r
      BY <1>1 DEF ActiveRuns
    <3> QED BY <3>1, NullAssumption DEF OpenCodeInv, ActiveInv
  <2>2. ASSUME NEW r \in Runs, Underway(r) PROVE r \in rs
    BY <2>2, RunFacts, <1>1 DEF ActiveRuns
  <2> QED BY <2>1, <2>2
<1>3. runs \in [Runs -> RunRec] /\ UNCHANGED interactions /\ UNCHANGED remote
  BY DEF OpenCodeInv, Typed, TypeOK, RunRec, CancelStates, Close, provider
<1>4. \A r \in rs : Underway(r) /\ Readied(r, runs[r])
  BY <1>2, <1>3, AsItWas
<1>5. Asks(rs, runs) /\ LeavesOff(rs, TRUE)
  BY <1>3, NothingAsked, StillWorks
<1>6. \A i \in pendingByLocalId : RunOf(i) \in rs \/ interactions[i].late
  <2> SUFFICES ASSUME NEW i \in pendingByLocalId, ~interactions[i].late PROVE RunOf(i) \in rs
    OBVIOUS
  <2>1. i \in 1..Len(interactions)
    BY DEF OpenCodeInv, Typed, TypeOK
  <2>2. RunOf(i) \in Runs /\ runs[RunOf(i)].open = "opened" /\ ~Terminal(RunOf(i))
    BY <2>1, PermissionFacts DEF OpenCodeInv, PendingInv
  <2> QED BY <1>2, <2>2 DEF Underway
<1>7. /\ SettleAll(rs, runs, pendingByLocalId, "connection_aborted", TRUE)
      /\ Forgotten(rs)
  BY <1>1, <1>6 DEF Close, Forgotten
<1>8. ClosesAll(rs)
  BY <1>2 DEF ClosesAll, Close
<1>9. Ends(rs, runs, pendingByLocalId, "connection_aborted", TRUE)
  BY <1>3, <1>4, <1>5, <1>7, <1>8 DEF Close, provider, OpenCodeInv, Typed, TypeOK, Ends, Terminals
<1> QED BY <1>9, EndsKeep

-------------------------------------------------------------------------------
(* Sessions and their forks. *)
Same == \A r \in Runs : runs[r].owner # NoHandle => SessionOf(r)' = SessionOf(r)

(* A handle whose Session is not in use comes to another step. *)
LEMMA HandleSteps ==
  ASSUME OpenCodeInv, NEW h \in Handles, NEW call \in {"free", "create", "status", "get", "made", "refused"},
         NEW s \in Sessions \cup {NoSession}, handles[h].call # "made", SetCall(h, call, s),
         call \in {"status", "get", "made"} => s \in created', created \subseteq created', UNCHANGED <<runs, remote>>
  PROVE  handles' \in [Handles -> HandleRec] /\ HandleInv' /\ RunInv' /\ Same
<1>1. handles \in [Handles -> HandleRec]
  BY DEF OpenCodeInv, Typed, TypeOK, HandleRec
<1>2. PICK rec : rec = [handles[h] EXCEPT !.call = call, !.session = s]
  OBVIOUS
<1>3. rec \in HandleRec /\ rec.call = call /\ rec.session = s
  BY <1>1, <1>2 DEF HandleRec
<1>4. handles' = [handles EXCEPT ![h] = rec]
  BY <1>1, <1>2 DEF SetCall
<1>5. handles' \in [Handles -> HandleRec] /\ handles'[h] = rec /\ \A g \in Handles : g # h => handles'[g] = handles[g]
  BY <1>1, <1>3, <1>4
<1>6. HandleInv'
  BY <1>3, <1>5 DEF OpenCodeInv, HandleInv
<1>7. ASSUME NEW r \in Runs, runs[r].owner # NoHandle
      PROVE  handles'[runs[r].owner] = handles[runs[r].owner] /\ handles[runs[r].owner].call = "made"
  BY <1>5, <1>7, RunFacts
<1>8. RunInv'
  BY <1>7 DEF OpenCodeInv, RunInv, Working
<1>9. Same
  BY <1>7 DEF Same, SessionOf
<1> QED BY <1>5, <1>6, <1>8, <1>9

(* The same step by a handle that does not move. *)
LEMMA HandlesStay ==
  ASSUME OpenCodeInv, created \subseteq created', UNCHANGED <<handles, runs, remote>>
  PROVE  handles' \in [Handles -> HandleRec] /\ HandleInv' /\ RunInv' /\ Same
<1>1. handles \in [Handles -> HandleRec]
  BY DEF OpenCodeInv, Typed, TypeOK, HandleRec
<1>2. HandleInv'
  BY DEF OpenCodeInv, HandleInv
<1>3. RunInv'
  BY DEF OpenCodeInv, RunInv, Working
<1> QED BY <1>1, <1>2, <1>3 DEF Same, SessionOf

(* Sessions come and are held or let go, and Runs go on as they were. *)
LEMMA SessionsKeep ==
  ASSUME OpenCodeInv, handles' \in [Handles -> HandleRec], HandleInv', RunInv', Same,
         UNCHANGED <<client, transport, closedHandles, activeBySession, runs, interactions, pendingByLocalId, pendingByProviderId, remote>>,
         claimed' \subseteq 1..Len(interactions),
         created' \subseteq Sessions, knownSessions' \subseteq created', remoteForks' \subseteq Sessions,
         forks' \in [Sessions -> {"none", "status", "get", "post"}],
         quarantinedSessions \subseteq quarantinedSessions', quarantinedSessions' \subseteq Sessions,
         HeldInv',
         \A s \in remoteForks' : forks'[s] = "post" \/ s \in quarantinedSessions',
         \A r \in Runs : Working(r) => SessionOf(r) \notin remoteForks'
  PROVE  OpenCodeInv' /\ RunsMove
<1>1. Typed'
  BY DEF OpenCodeInv, Typed, TypeOK, HandleRec
<1>2. ClientInv' /\ CancelInv'
  BY DEF OpenCodeInv, ClientInv, CancelInv, CancelFits
<1>3. \A r \in Runs : Underway(r) => SessionOf(r)' = SessionOf(r)
  BY RunFacts DEF Same
<1>4. ActiveInv'
  BY <1>3 DEF OpenCodeInv, ActiveInv, Underway, Terminal, Typed, TypeOK, SessionOf
<1>5. \A r \in Runs : Working(r)' => Working(r) /\ SessionOf(r)' = SessionOf(r)
  <2> SUFFICES ASSUME NEW r \in Runs, Working(r) PROVE SessionOf(r)' = SessionOf(r)
    BY DEF Working
  <2>1. runs[r].owner # NoHandle
    BY DEF OpenCodeInv, RunInv
  <2> QED BY <2>1 DEF Same
<1>6. WorkInv'
  BY <1>5 DEF OpenCodeInv, WorkInv, Terminal
<1>7. \A i \in 1..Len(interactions) : KeyOf(i)' = KeyOf(i) /\ RunOf(i)' = RunOf(i)
  <2> SUFFICES ASSUME NEW i \in 1..Len(interactions) PROVE KeyOf(i)' = KeyOf(i) /\ RunOf(i)' = RunOf(i)
    OBVIOUS
  <2>1. RunOf(i)' = RunOf(i)
    BY DEF RunOf
  <2>2. RunOf(i) \in Runs /\ runs[RunOf(i)].owner # NoHandle
    BY PermissionFacts DEF OpenCodeInv, RunInv
  <2>3. SessionOf(RunOf(i))' = SessionOf(RunOf(i))
    <3>1. PICK r \in Runs : r = RunOf(i)
      BY <2>2
    <3>2. SessionOf(r)' = SessionOf(r)
      BY <2>2, <3>1 DEF Same
    <3> QED BY <2>1, <3>1, <3>2 DEF SessionOf
  <2> QED BY <2>1, <2>3 DEF KeyOf
<1>8. pendingByLocalId \subseteq 1..Len(interactions)
  BY DEF OpenCodeInv, Typed, TypeOK
<1>9. PendingInv'
  BY <1>7, <1>8 DEF OpenCodeInv, PendingInv, Terminal
<1>10. RunsMove
  BY RunsRest
<1> QED BY <1>1, <1>2, <1>4, <1>6, <1>9, <1>10 DEF OpenCodeInv

(* What a step that leaves them alone needs of the Sessions. *)
LEMMA SessionFacts ==
  ASSUME OpenCodeInv
  PROVE  /\ created \subseteq Sessions /\ knownSessions \subseteq created /\ remoteForks \subseteq Sessions
         /\ forks \in [Sessions -> {"none", "status", "get", "post"}] /\ quarantinedSessions \subseteq Sessions
         /\ \A s \in remoteForks : forks[s] = "post" \/ s \in quarantinedSessions
         /\ \A r \in Runs : Working(r) => SessionOf(r) \notin remoteForks
         /\ claimed \subseteq 1..Len(interactions) /\ closedHandles \subseteq Handles
         /\ \A h \in Handles : handles[h].call \in {"status", "get", "made"} => handles[h].session \in created
BY DEF OpenCodeInv, Typed, TypeOK, WorkInv, HandleInv

LEMMA HeldStays ==
  ASSUME OpenCodeInv, UNCHANGED <<activeBySession, quarantinedSessions, forks>>
  PROVE  HeldInv'
BY DEF OpenCodeInv, HeldInv

LEMMA CreateKeeps ==
  ASSUME OpenCodeInv, NEW h \in Handles, Create(h)
  PROVE  OpenCodeInv' /\ RunsMove
<1>1. /\ SetCall(h, "create", NoSession) /\ handles[h].call # "made"
      /\ UNCHANGED <<client, transport, closedHandles, tables, forks, runs, inter, provider>>
  BY DEF Create
<1>2. handles' \in [Handles -> HandleRec] /\ HandleInv' /\ RunInv' /\ Same
  BY <1>1, HandleSteps DEF provider
<1>3. HeldInv'
  BY <1>1, HeldStays DEF tables
<1> QED BY <1>1, <1>2, <1>3, SessionFacts, SessionsKeep DEF tables, inter, provider

LEMMA CreatedKeeps ==
  ASSUME OpenCodeInv, NEW h \in Handles, NEW s \in Sessions, NEW outcome, Created(h, s, outcome)
  PROVE  OpenCodeInv' /\ RunsMove
<1>1. /\ handles[h].call # "made" /\ created \subseteq created' /\ created' \subseteq created \cup {s}
      /\ UNCHANGED <<client, transport, closedHandles, activeBySession, quarantinedSessions, forks, runs, inter, remote, remoteForks>>
  BY DEF Created
<1>2. \/ s \in created' /\ SetCall(h, "made", s) /\ knownSessions' = knownSessions \cup {s}
      \/ SetCall(h, "refused", NoSession) /\ UNCHANGED knownSessions
  BY DEF Created
<1>3. handles' \in [Handles -> HandleRec] /\ HandleInv' /\ RunInv' /\ Same
  BY <1>1, HandleSteps, <1>2
<1>4. HeldInv'
  BY <1>1, HeldStays
<1>5. created' \subseteq Sessions /\ knownSessions' \subseteq created'
  BY <1>1, <1>2, SessionFacts
<1> QED BY <1>1, <1>3, <1>4, <1>5, SessionFacts, SessionsKeep DEF inter

LEMMA ResumeKeeps ==
  ASSUME OpenCodeInv, NEW h \in Handles, NEW s \in Sessions, Resume(h, s)
  PROVE  OpenCodeInv' /\ RunsMove
<1>1. /\ SetCall(h, "status", s) /\ handles[h].call # "made" /\ s \in created
      /\ UNCHANGED <<client, transport, closedHandles, tables, forks, runs, inter, provider>>
  BY DEF Resume
<1>2. handles' \in [Handles -> HandleRec] /\ HandleInv' /\ RunInv' /\ Same
  BY <1>1, HandleSteps DEF provider
<1>3. HeldInv'
  BY <1>1, HeldStays DEF tables
<1> QED BY <1>1, <1>2, <1>3, SessionFacts, SessionsKeep DEF tables, inter, provider

LEMMA ResumedKeeps ==
  ASSUME OpenCodeInv, NEW h \in Handles, NEW outcome, NEW same \in BOOLEAN, Resumed(h, outcome, same)
  PROVE  OpenCodeInv' /\ RunsMove
<1>1. PICK s \in created : s = handles[h].session
  BY SessionFacts DEF Resumed
<1>2. /\ handles[h].call # "made" /\ created' = created /\ knownSessions' \subseteq knownSessions \cup {s}
      /\ UNCHANGED <<client, transport, closedHandles, activeBySession, quarantinedSessions, forks, runs, inter, provider>>
      /\ SetCall(h, "refused", s) \/ SetCall(h, "get", s) \/ SetCall(h, "made", s)
  BY <1>1 DEF Resumed, provider
<1>3. s \in Sessions /\ s \in created'
  BY <1>1, <1>2, SessionFacts
<1>4. handles' \in [Handles -> HandleRec] /\ HandleInv' /\ RunInv' /\ Same
  BY <1>2, <1>3, HandleSteps DEF provider
<1>5. HeldInv'
  BY <1>2, HeldStays
<1>6. knownSessions' \subseteq created'
  BY <1>2, <1>3, SessionFacts
<1> QED BY <1>2, <1>4, <1>5, <1>6, SessionFacts, SessionsKeep DEF inter, provider

LEMMA ForkKeeps ==
  ASSUME OpenCodeInv, NEW s \in Sessions, Fork(s)
  PROVE  OpenCodeInv' /\ RunsMove
<1>1. /\ forks' = [forks EXCEPT ![s] = "status"] /\ activeBySession[s] = NoRun /\ s \notin quarantinedSessions
      /\ UNCHANGED <<client, transport, closedHandles, handles, tables, runs, inter, provider>>
  BY DEF Fork, Reusable
<1>2. /\ forks' \in [Sessions -> {"none", "status", "get", "post"}]
      /\ \A q \in Sessions : forks'[q] = IF q = s THEN "status" ELSE forks[q]
  BY <1>1, SessionFacts
<1>3. handles' \in [Handles -> HandleRec] /\ HandleInv' /\ RunInv' /\ Same
  BY <1>1, HandlesStay DEF provider
<1>4. HeldInv'
  BY <1>1, <1>2 DEF OpenCodeInv, HeldInv, tables
<1>5. forks[s] = "none"
  BY DEF Fork, Reusable
<1>6. \A q \in remoteForks' : forks'[q] = "post" \/ q \in quarantinedSessions'
  BY <1>1, <1>2, <1>5, SessionFacts DEF provider, tables
<1> QED BY <1>1, <1>2, <1>3, <1>4, <1>6, SessionFacts, SessionsKeep DEF tables, inter, provider

(* A Session that is being forked is not worked on. *)
LEMMA ForkIsAlone ==
  ASSUME OpenCodeInv, NEW s \in Sessions, forks[s] # "none"
  PROVE  activeBySession[s] = NoRun /\ s \notin quarantinedSessions /\ \A r \in Runs : Working(r) => SessionOf(r) # s
<1>1. activeBySession[s] = NoRun /\ s \notin quarantinedSessions
  BY DEF OpenCodeInv, HeldInv
<1>2. ASSUME NEW r \in Runs, Working(r) PROVE SessionOf(r) # s
  BY <1>1, <1>2, RunFacts, NullAssumption DEF OpenCodeInv, WorkInv, RunInv, Underway
<1> QED BY <1>1, <1>2

LEMMA ForkCheckedKeeps ==
  ASSUME OpenCodeInv, NEW s \in Sessions, NEW outcome, NEW same \in BOOLEAN, ForkChecked(s, outcome, same)
  PROVE  OpenCodeInv' /\ RunsMove
<1>1. /\ forks[s] \in {"status", "get"}
      /\ UNCHANGED <<client, transport, closedHandles, handles, tables, runs, inter, created, remote>>
  BY DEF ForkChecked
<1>2. PICK f \in {"none", "get", "post"} : forks' = [forks EXCEPT ![s] = f]
  BY DEF ForkChecked
<1>3. /\ forks' \in [Sessions -> {"none", "status", "get", "post"}]
      /\ \A q \in Sessions : forks'[q] = IF q = s THEN f ELSE forks[q]
  BY <1>2, SessionFacts
<1>4. remoteForks' = IF f = "post" THEN remoteForks \cup {s} ELSE remoteForks
  BY <1>3 DEF ForkChecked
<1>5. activeBySession[s] = NoRun /\ s \notin quarantinedSessions /\ \A r \in Runs : Working(r) => SessionOf(r) # s
  BY <1>1, ForkIsAlone
<1>6. handles' \in [Handles -> HandleRec] /\ HandleInv' /\ RunInv' /\ Same
  BY <1>1, HandlesStay
<1>7. HeldInv'
  BY <1>1, <1>3, <1>5 DEF OpenCodeInv, HeldInv, tables
<1>8. \A q \in remoteForks' : forks'[q] = "post" \/ q \in quarantinedSessions'
  BY <1>1, <1>3, <1>4, <1>5, SessionFacts DEF tables
<1>9. remoteForks' \subseteq Sessions /\ \A r \in Runs : Working(r) => SessionOf(r) \notin remoteForks'
  BY <1>4, <1>5, SessionFacts
<1> QED BY <1>1, <1>3, <1>6, <1>7, <1>8, <1>9, SessionFacts, SessionsKeep DEF tables, inter

LEMMA ForkedKeeps ==
  ASSUME OpenCodeInv, NEW s \in Sessions, NEW h \in Handles, NEW child \in Sessions, NEW outcome, Forked(s, h, child, outcome)
  PROVE  OpenCodeInv' /\ RunsMove
<1>1. /\ forks[s] = "post" /\ forks' = [forks EXCEPT ![s] = "none"]
      /\ UNCHANGED <<client, transport, closedHandles, activeBySession, runs, inter, remote>>
  BY DEF Forked
<1>2. /\ forks' \in [Sessions -> {"none", "status", "get", "post"}]
      /\ \A q \in Sessions : forks'[q] = IF q = s THEN "none" ELSE forks[q]
  BY <1>1, SessionFacts
<1>3. activeBySession[s] = NoRun /\ s \notin quarantinedSessions /\ \A r \in Runs : Working(r) => SessionOf(r) # s
  BY <1>1, ForkIsAlone
<1>4. \/ /\ created' = created \cup {child} /\ knownSessions' = knownSessions \cup {child}
         /\ SetCall(h, "made", child) /\ handles[h].call = "free" /\ UNCHANGED quarantinedSessions
         /\ remoteForks' = remoteForks \ {s}
      \/ /\ UNCHANGED <<created, knownSessions, handles>> /\ quarantinedSessions' = quarantinedSessions \cup {s}
         /\ remoteForks' \subseteq remoteForks
      \/ /\ UNCHANGED <<created, knownSessions, handles, quarantinedSessions>> /\ remoteForks' = remoteForks \ {s}
  BY DEF Forked, Answers
<1>5. handles' \in [Handles -> HandleRec] /\ HandleInv' /\ RunInv' /\ Same
  BY <1>1, HandleSteps, HandlesStay, <1>4
<1>6. HeldInv'
  BY <1>1, <1>2, <1>3, <1>4 DEF OpenCodeInv, HeldInv
<1>7. \A q \in remoteForks' : forks'[q] = "post" \/ q \in quarantinedSessions'
  <2> SUFFICES ASSUME NEW q \in remoteForks' PROVE forks'[q] = "post" \/ q \in quarantinedSessions'
    OBVIOUS
  <2>1. q \in Sessions /\ (forks[q] = "post" \/ q \in quarantinedSessions) /\ (q = s => s \in quarantinedSessions')
    BY <1>4, SessionFacts
  <2> QED BY <1>2, <1>4, <2>1
<1>8. /\ remoteForks' \subseteq Sessions /\ \A r \in Runs : Working(r) => SessionOf(r) \notin remoteForks'
      /\ created' \subseteq Sessions /\ knownSessions' \subseteq created' /\ created \subseteq created'
      /\ quarantinedSessions \subseteq quarantinedSessions' /\ quarantinedSessions' \subseteq Sessions
  BY <1>4, SessionFacts
<1> QED BY <1>1, <1>2, <1>5, <1>6, <1>7, <1>8, SessionFacts, SessionsKeep DEF inter

(* What the Provider ends by itself. *)
LEMMA RemoteEndsKeeps ==
  ASSUME OpenCodeInv, RemoteEnds
  PROVE  OpenCodeInv' /\ RunsMove
<1>1. UNCHANGED <<client, transport, closedHandles, handles, tables, forks, runs, inter, created>>
  BY DEF RemoteEnds
<1>2. /\ remote' \in [Runs -> {"none", "running", "aborting", "done"}]
      /\ \A r \in Runs : \/ remote'[r] = remote[r]
                         \/ remote'[r] = "done" /\ runs[r].prompt = "over"
      /\ remoteForks' \subseteq remoteForks
  BY DEF RemoteEnds, OpenCodeInv, Typed, TypeOK
<1>3. /\ Typed' /\ ClientInv' /\ HandleInv' /\ CancelInv' /\ HeldInv'
  BY <1>1, <1>2 DEF OpenCodeInv, Typed, TypeOK, ClientInv, HandleInv, CancelInv, CancelFits, HeldInv, tables, inter
<1>4. ActiveInv' /\ PendingInv'
  BY <1>1 DEF OpenCodeInv, ActiveInv, PendingInv, Underway, Terminal, SessionOf, RunOf, KeyOf, tables, inter
<1>5. RunInv'
  BY <1>1, <1>2 DEF OpenCodeInv, RunInv, Working
<1>6. WorkInv'
  BY <1>1, <1>2 DEF OpenCodeInv, WorkInv, Working, Terminal, SessionOf, tables
<1>7. RunsMove
  BY <1>1, RunsRest DEF inter
<1> QED BY <1>3, <1>4, <1>5, <1>6, <1>7 DEF OpenCodeInv

LEMMA CloseSessionKeeps ==
  ASSUME OpenCodeInv, NEW h \in Handles, CloseSession(h)
  PROVE  OpenCodeInv' /\ RunsMove
<1>1. /\ handles[h].call = "made" /\ closedHandles' = closedHandles \cup {h}
      /\ UNCHANGED <<client, transport, knownSessions, forks, interactions, claimed, provider>>
  BY DEF CloseSession
<1>2. PICK s \in Sessions : s = handles[h].session
  BY <1>1, SessionFacts
<1>3. CASE activeBySession[s] # NoRun /\ AbortRun(activeBySession[s], runs)
  <2>1. PICK r \in Runs : r = activeBySession[s]
    BY <1>3 DEF OpenCodeInv, Typed, TypeOK
  <2>2. Underway(r) /\ AbortRun(r, runs)
    BY <1>3, <2>1 DEF OpenCodeInv, ActiveInv
  <2>3. Around
    BY <1>1, SessionFacts DEF Around, provider
  <2> QED BY <1>1, <2>2, <2>3, AbortsAsItIs DEF provider
<1>4. CASE UNCHANGED <<runs, SettledVars>>
  <2>1. handles' \in [Handles -> HandleRec] /\ HandleInv' /\ RunInv' /\ Same
    BY <1>1, <1>4, HandlesStay DEF SettledVars, provider
  <2>2. HeldInv'
    BY <1>1, <1>4, HeldStays DEF SettledVars
  <2>3. Typed' /\ ClientInv'
    BY <1>1, <1>4 DEF OpenCodeInv, Typed, TypeOK, ClientInv, SettledVars, provider
  <2>4. CancelInv' /\ ActiveInv' /\ WorkInv' /\ PendingInv'
    BY <1>1, <1>4 DEF OpenCodeInv, CancelInv, CancelFits, ActiveInv, WorkInv, PendingInv, Underway, Terminal, SessionOf, RunOf,
                      KeyOf, Working, SettledVars, provider
  <2>5. RunsMove
    BY <1>1, <1>4, RunsRest
  <2> QED BY <2>1, <2>2, <2>3, <2>4, <2>5 DEF OpenCodeInv
<1> QED BY <1>2, <1>3, <1>4 DEF CloseSession

LEMMA RespondKeeps ==
  ASSUME OpenCodeInv, NEW h \in Handles, NEW i, Respond(h, i)
  PROVE  OpenCodeInv' /\ RunsMove
<1>1. /\ claimed' = claimed \cup {i} /\ i \in pendingByLocalId
      /\ UNCHANGED <<client, transport, closedHandles, handles, tables, forks, runs, interactions, pendingByLocalId,
                     pendingByProviderId, provider>>
  BY DEF Respond
<1>2. claimed' \subseteq 1..Len(interactions)
  BY <1>1 DEF OpenCodeInv, Typed, TypeOK
<1>3. handles' \in [Handles -> HandleRec] /\ HandleInv' /\ RunInv' /\ Same
  BY <1>1, HandlesStay DEF provider
<1>4. HeldInv'
  BY <1>1, HeldStays DEF tables
<1> QED BY <1>1, <1>2, <1>3, <1>4, SessionFacts, SessionsKeep DEF tables, provider

-------------------------------------------------------------------------------
(* Runs start. *)
LEMMA StartRunKeeps ==
  ASSUME OpenCodeInv, NEW r \in Runs, NEW h \in Handles, StartRun(r, h)
  PROVE  OpenCodeInv' /\ RunsMove
<1>1. /\ runs[r].open = "idle" /\ handles[h].call = "made" /\ client = "open"
      /\ UNCHANGED <<client, transport, closedHandles, handles, knownSessions, quarantinedSessions, forks, inter, provider>>
  BY DEF StartRun, Usable, AssertOpen
<1>2. PICK s \in Sessions : s = handles[h].session
  BY <1>1, SessionFacts
<1>3. /\ forks[s] = "none" /\ s \notin quarantinedSessions /\ activeBySession[s] = NoRun
      /\ runs' = [runs EXCEPT ![r].open = "opening", ![r].owner = h]
      /\ activeBySession' = [activeBySession EXCEPT ![s] = r]
  BY <1>2 DEF StartRun, Reusable
<1>4. /\ runs[r] \in RunRec /\ runs \in [Runs -> RunRec] /\ activeBySession \in [Sessions -> Runs \cup {NoRun}]
      /\ runs[r].result = "none" /\ runs[r].prompt = "none" /\ runs[r].owner = NoHandle /\ ~Working(r)
  BY <1>1, RunFacts DEF OpenCodeInv, RunInv, Typed, TypeOK, RunRec, CancelStates, Working
<1>5. PICK run : run = [runs[r] EXCEPT !.open = "opening", !.owner = h]
  OBVIOUS
<1>6. /\ run \in RunRec /\ run.open = "opening" /\ run.owner = h /\ run.result = "none" /\ run.prompt = "none"
      /\ run.cancel = runs[r].cancel /\ run.timedOut = runs[r].timedOut /\ run.resolved = runs[r].resolved
  BY <1>4, <1>5 DEF RunRec
<1>7. runs' = [runs EXCEPT ![r] = run]
  BY <1>3, <1>4, <1>5
<1>8. /\ runs' \in [Runs -> RunRec] /\ runs'[r] = run /\ \A q \in Runs : q # r => runs'[q] = runs[q]
      /\ activeBySession' \in [Sessions -> Runs \cup {NoRun}] /\ activeBySession'[s] = r
      /\ \A t \in Sessions : t # s => activeBySession'[t] = activeBySession[t]
  BY <1>3, <1>4, <1>6, <1>7
<1>9. Typed'
  BY <1>1, <1>8 DEF OpenCodeInv, Typed, TypeOK, RunRec, CancelStates, inter, provider
<1>10. ClientInv' /\ HandleInv'
  BY <1>1 DEF OpenCodeInv, ClientInv, HandleInv, provider
<1>11. RunInv'
  <2> SUFFICES ASSUME NEW q \in Runs
               PROVE  /\ runs'[q].open = "idle" <=> runs'[q].owner = NoHandle
                      /\ runs'[q].owner # NoHandle => handles'[runs'[q].owner].call = "made"
                      /\ runs'[q].open = "idle" => runs'[q].result = "none"
                      /\ runs'[q].open = "opened" <=> runs'[q].prompt # "none"
                      /\ runs'[q].result # "none" => runs'[q].prompt \in {"none", "over"}
                      /\ runs'[q].result = "none" => runs'[q].prompt # "over"
                      /\ runs'[q].prompt # "connection_aborted"
                      /\ runs'[q].prompt = "none" => remote'[q] = "none" /\ runs'[q].resolved = {} /\ runs'[q].cancel = "none"
                      /\ Working(q)' => runs'[q].prompt \in {"waiting", "over"}
                      /\ runs'[q].prompt = "waiting" => Working(q)'
                      /\ runs'[q].timedOut => runs'[q].cancel # "none"
    BY DEF RunInv, Working
  <2>1. CASE q # r
    BY <1>1, <1>8, <2>1 DEF OpenCodeInv, RunInv, Working, provider
  <2>2. CASE q = r
    BY <1>1, <1>4, <1>6, <1>8, <2>2, NullAssumption DEF OpenCodeInv, RunInv, Working, provider
  <2> QED BY <2>1, <2>2
<1>12. CancelInv'
  BY <1>6, <1>8, <1>4, RunFacts DEF CancelInv, CancelFits
<1>13. \A q \in Runs : q # r => SessionOf(q)' = SessionOf(q) /\ (Underway(q)' <=> Underway(q))
  BY <1>1, <1>8 DEF SessionOf, Underway, Terminal
<1>14. SessionOf(r)' = s /\ Underway(r)' /\ ~Underway(r)
  BY <1>1, <1>2, <1>6, <1>8 DEF SessionOf, Underway, Terminal
<1>15. ActiveInv'
  <2>1. ASSUME NEW q \in Runs, Underway(q)' PROVE activeBySession'[SessionOf(q)'] = q /\ client' = "open"
    BY <1>1, <1>8, <1>14, <1>13, <2>1, RunFacts, <1>3, NullAssumption
  <2>2. ASSUME NEW t \in Sessions, activeBySession'[t] # NoRun
        PROVE  \E q \in Runs : q = activeBySession'[t] /\ Underway(q)' /\ SessionOf(q)' = t
    <3>1. CASE t = s
      BY <1>8, <1>14, <3>1
    <3>2. CASE t # s
      <4>1. PICK q \in Runs : q = activeBySession[t] /\ Underway(q) /\ SessionOf(q) = t
        BY <1>4, <1>8, <2>2, <3>2 DEF OpenCodeInv, ActiveInv
      <4> QED BY <1>8, <1>13, <1>14, <3>2, <4>1
    <3> QED BY <3>1, <3>2
  <2> QED BY <2>1, <2>2 DEF ActiveInv, Underway, Terminal, SessionOf
<1>16. HeldInv'
  BY <1>1, <1>3, <1>8 DEF OpenCodeInv, HeldInv, Typed, TypeOK
<1>17. \A q \in Runs : Working(q)' <=> Working(q)
  BY <1>1 DEF Working, provider
<1>18. WorkInv'
  BY <1>4, <1>8, <1>13, <1>1, <1>17 DEF Terminal, OpenCodeInv, WorkInv, provider
<1>19. \A i \in 1..Len(interactions) : RunOf(i) # r /\ RunOf(i)' = RunOf(i) /\ KeyOf(i)' = KeyOf(i) /\ RunOf(i) \in Runs
  <2> SUFFICES ASSUME NEW i \in 1..Len(interactions)
               PROVE  RunOf(i) # r /\ RunOf(i)' = RunOf(i) /\ KeyOf(i)' = KeyOf(i) /\ RunOf(i) \in Runs
    OBVIOUS
  <2>1. RunOf(i) \in Runs /\ RunOf(i) # r /\ RunOf(i)' = RunOf(i)
    BY <1>1, PermissionFacts DEF RunOf, inter
  <2>2. SessionOf(RunOf(i))' = SessionOf(RunOf(i))
    <3>1. PICK q \in Runs : q = RunOf(i)
      BY <2>1
    <3>2. SessionOf(q)' = SessionOf(q)
      BY <1>13, <2>1, <3>1
    <3> QED BY <2>1, <3>1, <3>2 DEF SessionOf
  <2> QED BY <1>1, <2>1, <2>2 DEF KeyOf, inter
<1>20. PendingInv'
  <2>1. pendingByLocalId \subseteq 1..Len(interactions)
    BY DEF OpenCodeInv, Typed, TypeOK
  <2>2. \A i \in 1..Len(interactions) : runs'[RunOf(i)'] = runs[RunOf(i)]
    BY <1>8, <1>19
  <2>3. \A q \in Runs : runs'[q].resolved = runs[q].resolved
    BY <1>6, <1>8
  <2> QED BY <1>1, <1>19, <2>1, <2>2, <2>3 DEF OpenCodeInv, PendingInv, Terminal, inter
<1>21. RunsMove
  <2> SUFFICES ASSUME NEW q \in Runs PROVE Moved(q)
    BY DEF RunsMove
  <2>1. StatusOfRun(q)' = StatusOfRun(q)
    BY <1>1, <1>6, <1>8 DEF StatusOfRun, Terminal
  <2>2. Requested(q)' = Requested(q) /\ runs'[q].resolved = runs[q].resolved
    BY <1>1, <1>6, <1>8 DEF Requested, inter
  <2> QED BY <2>1, <2>2 DEF Moved
<1> QED BY <1>9, <1>10, <1>11, <1>12, <1>15, <1>16, <1>18, <1>20, <1>21 DEF OpenCodeInv

(* A step that leaves a Run what and whose it was, and the permissions alone. *)
Stays(r) ==
  /\ runs'[r].open = runs[r].open /\ runs'[r].owner = runs[r].owner
  /\ runs'[r].result = runs[r].result /\ runs'[r].resolved = runs[r].resolved

Alone == UNCHANGED <<client, transport, handles, tables, forks, interactions, pendingByLocalId, pendingByProviderId, created,
                     remoteForks>>

LEMMA StayingKeeps ==
  ASSUME OpenCodeInv, Alone, closedHandles' \subseteq Handles, claimed' \subseteq claimed,
         runs' \in [Runs -> RunRec], \A r \in Runs : Stays(r), RunInv', CancelInv',
         remote' \in [Runs -> {"none", "running", "aborting", "done"}], \A r \in Runs : Working(r)' => Working(r)
  PROVE  OpenCodeInv' /\ RunsMove
<1>1. Typed'
  BY DEF OpenCodeInv, Typed, TypeOK, RunRec, CancelStates, Alone, tables
<1>2. ClientInv' /\ HandleInv' /\ HeldInv'
  BY DEF OpenCodeInv, ClientInv, HandleInv, HeldInv, Alone, tables
<1>3. \A r \in Runs : /\ SessionOf(r)' = SessionOf(r)
                      /\ Terminal(r)' <=> Terminal(r)
                      /\ Underway(r)' <=> Underway(r)
  BY DEF Stays, SessionOf, Terminal, Underway, Alone
<1>4. ActiveInv'
  <2>1. ASSUME NEW s \in Sessions, activeBySession[s] # NoRun
        PROVE  \E r \in Runs : r = activeBySession[s] /\ Underway(r)' /\ SessionOf(r)' = s
    BY <1>3, <2>1 DEF OpenCodeInv, ActiveInv, Typed, TypeOK
  <2>2. ASSUME NEW r \in Runs, Underway(r)' PROVE activeBySession[SessionOf(r)'] = r /\ client = "open"
    BY <1>3, <2>2 DEF OpenCodeInv, ActiveInv
  <2>3. UNCHANGED <<activeBySession, client>>
    BY DEF Alone, tables
  <2> QED BY <2>1, <2>2, <2>3 DEF ActiveInv, Underway, Terminal, SessionOf
<1>5. WorkInv'
  BY <1>3 DEF Alone, tables, OpenCodeInv, WorkInv
<1>6. \A i \in 1..Len(interactions) : /\ RunOf(i)' = RunOf(i) /\ KeyOf(i)' = KeyOf(i)
                                      /\ Stays(RunOf(i)) /\ (Terminal(RunOf(i))' <=> Terminal(RunOf(i)))
  <2> SUFFICES ASSUME NEW i \in 1..Len(interactions)
               PROVE  /\ RunOf(i)' = RunOf(i) /\ KeyOf(i)' = KeyOf(i)
                      /\ Stays(RunOf(i)) /\ (Terminal(RunOf(i))' <=> Terminal(RunOf(i)))
    OBVIOUS
  <2>1. RunOf(i)' = RunOf(i)
    BY DEF RunOf, Alone
  <2>2. PICK q \in Runs : q = RunOf(i)
    BY PermissionFacts
  <2>3. SessionOf(q)' = SessionOf(q) /\ Stays(q) /\ (Terminal(q)' <=> Terminal(q))
    BY <1>3
  <2>4. Stays(RunOf(i))
    BY <2>2, <2>3
  <2>5. SessionOf(RunOf(i))' = SessionOf(RunOf(i)) /\ (Terminal(RunOf(i))' <=> Terminal(RunOf(i)))
    BY <2>1, <2>2, <2>3 DEF SessionOf, Terminal
  <2> QED BY <2>1, <2>4, <2>5 DEF KeyOf, Alone
<1>7. PendingInv'
  <2>1. pendingByLocalId \subseteq 1..Len(interactions)
    BY DEF OpenCodeInv, Typed, TypeOK
  <2>2. \A i \in 1..Len(interactions) :
          /\ runs'[RunOf(i)'].open = runs[RunOf(i)].open /\ runs'[RunOf(i)'].result = runs[RunOf(i)].result
          /\ runs'[RunOf(i)'].resolved = runs[RunOf(i)].resolved
    BY <1>6 DEF Stays
  <2>3. \A q \in Runs : runs'[q].resolved = runs[q].resolved
    BY DEF Stays
  <2>4. UNCHANGED <<interactions, pendingByLocalId, pendingByProviderId>>
    BY DEF Alone
  <2> QED BY <1>6, <2>1, <2>2, <2>3, <2>4 DEF OpenCodeInv, PendingInv, Terminal
<1>8. RunsMove
  <2> SUFFICES ASSUME NEW q \in Runs PROVE Moved(q)
    BY DEF RunsMove
  <2>1. StatusOfRun(q)' = StatusOfRun(q) /\ Requested(q)' = Requested(q) /\ runs'[q].resolved = runs[q].resolved
    BY DEF StatusOfRun, Terminal, Requested, Stays, Alone
  <2> QED BY <2>1 DEF Moved
<1> QED BY <1>1, <1>2, <1>4, <1>5, <1>7, <1>8 DEF OpenCodeInv

(* What a Run has of permissions and cancellations while its stream opens, and after it. *)
OpeningStep(r, run) ==
  /\ runs[r].open = "opening" /\ runs' = [runs EXCEPT ![r] = run] /\ run \in RunRec
  /\ run.owner = runs[r].owner /\ run.result = runs[r].result /\ run.cancel = runs[r].cancel
  /\ run.timedOut = runs[r].timedOut /\ run.resolved = runs[r].resolved /\ run.open \in {"opened", "refused"}
  /\ UNCHANGED <<client, transport, closedHandles, handles, knownSessions, quarantinedSessions, forks, inter, created, remoteForks>>

LEMMA OpeningKeeps ==
  ASSUME OpenCodeInv, NEW r \in Runs, NEW run, OpeningStep(r, run)
  PROVE  /\ runs' \in [Runs -> RunRec] /\ runs'[r] = run /\ \A q \in Runs : q # r => runs'[q] = runs[q]
         /\ ClientInv' /\ HandleInv' /\ CancelInv' /\ PendingInv'
         /\ \A q \in Runs : /\ SessionOf(q)' = SessionOf(q)
                            /\ Terminal(q)' <=> Terminal(q)
                            /\ Requested(q)' = Requested(q) /\ runs'[q].resolved = runs[q].resolved
         /\ runs[r].prompt = "none" /\ ~Working(r)
         /\ runs'[r].resolved = {} /\ runs'[r].cancel = "none" /\ ~runs'[r].timedOut
<1> USE DEF OpeningStep
<1>1. runs \in [Runs -> RunRec] /\ runs[r] \in RunRec
  BY RunFacts DEF OpenCodeInv, Typed, TypeOK, RunRec, CancelStates
<1>2. runs' \in [Runs -> RunRec] /\ runs'[r] = run /\ \A q \in Runs : q # r => runs'[q] = runs[q]
  BY <1>1
<1>3. /\ runs[r].prompt = "none" /\ remote[r] = "none" /\ runs[r].resolved = {} /\ runs[r].cancel = "none"
      /\ ~runs[r].timedOut
  BY <1>1 DEF OpenCodeInv, RunInv, RunRec
<1>4. ClientInv' /\ HandleInv'
  BY DEF OpenCodeInv, ClientInv, HandleInv
<1>5. CancelInv'
  BY <1>2 DEF OpenCodeInv, CancelInv, CancelFits
<1>6. ASSUME NEW q \in Runs
      PROVE  /\ SessionOf(q)' = SessionOf(q)
             /\ Terminal(q)' <=> Terminal(q)
             /\ Requested(q)' = Requested(q) /\ runs'[q].resolved = runs[q].resolved
             /\ runs'[q].result = runs[q].result
  BY <1>2 DEF SessionOf, Terminal, Requested, inter
<1>7. \A i \in 1..Len(interactions) : /\ RunOf(i) # r /\ RunOf(i) \in Runs /\ RunOf(i)' = RunOf(i) /\ KeyOf(i)' = KeyOf(i)
                                      /\ runs'[RunOf(i)'] = runs[RunOf(i)]
  <2> SUFFICES ASSUME NEW i \in 1..Len(interactions)
               PROVE  /\ RunOf(i) # r /\ RunOf(i) \in Runs /\ RunOf(i)' = RunOf(i) /\ KeyOf(i)' = KeyOf(i)
                      /\ runs'[RunOf(i)'] = runs[RunOf(i)]
    OBVIOUS
  <2>1. RunOf(i) \in Runs /\ RunOf(i) # r /\ RunOf(i)' = RunOf(i)
    BY PermissionFacts DEF RunOf, inter
  <2>2. runs'[RunOf(i)'] = runs[RunOf(i)]
    BY <1>2, <2>1
  <2>3. SessionOf(RunOf(i))' = SessionOf(RunOf(i))
    BY <2>1, <2>2 DEF SessionOf
  <2> QED BY <2>1, <2>2, <2>3 DEF KeyOf, inter
<1>8. PendingInv'
  BY <1>6, <1>7 DEF OpenCodeInv, Typed, TypeOK, inter, PendingInv, Terminal
<1>9. ~Working(r) /\ runs'[r].resolved = {} /\ runs'[r].cancel = "none" /\ ~runs'[r].timedOut
  BY <1>2, <1>3 DEF Working
<1> QED BY <1>2, <1>3, <1>4, <1>5, <1>6, <1>8, <1>9

LEMMA OpenedKeeps ==
  ASSUME OpenCodeInv, NEW r \in Runs, Opened(r)
  PROVE  OpenCodeInv' /\ RunsMove
<1>1. /\ runs[r].open = "opening" /\ ~Terminal(r)
      /\ remote' = [remote EXCEPT ![r] = "running"]
      /\ UNCHANGED <<client, transport, closedHandles, handles, tables, forks, inter, created, remoteForks>>
  BY DEF Opened
<1>2. runs[r] \in RunRec /\ runs \in [Runs -> RunRec] /\ remote \in [Runs -> {"none", "running", "aborting", "done"}]
  BY RunFacts DEF OpenCodeInv, Typed, TypeOK, RunRec, CancelStates
<1>3. PICK run : run = [runs[r] EXCEPT !.open = "opened", !.pump = TRUE, !.prompt = "waiting"]
  OBVIOUS
<1>4. /\ run \in RunRec /\ run.open = "opened" /\ run.prompt = "waiting" /\ run.owner = runs[r].owner
      /\ run.result = runs[r].result /\ run.cancel = runs[r].cancel
      /\ run.timedOut = runs[r].timedOut /\ run.resolved = runs[r].resolved
  BY <1>2, <1>3 DEF RunRec
<1>5. runs' = [runs EXCEPT ![r] = run]
  BY <1>2, <1>3 DEF Opened
<1>6. OpeningStep(r, run)
  BY <1>1, <1>4, <1>5 DEF OpeningStep, tables
<1>7. /\ runs' \in [Runs -> RunRec] /\ runs'[r] = run /\ \A q \in Runs : q # r => runs'[q] = runs[q]
      /\ ClientInv' /\ HandleInv' /\ CancelInv' /\ PendingInv'
      /\ \A q \in Runs : /\ SessionOf(q)' = SessionOf(q)
                         /\ Terminal(q)' <=> Terminal(q)
                         /\ Requested(q)' = Requested(q) /\ runs'[q].resolved = runs[q].resolved
      /\ runs[r].prompt = "none" /\ ~Working(r)
      /\ runs'[r].resolved = {} /\ runs'[r].cancel = "none" /\ ~runs'[r].timedOut
  BY <1>6, OpeningKeeps
<1>8. /\ remote' \in [Runs -> {"none", "running", "aborting", "done"}] /\ Working(r)'
      /\ \A q \in Runs : q # r => (Working(q)' <=> Working(q)) /\ remote'[q] = remote[q]
  BY <1>1, <1>2 DEF Working
<1>9. Typed'
  BY <1>1, <1>7, <1>8 DEF OpenCodeInv, Typed, TypeOK, RunRec, CancelStates, tables, inter
<1>10. RunInv'
  BY <1>1, <1>7, <1>8, <1>4 DEF Terminal, OpenCodeInv, RunInv, Working
<1>11. \A q \in Runs : Underway(q)' <=> Underway(q)
  BY <1>7, <1>1, <1>4 DEF Underway
<1>12. ActiveInv'
  <2>1. \A q \in Runs : SessionOf(q)' = SessionOf(q)
    BY <1>7
  <2>2. UNCHANGED <<client, activeBySession>>
    BY <1>1 DEF tables
  <2>3. ASSUME NEW s \in Sessions, activeBySession[s] # NoRun
        PROVE  \E q \in Runs : q = activeBySession[s] /\ Underway(q)' /\ SessionOf(q)' = s
    BY <1>11, <2>1, <2>3 DEF OpenCodeInv, ActiveInv, Typed, TypeOK
  <2>4. ASSUME NEW q \in Runs, Underway(q)' PROVE activeBySession[SessionOf(q)'] = q /\ client = "open"
    BY <1>11, <2>1, <2>4 DEF OpenCodeInv, ActiveInv
  <2> QED BY <2>2, <2>3, <2>4 DEF ActiveInv, Underway, Terminal, SessionOf
<1>13. HeldInv'
  BY <1>1, HeldStays DEF tables
<1>14. /\ SessionOf(r) \in Sessions /\ SessionOf(r) \notin quarantinedSessions /\ forks[SessionOf(r)] = "none"
       /\ activeBySession[SessionOf(r)] = r
  BY <1>1, RunFacts, NullAssumption DEF Underway, OpenCodeInv, HeldInv
<1>15. \A q \in Runs : Working(q) => SessionOf(q) # SessionOf(r)
  <2> SUFFICES ASSUME NEW q \in Runs, Working(q), SessionOf(q) = SessionOf(r) PROVE FALSE
    OBVIOUS
  <2>1. CASE Terminal(q)
    BY <1>14, <2>1 DEF OpenCodeInv, WorkInv
  <2>2. CASE ~Terminal(q)
    BY <2>2, <1>14, RunFacts, <1>7 DEF OpenCodeInv, RunInv, Underway
  <2> QED BY <2>1, <2>2
<1>16. WorkInv'
  BY <1>14, <1>1, <1>7, <1>8, <1>15 DEF OpenCodeInv, WorkInv, tables
<1>17. RunsMove
  <2> SUFFICES ASSUME NEW q \in Runs PROVE Moved(q)
    BY DEF RunsMove
  <2>1. Requested(q)' = Requested(q) /\ runs'[q].resolved = runs[q].resolved /\ (Terminal(q)' <=> Terminal(q))
    BY <1>7
  <2>2. CASE q = r
    BY <1>1, <1>4, <1>7, <2>1, <2>2 DEF StatusOfRun, Terminal, Moved
  <2>3. CASE q # r
    BY <1>7, <2>3, <2>1 DEF StatusOfRun, Terminal, Moved
  <2> QED BY <2>2, <2>3
<1> QED BY <1>7, <1>9, <1>10, <1>12, <1>13, <1>16, <1>17 DEF OpenCodeInv

LEMMA OpenFailsKeeps ==
  ASSUME OpenCodeInv, NEW r \in Runs, OpenFails(r)
  PROVE  OpenCodeInv' /\ RunsMove
<1>1. /\ runs[r].open = "opening"
      /\ activeBySession' = [s \in Sessions |-> IF activeBySession[s] = r THEN NoRun ELSE activeBySession[s]]
      /\ UNCHANGED <<client, transport, closedHandles, handles, knownSessions, quarantinedSessions, forks, inter, provider>>
  BY DEF OpenFails
<1>2. runs[r] \in RunRec /\ runs \in [Runs -> RunRec]
  BY RunFacts DEF OpenCodeInv, Typed, TypeOK, RunRec, CancelStates
<1>3. PICK run : run = [runs[r] EXCEPT !.open = "refused"]
  OBVIOUS
<1>4. /\ run \in RunRec /\ run.open = "refused" /\ run.prompt = runs[r].prompt /\ run.owner = runs[r].owner
      /\ run.result = runs[r].result /\ run.cancel = runs[r].cancel
      /\ run.timedOut = runs[r].timedOut /\ run.resolved = runs[r].resolved
  BY <1>2, <1>3 DEF RunRec
<1>5. runs' = [runs EXCEPT ![r] = run]
  BY <1>2, <1>3 DEF OpenFails
<1>6. OpeningStep(r, run)
  BY <1>1, <1>4, <1>5 DEF OpeningStep, provider
<1>7. /\ runs' \in [Runs -> RunRec] /\ runs'[r] = run /\ \A q \in Runs : q # r => runs'[q] = runs[q]
      /\ ClientInv' /\ HandleInv' /\ CancelInv' /\ PendingInv'
      /\ \A q \in Runs : /\ SessionOf(q)' = SessionOf(q)
                         /\ Terminal(q)' <=> Terminal(q)
                         /\ Requested(q)' = Requested(q) /\ runs'[q].resolved = runs[q].resolved
  BY <1>6, OpeningKeeps
<1>8. /\ activeBySession' \in [Sessions -> Runs \cup {NoRun}]
      /\ \A s \in Sessions : activeBySession'[s] = IF activeBySession[s] = r THEN NoRun ELSE activeBySession[s]
  BY <1>1 DEF OpenCodeInv, Typed, TypeOK
<1>9. Typed'
  BY <1>1, <1>7, <1>8 DEF OpenCodeInv, Typed, TypeOK, RunRec, CancelStates, inter, provider
<1>10. RunInv'
  BY <1>1, <1>4, <1>7 DEF provider, OpenCodeInv, RunInv, Working
<1>11. ~Underway(r)' /\ \A q \in Runs : q # r => (Underway(q)' <=> Underway(q))
  BY <1>4, <1>7 DEF Underway, Terminal
<1>12. ActiveInv'
  <2>1. \A q \in Runs : SessionOf(q)' = SessionOf(q)
    BY <1>7
  <2>2. ASSUME NEW q \in Runs, Underway(q)' PROVE activeBySession'[SessionOf(q)'] = q /\ client' = "open"
    BY <1>11, <2>1, <2>2, RunFacts, <1>1, <1>8 DEF OpenCodeInv, ActiveInv
  <2>3. ASSUME NEW s \in Sessions, activeBySession'[s] # NoRun
        PROVE  \E q \in Runs : q = activeBySession'[s] /\ Underway(q)' /\ SessionOf(q)' = s
    <3>1. activeBySession'[s] = activeBySession[s] /\ activeBySession[s] # r /\ activeBySession[s] # NoRun
      BY <1>8, <2>3
    <3>2. PICK q \in Runs : q = activeBySession[s]
      BY <3>1 DEF OpenCodeInv, Typed, TypeOK
    <3> QED BY <1>11, <2>1, <3>1, <3>2 DEF OpenCodeInv, ActiveInv
  <2> QED BY <2>2, <2>3 DEF ActiveInv, Underway, Terminal, SessionOf
<1>13. HeldInv'
  BY <1>1, <1>8, SessionFacts DEF OpenCodeInv, HeldInv
<1>14. WorkInv'
  BY <1>7, <1>1 DEF Working, provider, OpenCodeInv, WorkInv
<1>15. RunsMove
  <2> SUFFICES ASSUME NEW q \in Runs PROVE Moved(q)
    BY DEF RunsMove
  <2>1. Requested(q)' = Requested(q) /\ runs'[q].resolved = runs[q].resolved /\ (Terminal(q)' <=> Terminal(q))
    BY <1>7
  <2>2. StatusOfRun(q)' = StatusOfRun(q)
    BY <1>1, <1>4, <1>7 DEF StatusOfRun, Terminal
  <2> QED BY <2>1, <2>2 DEF Moved
<1> QED BY <1>7, <1>9, <1>10, <1>12, <1>13, <1>14, <1>15 DEF OpenCodeInv

-------------------------------------------------------------------------------
(* Prompts, streams. *)
LEMMA AliveIsUnderway ==
  ASSUME OpenCodeInv, NEW r \in Runs, runs[r].prompt # "none", ~Terminal(r)
  PROVE  Underway(r)
BY DEF OpenCodeInv, RunInv, Underway

LEMMA PromptSettlesKeeps ==
  ASSUME OpenCodeInv, NEW r \in Runs, NEW outcome \in Outcomes, NEW answer \in PromptAnswers, PromptSettles(r, outcome, answer)
  PROVE  OpenCodeInv' /\ RunsMove
<1>1. /\ runs[r].prompt = "waiting"
      /\ remote' = IF outcome \in Answers \cup {"capacity"} THEN [remote EXCEPT ![r] = "done"] ELSE remote
      /\ UNCHANGED <<client, transport, closedHandles, knownSessions, forks, interactions, claimed, created, remoteForks>>
  BY DEF PromptSettles
<1>2. /\ runs[r] \in RunRec /\ runs \in [Runs -> RunRec] /\ remote \in [Runs -> {"none", "running", "aborting", "done"}]
      /\ runs[r].result = "none"
  BY <1>1, RunFacts DEF OpenCodeInv, Typed, TypeOK, RunRec, CancelStates, RunInv
<1>3. Underway(r)
  BY <1>1, <1>2, AliveIsUnderway DEF Terminal
<1>4. /\ remote' \in [Runs -> {"none", "running", "aborting", "done"}]
      /\ \A q \in Runs : q # r => remote'[q] = remote[q]
      /\ outcome \in Answers \cup {"capacity"} => remote'[r] = "done"
      /\ remote'[r] = remote[r] \/ remote'[r] = "done"
  BY <1>1, <1>2
<1>5. Around
  BY <1>1, SessionFacts DEF Around
<1>6. CASE outcome = "ok"
  <2>1. runs' = [runs EXCEPT ![r].prompt = StatusOf(answer)] /\ UNCHANGED SettledVars
    BY <1>6 DEF PromptSettles
  <2>2. PICK status \in Statuses : status = StatusOf(answer)
    <3>1. CASE answer = "MessageAbortedError"
      BY <3>1 DEF StatusOf, Statuses, Terminals
    <3>2. CASE answer \in {"error", "finish error"}
      BY <3>2 DEF StatusOf, Statuses, Terminals
    <3>3. CASE ~(answer = "MessageAbortedError") /\ ~(answer \in {"error", "finish error"})
      BY <3>3 DEF StatusOf, Statuses, Terminals
    <3> QED BY <3>1, <3>2, <3>3
  <2>3. PICK run : run = [runs[r] EXCEPT !.prompt = status]
    OBVIOUS
  <2>4. /\ run \in RunRec /\ run.prompt = status /\ run.open = runs[r].open /\ run.owner = runs[r].owner
        /\ run.result = runs[r].result /\ run.cancel = runs[r].cancel
        /\ run.timedOut = runs[r].timedOut /\ run.resolved = runs[r].resolved
    BY <1>2, <2>3 DEF RunRec, Statuses
  <2>5. runs' = [runs EXCEPT ![r] = run]
    BY <1>2, <2>1, <2>2, <2>3
  <2>6. runs' \in [Runs -> RunRec] /\ runs'[r] = run /\ \A q \in Runs : q # r => runs'[q] = runs[q]
    BY <1>2, <2>4, <2>5
  <2>7. \A q \in Runs : Stays(q)
    BY <2>4, <2>6 DEF Stays
  <2>8. remote'[r] = "done"
    BY <1>4, <1>6 DEF Answers
  <2>9. status # "none" /\ status # "over" /\ status # "waiting" /\ status # "connection_aborted"
    BY DEF Statuses, Terminals
  <2>10. RunInv'
    <3>1. ASSUME NEW q \in Runs, q # r
          PROVE  runs'[q] = runs[q] /\ remote'[q] = remote[q] /\ handles' = handles
      BY <1>4, <2>1, <2>6, <3>1 DEF SettledVars
    <3>2. /\ runs'[r].owner = runs[r].owner /\ runs'[r].result = "none" /\ runs'[r].prompt = status
          /\ runs'[r].open = runs[r].open /\ runs'[r].cancel = runs[r].cancel /\ runs'[r].timedOut = runs[r].timedOut
          /\ handles' = handles
      BY <1>2, <2>1, <2>4, <2>6 DEF SettledVars
    <3> QED BY <1>1, <2>8, <2>9, <3>1, <3>2 DEF OpenCodeInv, RunInv, Working
  <2>11. CancelInv'
    BY <2>4, <2>6 DEF OpenCodeInv, CancelInv, CancelFits
  <2>12. \A q \in Runs : Working(q)' => Working(q)
    BY <1>4, <2>8 DEF Working
  <2>13. Alone /\ closedHandles' \subseteq Handles /\ claimed' \subseteq claimed
    BY <1>1, <2>1, SessionFacts DEF Alone, SettledVars, tables
  <2> QED BY <1>4, <2>6, <2>7, <2>10, <2>11, <2>12, <2>13, StayingKeeps
<1>7. CASE outcome = "closed"
  BY <1>1, <1>7, <1>3, <1>5, AbortsAsItIs DEF PromptSettles, Answers
<1>8. CASE outcome \notin {"ok", "closed"}
  <2>1. Settle(r, runs, "failed", Uncertain(outcome))
    BY <1>8 DEF PromptSettles
  <2>2. outcome \in Answers \cup {"capacity"} \/ Uncertain(outcome)
    BY <1>8 DEF Outcomes, Uncertain, Answers, Unanswered
  <2>3. Uncertain(outcome) \in BOOLEAN /\ "failed" \in Terminals
    BY DEF Uncertain, Terminals
  <2>4. LeavesOff({r}, Uncertain(outcome))
    BY <1>1, <1>4, <2>2 DEF LeavesOff
  <2> QED BY <1>1, <1>3, <1>5, <2>1, <2>3, <2>4, SettlesAsItIs
<1> QED BY <1>6, <1>7, <1>8

LEMMA RunEndsKeeps ==
  ASSUME OpenCodeInv, NEW r \in Runs, NEW room \in Room, RunEnds(r, room)
  PROVE  OpenCodeInv' /\ RunsMove
<1>1. /\ runs[r].prompt \in Terminals
      /\ UNCHANGED <<client, transport, closedHandles, knownSessions, forks, interactions, claimed, provider>>
  BY DEF RunEnds
<1>2. runs[r].prompt # "none" /\ ~Terminal(r) /\ runs[r].prompt \notin {"waiting", "over"}
  BY <1>1 DEF OpenCodeInv, RunInv, Terminal, Terminals
<1>3. Underway(r)
  BY <1>2, AliveIsUnderway
<1>4. Around
  BY <1>1, SessionFacts DEF Around, provider
<1>5. CASE room
  <2>1. Settle(r, runs, runs[r].prompt, FALSE)
    BY <1>5 DEF RunEnds
  <2>2. remote'[r] \notin {"running", "aborting"}
    BY <1>1, <1>2 DEF OpenCodeInv, RunInv, Working, provider
  <2>3. LeavesOff({r}, FALSE)
    BY <1>1, <2>2 DEF LeavesOff, provider, OpenCodeInv, Typed, TypeOK
  <2> QED BY <1>1, <1>3, <1>4, <2>1, <2>3, SettlesAsItIs
<1>6. CASE ~room
  BY <1>6, <1>1, <1>3, <1>4, AbortsAsItIs DEF RunEnds, provider
<1> QED BY <1>5, <1>6

LEMMA StreamingIsUnderway ==
  ASSUME OpenCodeInv, NEW r \in Runs, Streaming(r)
  PROVE  Underway(r) /\ runs[r].prompt # "none"
BY DEF OpenCodeInv, RunInv, Streaming, Underway

(* The pump of a Run is over, and the Run otherwise what it was. *)
LEMMA PumpOverFacts ==
  ASSUME OpenCodeInv, NEW r \in Runs
  PROVE  /\ PumpOver(r) \in [Runs -> RunRec] /\ \A q \in Runs : q # r => PumpOver(r)[q] = runs[q]
         /\ \A q \in Runs :
              /\ PumpOver(r)[q].open = runs[q].open /\ PumpOver(r)[q].owner = runs[q].owner
              /\ PumpOver(r)[q].result = runs[q].result /\ PumpOver(r)[q].prompt = runs[q].prompt
              /\ PumpOver(r)[q].cancel = runs[q].cancel /\ PumpOver(r)[q].timedOut = runs[q].timedOut
              /\ PumpOver(r)[q].resolved = runs[q].resolved
<1>1. runs \in [Runs -> RunRec]
  BY DEF OpenCodeInv, Typed, TypeOK, RunRec, CancelStates
<1>2. PICK run : run = [runs[r] EXCEPT !.pump = FALSE]
  OBVIOUS
<1>3. /\ run \in RunRec /\ run.open = runs[r].open /\ run.owner = runs[r].owner /\ run.result = runs[r].result
      /\ run.prompt = runs[r].prompt /\ run.cancel = runs[r].cancel /\ run.timedOut = runs[r].timedOut
      /\ run.resolved = runs[r].resolved
  BY <1>1, <1>2 DEF RunRec
<1>4. PICK now : now = [runs EXCEPT ![r] = run]
  OBVIOUS
<1>5. now = PumpOver(r)
  BY <1>2, <1>4 DEF PumpOver
<1>6. now \in [Runs -> RunRec] /\ now[r] = run /\ \A q \in Runs : q # r => now[q] = runs[q]
  BY <1>1, <1>3, <1>4
<1> QED BY <1>3, <1>5, <1>6

LEMMA PumpOverReadied ==
  ASSUME OpenCodeInv, NEW r \in Runs, UNCHANGED interactions
  PROVE  /\ Readied(r, PumpOver(r)[r]) /\ PumpOver(r) \in [Runs -> RunRec]
         /\ \A q \in Runs : q # r => PumpOver(r)[q] = runs[q]
<1>1. PICK run : run = PumpOver(r)[r]
  OBVIOUS
<1>2. /\ run.open = runs[r].open /\ run.owner = runs[r].owner /\ run.result = runs[r].result
      /\ run.prompt = runs[r].prompt /\ run.cancel = runs[r].cancel /\ run.timedOut = runs[r].timedOut
      /\ run.resolved = runs[r].resolved
  BY <1>1, PumpOverFacts
<1>3. Readied(r, runs[r])
  BY AsItWas
<1>4. Readied(r, run)
  BY <1>2, <1>3 DEF Readied
<1> QED BY <1>1, <1>4, PumpOverFacts

(* The pump ends its Run. *)
LEMMA PumpSettles ==
  ASSUME OpenCodeInv, NEW r \in Runs, Underway(r), NEW result \in Terminals, Settle(r, PumpOver(r), result, TRUE),
         Around, UNCHANGED <<interactions, remote>>
  PROVE  OpenCodeInv' /\ RunsMove
<1>1. PICK now : now = PumpOver(r)
  OBVIOUS
<1>2. now \in [Runs -> RunRec] /\ Readied(r, now[r]) /\ \A q \in Runs : q # r => now[q] = runs[q]
  BY <1>1, PumpOverReadied
<1>3. Settle(r, now, result, TRUE) /\ Asks({r}, now) /\ LeavesOff({r}, TRUE)
  BY <1>1, NothingAsked, StillWorks
<1> QED BY <1>2, <1>3, SettleKeeps

LEMMA EventArrivesKeeps ==
  ASSUME OpenCodeInv, NEW r \in Runs, NEW e \in Events, EventArrives(r, e)
  PROVE  OpenCodeInv' /\ RunsMove
<1>1. /\ Streaming(r) /\ Settle(r, PumpOver(r), "connection_aborted", TRUE) /\ "connection_aborted" \in Terminals
      /\ UNCHANGED <<client, transport, closedHandles, knownSessions, forks, interactions, claimed, provider>>
  BY DEF EventArrives, AbortRun, Terminals
<1>2. Around
  BY <1>1, SessionFacts DEF Around, provider
<1> QED BY <1>1, <1>2, StreamingIsUnderway, PumpSettles DEF provider

LEMMA StreamEndsKeeps ==
  ASSUME OpenCodeInv, NEW r \in Runs, NEW invalid \in BOOLEAN, StreamEnds(r, invalid)
  PROVE  OpenCodeInv' /\ RunsMove
<1>1. /\ Streaming(r)
      /\ UNCHANGED <<client, transport, closedHandles, knownSessions, forks, interactions, claimed, provider>>
  BY DEF StreamEnds
<1>2. Around /\ Underway(r)
  BY <1>1, SessionFacts, StreamingIsUnderway DEF Around, provider
<1>3. PICK result \in Terminals : Settle(r, PumpOver(r), result, TRUE)
  BY DEF StreamEnds, AbortRun, Terminals
<1> QED BY <1>1, <1>2, <1>3, PumpSettles DEF provider

-------------------------------------------------------------------------------
(* cancel(): a Run knows more of it and is what it was. *)
Told(r, run) ==
  /\ run \in RunRec /\ run.open = runs[r].open /\ run.owner = runs[r].owner /\ run.result = runs[r].result
  /\ run.prompt = runs[r].prompt /\ run.resolved = runs[r].resolved /\ run.cancel # "none"

LEMMA ToldKeeps ==
  ASSUME OpenCodeInv, NEW r \in Runs, runs[r].prompt # "none", NEW run, Told(r, run), CancelFits(run),
         runs' = [runs EXCEPT ![r] = run], Alone, closedHandles' \subseteq Handles, claimed' \subseteq claimed,
         remote' \in [Runs -> {"none", "running", "aborting", "done"}],
         \A q \in Runs : /\ Working(q)' <=> Working(q)
                         /\ remote'[q] = "none" <=> remote[q] = "none"
  PROVE  OpenCodeInv' /\ RunsMove
<1>1. runs \in [Runs -> RunRec] /\ run \in RunRec
  BY DEF OpenCodeInv, Typed, TypeOK, RunRec, CancelStates, Told
<1>2. runs' \in [Runs -> RunRec] /\ runs'[r] = run /\ \A q \in Runs : q # r => runs'[q] = runs[q]
  BY <1>1
<1>3. \A q \in Runs : Stays(q) /\ runs'[q].prompt = runs[q].prompt
  BY <1>2 DEF Stays, Told
<1>4. RunInv'
  <2>1. ASSUME NEW q \in Runs
        PROVE  /\ runs'[q].open = runs[q].open /\ runs'[q].owner = runs[q].owner
               /\ runs'[q].result = runs[q].result /\ runs'[q].resolved = runs[q].resolved /\ runs'[q].prompt = runs[q].prompt
               /\ runs[q].prompt = "none" => runs'[q].cancel = runs[q].cancel
               /\ runs'[q].timedOut => runs'[q].cancel # "none"
               /\ Working(q)' <=> Working(q)
               /\ remote'[q] = "none" <=> remote[q] = "none"
               /\ handles' = handles
    BY <1>2, <1>3 DEF Told, OpenCodeInv, RunInv, Alone, Stays
  <2> HIDE DEF Working
  <2>2. ASSUME NEW q \in Runs
        PROVE  /\ runs'[q].open = "idle" <=> runs'[q].owner = NoHandle
               /\ runs'[q].owner # NoHandle => handles'[runs'[q].owner].call = "made"
               /\ runs'[q].open = "idle" => runs'[q].result = "none"
               /\ runs'[q].open = "opened" <=> runs'[q].prompt # "none"
               /\ runs'[q].result # "none" => runs'[q].prompt \in {"none", "over"}
               /\ runs'[q].result = "none" => runs'[q].prompt # "over"
               /\ runs'[q].prompt # "connection_aborted"
               /\ runs'[q].prompt = "none" => remote'[q] = "none" /\ runs'[q].resolved = {} /\ runs'[q].cancel = "none"
               /\ Working(q)' => runs'[q].prompt \in {"waiting", "over"}
               /\ runs'[q].prompt = "waiting" => Working(q)'
               /\ runs'[q].timedOut => runs'[q].cancel # "none"
    BY <2>1 DEF OpenCodeInv, RunInv
  <2> QED BY <2>2 DEF RunInv, Working
<1>5. CancelInv'
  BY <1>2 DEF OpenCodeInv, CancelInv, CancelFits
<1> QED BY <1>2, <1>3, <1>4, <1>5, StayingKeeps

LEMMA CancelHasPrompt ==
  ASSUME OpenCodeInv, NEW r \in Runs, runs[r].cancel # "none"
  PROVE  runs[r].prompt # "none"
BY DEF OpenCodeInv, RunInv

LEMMA CancelPostsKeeps ==
  ASSUME OpenCodeInv, NEW r \in Runs, CancelPosts(r)
  PROVE  OpenCodeInv' /\ RunsMove
<1>1. /\ runs[r].cancel = "starting" /\ runs' = [runs EXCEPT ![r].cancel = "posting"]
      /\ UNCHANGED <<client, transport, closedHandles, handles, tables, forks, inter, provider>>
  BY DEF CancelPosts
<1>2. runs[r] \in RunRec /\ runs \in [Runs -> RunRec]
  BY RunFacts DEF OpenCodeInv, Typed, TypeOK, RunRec, CancelStates
<1>3. PICK run : run = [runs[r] EXCEPT !.cancel = "posting"]
  OBVIOUS
<1>4. Told(r, run) /\ run.cancel = "posting"
  BY <1>2, <1>3 DEF Told, RunRec, CancelStates, CancelWaits
<1>5. CancelFits(run)
  BY <1>4 DEF CancelFits
<1>6. runs' = [runs EXCEPT ![r] = run]
  BY <1>1, <1>2, <1>3
<1>7. Alone /\ closedHandles' \subseteq Handles /\ claimed' \subseteq claimed
  BY <1>1, SessionFacts DEF Alone, inter, provider
<1>8. /\ remote' \in [Runs -> {"none", "running", "aborting", "done"}]
      /\ \A q \in Runs : /\ Working(q)' <=> Working(q)
                         /\ remote'[q] = "none" <=> remote[q] = "none"
  BY <1>1 DEF provider, Working, OpenCodeInv, Typed, TypeOK
<1>9. runs[r].prompt # "none"
  BY <1>1, CancelHasPrompt
<1> QED BY <1>4, <1>5, <1>6, <1>7, <1>8, <1>9, ToldKeeps

LEMMA ProviderAbortsKeeps ==
  ASSUME OpenCodeInv, NEW r \in Runs, ProviderAborts(r)
  PROVE  OpenCodeInv' /\ RunsMove
<1>1. /\ runs[r].cancel = "posting" /\ runs' = [runs EXCEPT ![r].cancel = "posted"]
      /\ UNCHANGED <<client, transport, closedHandles, handles, tables, forks, inter, created, remoteForks>>
  BY DEF ProviderAborts
<1>2. runs[r] \in RunRec /\ runs \in [Runs -> RunRec]
  BY RunFacts DEF OpenCodeInv, Typed, TypeOK, RunRec, CancelStates
<1>3. PICK run : run = [runs[r] EXCEPT !.cancel = "posted"]
  OBVIOUS
<1>4. Told(r, run) /\ run.cancel = "posted"
  BY <1>2, <1>3 DEF Told, RunRec, CancelStates, CancelWaits
<1>5. CancelFits(run)
  BY <1>4 DEF CancelFits
<1>6. runs' = [runs EXCEPT ![r] = run]
  BY <1>1, <1>2, <1>3
<1>7. Alone /\ closedHandles' \subseteq Handles /\ claimed' \subseteq claimed
  BY <1>1, SessionFacts DEF Alone, inter
<1>8. /\ remote \in [Runs -> {"none", "running", "aborting", "done"}]
      /\ \A q \in Runs : remote'[q] = remote[q] \/ (remote[q] = "running" /\ remote'[q] = "aborting")
      /\ remote' = [q \in Runs |-> remote'[q]]
  BY DEF ProviderAborts, OpenCodeInv, Typed, TypeOK
<1>9. remote' \in [Runs -> {"none", "running", "aborting", "done"}]
  BY <1>8
<1>10. \A q \in Runs : /\ Working(q)' <=> Working(q)
                       /\ remote'[q] = "none" <=> remote[q] = "none"
  BY <1>8 DEF Working
<1>11. runs[r].prompt # "none"
  BY <1>1, CancelHasPrompt
<1> QED BY <1>4, <1>5, <1>6, <1>7, <1>9, <1>10, <1>11, ToldKeeps

(* The timer's cancel() may end the Run at once. *)
LEMMA CancelKeeps ==
  ASSUME OpenCodeInv, NEW r \in Runs, NEW timer \in BOOLEAN, Cancel(r, timer)
  PROVE  OpenCodeInv' /\ RunsMove
<1>1. /\ Streaming(r) /\ (timer => ~runs[r].timedOut) /\ (~timer => runs[r].cancel = "none")
      /\ UNCHANGED <<client, transport, closedHandles, knownSessions, forks, interactions, claimed, provider>>
  BY DEF Cancel
<1>2. runs[r] \in RunRec /\ runs \in [Runs -> RunRec]
  BY RunFacts DEF OpenCodeInv, Typed, TypeOK, RunRec, CancelStates
<1>3. Underway(r) /\ runs[r].prompt # "none" /\ runs[r].result = "none"
  BY <1>1, StreamingIsUnderway DEF Streaming, Terminal
<1>4. PICK c : c = (IF runs[r].cancel = "none" THEN "starting" ELSE runs[r].cancel)
  OBVIOUS
<1>5. PICK out : out = (runs[r].timedOut \/ timer)
  OBVIOUS
<1>6. c \in CancelStates /\ c # "none" /\ out \in BOOLEAN
  BY <1>2, <1>4, <1>5 DEF RunRec, CancelStates, CancelWaits
<1>7. PICK run : run = [runs[r] EXCEPT !.timedOut = out, !.cancel = c]
  OBVIOUS
<1>8. run \in RunRec /\ Told(r, run) /\ run.cancel = c
  BY <1>2, <1>6, <1>7 DEF Told, RunRec
<1>9. PICK now : now = [runs EXCEPT ![r] = run]
  OBVIOUS
<1>10. now = [runs EXCEPT ![r].timedOut = @ \/ timer, ![r].cancel = IF @ = "none" THEN "starting" ELSE @]
  BY <1>2, <1>4, <1>5, <1>7, <1>9
<1>11. now \in [Runs -> RunRec] /\ now[r] = run /\ \A q \in Runs : q # r => now[q] = runs[q]
  BY <1>2, <1>8, <1>9
<1>12. IF run.cancel = "error" THEN AbortRun(r, now) ELSE runs' = now /\ UNCHANGED SettledVars
  BY <1>10, <1>11 DEF Cancel
<1>13. runs[r].cancel \notin {"native", "connection_aborted", "already_terminal"}
  BY <1>3 DEF OpenCodeInv, CancelInv, CancelFits
<1>14. c \notin {"native", "connection_aborted", "already_terminal"}
  BY <1>4, <1>13
<1>15. CASE run.cancel = "error"
  <2>1. Readied(r, runs[r]) /\ UNCHANGED interactions /\ UNCHANGED remote
    BY <1>1, AsItWas DEF provider
  <2>2. Readied(r, run)
    BY <1>3, <1>6, <1>8, <1>14, <2>1 DEF Readied, Told
  <2>3. Settle(r, now, "connection_aborted", TRUE) /\ "connection_aborted" \in Terminals
    BY <1>12, <1>15 DEF AbortRun, Terminals
  <2>4. Asks({r}, now) /\ LeavesOff({r}, TRUE)
    BY <2>1, NothingAsked, StillWorks
  <2>5. Around
    BY <1>1, SessionFacts DEF Around, provider
  <2>6. Readied(r, now[r])
    BY <1>11, <2>2
  <2> QED BY <1>3, <1>11, <2>3, <2>4, <2>5, <2>6, SettleKeeps
<1>16. CASE run.cancel # "error"
  <2>1. runs' = [runs EXCEPT ![r] = run] /\ UNCHANGED SettledVars
    BY <1>9, <1>12, <1>16
  <2>2. CancelFits(run)
    BY <1>8, <1>14, <1>16 DEF CancelFits
  <2>3. Alone /\ closedHandles' \subseteq Handles /\ claimed' \subseteq claimed
    BY <1>1, <2>1, SessionFacts DEF Alone, SettledVars, tables, provider
  <2>4. /\ remote' \in [Runs -> {"none", "running", "aborting", "done"}]
        /\ \A q \in Runs : /\ Working(q)' <=> Working(q)
                           /\ remote'[q] = "none" <=> remote[q] = "none"
    BY <1>1 DEF provider, Working, OpenCodeInv, Typed, TypeOK
  <2> QED BY <1>3, <1>8, <2>1, <2>2, <2>3, <2>4, ToldKeeps
<1> QED BY <1>15, <1>16

LEMMA CancelAnsweredKeeps ==
  ASSUME OpenCodeInv, NEW r \in Runs, NEW outcome \in Outcomes, NEW acknowledged \in BOOLEAN,
         CancelAnswered(r, outcome, acknowledged)
  PROVE  OpenCodeInv' /\ RunsMove
<1>1. /\ runs[r].cancel \in {"posting", "posted"}
      /\ UNCHANGED <<client, transport, closedHandles, knownSessions, forks, interactions, claimed, provider>>
  BY DEF CancelAnswered
<1>2. runs[r] \in RunRec /\ runs \in [Runs -> RunRec]
  BY RunFacts DEF OpenCodeInv, Typed, TypeOK, RunRec, CancelStates
<1>3. runs[r].prompt # "none"
  BY <1>1, CancelHasPrompt
<1>4. PICK mode : mode = (IF outcome = "ok" /\ acknowledged
                          THEN IF Terminal(r) THEN CancelAfter("acknowledged", runs[r].result) ELSE "acknowledged"
                          ELSE IF outcome = "ok" /\ Terminal(r) THEN "already_terminal" ELSE "error")
  OBVIOUS
<1>5. /\ mode \in CancelStates /\ mode # "none"
      /\ mode = "native" => runs[r].result = "cancelled"
      /\ mode = "connection_aborted" => runs[r].result = "connection_aborted"
      /\ mode = "already_terminal" => Terminal(r)
      /\ mode \in {"native", "connection_aborted", "already_terminal"} => Terminal(r)
  BY <1>2, <1>4 DEF Terminal, RunRec, CancelAfter, CancelStates, Terminals, CancelWaits
<1>6. PICK run : run = [runs[r] EXCEPT !.cancel = mode]
  OBVIOUS
<1>7. run \in RunRec /\ Told(r, run) /\ run.cancel = mode /\ run.timedOut = runs[r].timedOut
  BY <1>2, <1>5, <1>6 DEF Told, RunRec
<1>8. PICK now : now = [runs EXCEPT ![r] = run]
  OBVIOUS
<1>9. now = [runs EXCEPT ![r].cancel = mode]
  BY <1>2, <1>6, <1>8
<1>10. now \in [Runs -> RunRec] /\ now[r] = run /\ \A q \in Runs : q # r => now[q] = runs[q]
  BY <1>2, <1>7, <1>8
<1>11. IF mode = "error" /\ runs[r].timedOut THEN Settle(r, now, "connection_aborted", TRUE) ELSE runs' = now /\ UNCHANGED SettledVars
  BY <1>4, <1>9 DEF CancelAnswered
<1>12. CASE mode = "error" /\ runs[r].timedOut /\ ~Terminal(r)
  <2>1. Readied(r, runs[r]) /\ UNCHANGED interactions /\ UNCHANGED remote
    BY <1>1, AsItWas DEF provider
  <2>2. Readied(r, now[r])
    BY <1>3, <1>7, <1>10, <1>12, <2>1 DEF Readied, Told
  <2>3. Settle(r, now, "connection_aborted", TRUE) /\ "connection_aborted" \in Terminals
    BY <1>11, <1>12 DEF Terminals
  <2>4. Asks({r}, now) /\ LeavesOff({r}, TRUE)
    BY <2>1, NothingAsked, StillWorks
  <2>5. Around /\ Underway(r)
    BY <1>1, <1>3, <1>12, SessionFacts, AliveIsUnderway DEF Around, provider
  <2> QED BY <1>10, <2>2, <2>3, <2>4, <2>5, SettleKeeps
<1>13. CASE ~(mode = "error" /\ runs[r].timedOut /\ ~Terminal(r))
  <2>1. runs' = [runs EXCEPT ![r] = run] /\ UNCHANGED SettledVars
    BY <1>8, <1>11, <1>13 DEF Settle
  <2>2. CancelFits(run)
    BY <1>5, <1>7, <1>13 DEF CancelFits, Told, Terminal
  <2>3. Alone /\ closedHandles' \subseteq Handles /\ claimed' \subseteq claimed
    BY <1>1, <2>1, SessionFacts DEF Alone, SettledVars, tables, provider
  <2>4. /\ remote' \in [Runs -> {"none", "running", "aborting", "done"}]
        /\ \A q \in Runs : /\ Working(q)' <=> Working(q)
                           /\ remote'[q] = "none" <=> remote[q] = "none"
    BY <1>1 DEF provider, Working, OpenCodeInv, Typed, TypeOK
  <2> QED BY <1>3, <1>7, <2>1, <2>2, <2>3, <2>4, ToldKeeps
<1> QED BY <1>12, <1>13

(* Nothing but what is claimed changes. *)
LEMMA RestKeeps ==
  ASSUME OpenCodeInv, UNCHANGED <<runs, SettledVars, client, transport, knownSessions, forks, interactions, provider>>,
         closedHandles' \subseteq Handles, claimed' \subseteq claimed
  PROVE  OpenCodeInv' /\ RunsMove
<1>1. Alone
  BY DEF Alone, SettledVars, tables, provider
<1>2. /\ remote' \in [Runs -> {"none", "running", "aborting", "done"}]
      /\ \A q \in Runs : Working(q)' => Working(q)
  BY DEF provider, Working, OpenCodeInv, Typed, TypeOK
<1>3. runs' \in [Runs -> RunRec] /\ \A q \in Runs : Stays(q)
  BY DEF Stays, OpenCodeInv, Typed, TypeOK, RunRec, CancelStates
<1>4. RunInv' /\ CancelInv'
  BY DEF OpenCodeInv, RunInv, CancelInv, CancelFits, Working, SettledVars, provider
<1> QED BY <1>1, <1>2, <1>3, <1>4, StayingKeeps

LEMMA CancelGivesUpKeeps ==
  ASSUME OpenCodeInv, NEW r \in Runs, CancelGivesUp(r)
  PROVE  OpenCodeInv' /\ RunsMove
<1>1. /\ runs[r].cancel = "acknowledged" /\ AbortRun(r, runs)
      /\ UNCHANGED <<client, transport, closedHandles, knownSessions, forks, interactions, claimed, provider>>
  BY DEF CancelGivesUp
<1>2. runs[r].prompt # "none"
  BY <1>1, CancelHasPrompt
<1>3. CASE ~Terminal(r)
  BY <1>1, <1>2, <1>3, SessionFacts, AliveIsUnderway, AbortsAsItIs DEF Around, provider
<1>4. CASE Terminal(r)
  BY <1>1, <1>4, SessionFacts, RestKeeps DEF AbortRun, Settle
<1> QED BY <1>3, <1>4

-------------------------------------------------------------------------------
(* Permissions. *)
(* A permission is registered: of a Run that goes on, or one that is over. *)
Untouched(q) ==
  /\ runs'[q].open = runs[q].open /\ runs'[q].owner = runs[q].owner /\ runs'[q].result = runs[q].result
  /\ runs'[q].prompt = runs[q].prompt /\ runs'[q].cancel = runs[q].cancel /\ runs'[q].timedOut = runs[q].timedOut
  /\ runs'[q].resolved = runs[q].resolved

Registers(r, p, late) ==
  /\ Len(interactions) < MaxInteractions /\ runs[r].open = "opened" /\ (late <=> Terminal(r)) /\ late \in BOOLEAN
  /\ pendingByProviderId[<<SessionOf(r), p>>] = 0
  /\ interactions' = Append(interactions, [run |-> r, permission |-> p, late |-> late])
  /\ pendingByLocalId' = pendingByLocalId \cup {Len(interactions) + 1}
  /\ pendingByProviderId' = [pendingByProviderId EXCEPT ![<<SessionOf(r), p>>] = Len(interactions) + 1]
  /\ runs' \in [Runs -> RunRec] /\ \A q \in Runs : Untouched(q)
  /\ UNCHANGED <<client, transport, closedHandles, handles, tables, forks, claimed, provider>>

LEMMA RegistersKeeps ==
  ASSUME OpenCodeInv, NEW r \in Runs, NEW p \in Permissions, NEW late, Registers(r, p, late)
  PROVE  OpenCodeInv' /\ RunsMove
<1>1. /\ Len(interactions) < MaxInteractions
      /\ UNCHANGED <<client, transport, closedHandles, handles, tables, forks, claimed, provider>>
      /\ runs' \in [Runs -> RunRec] /\ late \in BOOLEAN /\ (late <=> Terminal(r)) /\ runs[r].open = "opened"
  BY DEF Registers
<1>2. PICK key : key = <<SessionOf(r), p>>
  OBVIOUS
<1>3. PICK i : i = Len(interactions) + 1
  OBVIOUS
<1>4. /\ pendingByProviderId[key] = 0
      /\ interactions' = Append(interactions, [run |-> r, permission |-> p, late |-> late])
      /\ pendingByLocalId' = pendingByLocalId \cup {i}
      /\ pendingByProviderId' = [pendingByProviderId EXCEPT ![key] = i]
  BY <1>2, <1>3 DEF Registers
<1>5. /\ interactions \in Seq(InteractionRec) /\ Len(interactions) \in Nat
      /\ [run |-> r, permission |-> p, late |-> late] \in InteractionRec
  BY <1>1 DEF OpenCodeInv, Typed, TypeOK, InteractionRec
<1>6. PICK asked \in InteractionRec : asked = [run |-> r, permission |-> p, late |-> late]
  BY <1>5
<1>7. /\ interactions' \in Seq(InteractionRec) /\ Len(interactions)' = i /\ i \in Nat /\ i # 0 /\ i \in 1..MaxInteractions
      /\ \A j \in 1..Len(interactions) : interactions'[j] = interactions[j]
      /\ interactions'[i] = asked /\ asked.run = r /\ asked.permission = p /\ asked.late = late
  BY <1>4, <1>6, <1>5, <1>1, <1>3, BoundAssumption
<1>8. \A j \in 1..i : j = i \/ j \in 1..Len(interactions)
  BY <1>3, <1>5
<1>9. \A q \in Runs : /\ Untouched(q)
                      /\ runs'[q].resolved = runs[q].resolved
                      /\ SessionOf(q)' = SessionOf(q)
                      /\ Terminal(q)' <=> Terminal(q)
                      /\ Underway(q)' <=> Underway(q)
                      /\ Working(q)' <=> Working(q)
  BY <1>1 DEF Registers, Untouched, SessionOf, Terminal, Underway, Working, provider
<1>10. RunOf(i)' = r /\ \A j \in 1..Len(interactions) : RunOf(j)' = RunOf(j) /\ RunOf(j) \in Runs
  BY <1>7, PermissionFacts DEF RunOf
<1>22. SessionOf(r) \in Sessions
  BY <1>1, RunFacts DEF OpenCodeInv, RunInv
<1>23. key \in Sessions \X Permissions
  BY <1>2, <1>22
<1>24. /\ pendingByProviderId' \in [Sessions \X Permissions -> 0..i] /\ pendingByProviderId'[key] = i
      /\ \A k \in Sessions \X Permissions : k # key => pendingByProviderId'[k] = pendingByProviderId[k]
  BY <1>3, <1>5, <1>4, <1>23 DEF OpenCodeInv, Typed, TypeOK
<1>25. pendingByLocalId' \subseteq 1..i /\ claimed \subseteq 1..i /\ pendingByLocalId \subseteq 1..Len(interactions)
  <2>1. pendingByLocalId \subseteq 1..Len(interactions) /\ claimed \subseteq 1..Len(interactions)
    BY DEF OpenCodeInv, Typed, TypeOK
  <2>2. 1..Len(interactions) \subseteq 1..i /\ i \in 1..i
    BY <1>3, <1>5
  <2> QED BY <1>4, <2>1, <2>2
<1>26. Len(interactions)' <= MaxInteractions
  BY <1>7, BoundAssumption
<1>27. Typed'
  BY <1>1, <1>7, <1>4, <1>24, <1>25, <1>26 DEF OpenCodeInv, Typed, TypeOK, InteractionRec, RunRec, CancelStates, tables, provider
<1>28. ClientInv' /\ HandleInv' /\ CancelInv' /\ HeldInv'
  BY <1>1, <1>9 DEF OpenCodeInv, ClientInv, HandleInv, HeldInv, CancelInv, CancelFits, Untouched, tables, provider
<1>40. RunInv'
  BY <1>1, <1>9 DEF OpenCodeInv, RunInv, Untouched, Working, provider
<1>29. ActiveInv'
  <2>1. ASSUME NEW s \in Sessions, activeBySession[s] # NoRun
        PROVE  \E q \in Runs : q = activeBySession[s] /\ Underway(q)' /\ SessionOf(q)' = s
    BY <1>9, <2>1 DEF OpenCodeInv, ActiveInv, Typed, TypeOK
  <2>2. ASSUME NEW q \in Runs, Underway(q)' PROVE activeBySession[SessionOf(q)'] = q /\ client = "open"
    BY <1>9, <2>2 DEF OpenCodeInv, ActiveInv
  <2>3. UNCHANGED <<activeBySession, client>>
    BY <1>1 DEF tables
  <2> QED BY <2>1, <2>2, <2>3 DEF ActiveInv, Underway, Terminal, SessionOf
<1>41. WorkInv'
  BY <1>1, <1>9 DEF OpenCodeInv, WorkInv, tables, provider
<1>42. \A j \in 1..Len(interactions) : SessionOf(RunOf(j))' = SessionOf(RunOf(j))
  <2> SUFFICES ASSUME NEW j \in 1..Len(interactions) PROVE SessionOf(RunOf(j))' = SessionOf(RunOf(j))
    OBVIOUS
  <2>1. PICK q \in Runs : q = RunOf(j) /\ q = RunOf(j)'
    BY <1>10
  <2>2. SessionOf(q)' = SessionOf(q)
    BY <1>9
  <2> QED BY <2>1, <2>2 DEF SessionOf
<1>30. KeyOf(i)' = key
  <2>1. SessionOf(r)' = SessionOf(r)
    BY <1>9
  <2>2. SessionOf(RunOf(i))' = SessionOf(r)
    BY <1>10, <2>1 DEF SessionOf
  <2> QED BY <1>2, <1>7, <2>2 DEF KeyOf
<1>31. \A j \in 1..Len(interactions) : KeyOf(j)' = KeyOf(j)
  BY <1>7, <1>42 DEF KeyOf
<1>32. \A j \in pendingByLocalId : pendingByProviderId[KeyOf(j)] = j /\ KeyOf(j) # key /\ KeyOf(j) \in Sessions \X Permissions
  <2> SUFFICES ASSUME NEW j \in pendingByLocalId
               PROVE  pendingByProviderId[KeyOf(j)] = j /\ KeyOf(j) # key /\ KeyOf(j) \in Sessions \X Permissions
    OBVIOUS
  <2>1. j \in 1..Len(interactions)
    BY <1>25
  <2>2. KeyOf(j) \in Sessions \X Permissions
    BY <2>1, PermissionFacts
  <2>3. pendingByProviderId[KeyOf(j)] = j
    BY DEF OpenCodeInv, PendingInv
  <2>4. j # 0
    BY <2>1
  <2> QED BY <1>4, <2>2, <2>3, <2>4
<1>33. i \notin runs[r].resolved
  BY <1>3, <1>5 DEF OpenCodeInv, PendingInv
<1>34. ASSUME NEW j \in 1..Len(interactions)'
       PROVE  /\ runs'[RunOf(j)'].open = "opened"
              /\ ~Terminal(RunOf(j))' => j \in pendingByLocalId' \cup runs'[RunOf(j)'].resolved
              /\ runs'[RunOf(j)'].result \in Statuses /\ ~interactions'[j].late => j \in runs'[RunOf(j)'].resolved
              /\ interactions'[j].late => Terminal(RunOf(j))'
  <2>1. CASE j = i
    BY <1>1, <1>4, <1>7, <1>9, <1>10, <2>1 DEF Terminal, Untouched, Statuses, Terminals
  <2>2. CASE j \in 1..Len(interactions)
    <3>1. PICK q \in Runs : q = RunOf(j) /\ q = RunOf(j)'
      BY <1>10, <2>2
    <3>2. /\ runs[q].open = "opened"
          /\ ~Terminal(q) => j \in pendingByLocalId \cup runs[q].resolved
          /\ runs[q].result \in Statuses /\ ~interactions[j].late => j \in runs[q].resolved
          /\ interactions[j].late => Terminal(q)
      BY <2>2, <3>1, PendingFacts
    <3>3. Untouched(q)
      BY <1>9
    <3>4. interactions'[j] = interactions[j] /\ (j \in pendingByLocalId => j \in pendingByLocalId')
      BY <1>4, <1>7, <2>2
    <3> QED BY <3>1, <3>2, <3>3, <3>4 DEF Untouched, Terminal
  <2> QED BY <1>7, <1>8, <2>1, <2>2
<1>35. ASSUME NEW j \in pendingByLocalId'
       PROVE  /\ pendingByProviderId'[KeyOf(j)'] = j
              /\ interactions'[j].late \/ ~Terminal(RunOf(j))'
              /\ j \notin runs'[RunOf(j)'].resolved
  <2>1. CASE j = i
    BY <1>1, <1>7, <1>9, <1>10, <1>24, <1>30, <1>33, <2>1 DEF Terminal, Untouched
  <2>2. CASE j \in pendingByLocalId
    <3>1. j \in 1..Len(interactions)
      BY <1>25, <2>2
    <3>2. PICK q \in Runs : q = RunOf(j) /\ q = RunOf(j)'
      BY <1>10, <3>1
    <3>3. (interactions[j].late \/ ~Terminal(q)) /\ j \notin runs[q].resolved
      BY <2>2, <3>2, PendingFacts
    <3>4. Untouched(q) /\ interactions'[j] = interactions[j]
      BY <1>7, <1>9, <3>1
    <3>5. pendingByProviderId'[KeyOf(j)'] = j
      BY <1>24, <1>31, <1>32, <2>2, <3>1
    <3> QED BY <3>2, <3>3, <3>4, <3>5 DEF Untouched, Terminal
  <2> QED BY <1>4, <2>1, <2>2
<1>36. \A k \in Sessions \X Permissions : pendingByProviderId'[k] # 0 => pendingByProviderId'[k] \in pendingByLocalId'
  BY <1>4, <1>24 DEF OpenCodeInv, PendingInv
<1>37. ASSUME NEW q \in Runs, NEW j \in runs'[q].resolved
       PROVE  j \in 1..Len(interactions)' /\ RunOf(j)' = q /\ ~interactions'[j].late
  <2>1. j \in runs[q].resolved
    BY <1>9
  <2>2. j \in 1..Len(interactions) /\ RunOf(j) = q /\ ~interactions[j].late
    BY <2>1 DEF OpenCodeInv, PendingInv
  <2> QED BY <1>3, <1>5, <1>7, <1>10, <2>2
<1>38. PendingInv'
  BY <1>34, <1>35, <1>36, <1>37 DEF PendingInv
<1>39. RunsMove
  <2> SUFFICES ASSUME NEW q \in Runs PROVE Moved(q)
    BY DEF RunsMove
  <2>1. StatusOfRun(q)' = StatusOfRun(q) /\ runs'[q].resolved = runs[q].resolved
    BY <1>9 DEF StatusOfRun, Untouched, Terminal
  <2>2. \A j \in 1..Len(interactions) : interactions'[j] = interactions[j] /\ j \in 1..Len(interactions)'
    BY <1>3, <1>5, <1>7
  <2>3. CASE q = r /\ ~late
    <3>1. StatusOfRun(q) = "active"
      BY <1>1, <2>3 DEF StatusOfRun
    <3>2. Requested(q) \subseteq Requested(q)'
      BY <2>2 DEF Requested
    <3> QED BY <2>1, <3>1, <3>2 DEF Moved
  <2>4. CASE ~(q = r /\ ~late)
    <3>1. Requested(q)' = Requested(q)
      BY <1>7, <1>8, <2>2, <2>4 DEF Requested
    <3> QED BY <2>1, <3>1 DEF Moved
  <2> QED BY <2>3, <2>4
<1> QED BY <1>27, <1>28, <1>29, <1>38, <1>39, <1>40, <1>41 DEF OpenCodeInv

LEMMA AskedKeeps ==
  ASSUME OpenCodeInv, NEW r \in Runs, NEW e \in Events, NEW p \in Permissions, NEW room \in Room, PermissionAsked(r, e, p, room)
  PROVE  OpenCodeInv' /\ RunsMove
<1>1. /\ Streaming(r) /\ Len(interactions) < MaxInteractions
      /\ UNCHANGED <<client, transport, closedHandles, knownSessions, forks, claimed, provider>>
  BY DEF PermissionAsked
<1>2. PICK key : key = <<SessionOf(r), p>>
  OBVIOUS
<1>3. PICK i : i = Len(interactions) + 1
  OBVIOUS
<1>4. /\ pendingByProviderId[key] = 0
      /\ interactions' = Append(interactions, [run |-> r, permission |-> p, late |-> FALSE])
      /\ IF room
         THEN /\ pendingByLocalId' = pendingByLocalId \cup {i}
              /\ pendingByProviderId' = [pendingByProviderId EXCEPT ![key] = i]
              /\ UNCHANGED <<runs, activeBySession, quarantinedSessions, handles>>
         ELSE AbortRun(r, [runs EXCEPT ![r].pump = FALSE, ![r].resolved = @ \cup {i}])
  BY <1>2, <1>3 DEF PermissionAsked
<1>5. interactions \in Seq(InteractionRec) /\ Len(interactions) \in Nat /\ [run |-> r, permission |-> p, late |-> FALSE] \in InteractionRec
  BY DEF OpenCodeInv, Typed, TypeOK, InteractionRec
<1>6. PICK asked \in InteractionRec : asked = [run |-> r, permission |-> p, late |-> FALSE]
  BY <1>5
<1>7. /\ interactions' \in Seq(InteractionRec) /\ Len(interactions)' = i /\ i \in Nat /\ i # 0 /\ i \in 1..MaxInteractions
      /\ \A j \in 1..Len(interactions) : interactions'[j] = interactions[j]
      /\ interactions'[i] = asked /\ asked.run = r /\ asked.permission = p /\ ~asked.late
  BY <1>4, <1>6, <1>5, <1>1, <1>3, BoundAssumption
<1>8. \A j \in 1..i : j = i \/ j \in 1..Len(interactions)
  BY <1>3, <1>5
<1>9. Underway(r) /\ runs[r].prompt # "none" /\ runs[r].open = "opened" /\ ~Terminal(r)
  BY <1>1, StreamingIsUnderway DEF Streaming
<1>10. RunOf(i)' = r /\ \A j \in 1..Len(interactions) : RunOf(j)' = RunOf(j)
  BY <1>7 DEF RunOf
<1>11. CASE room
  <2>1. runs' = runs /\ pendingByLocalId' = pendingByLocalId \cup {i}
    BY <1>4, <1>11
  <2>2. runs' \in [Runs -> RunRec] /\ \A q \in Runs : Untouched(q)
    BY <2>1 DEF Untouched, OpenCodeInv, Typed, TypeOK, RunRec, CancelStates
  <2>3. Registers(r, p, FALSE)
    BY <1>1, <1>2, <1>3, <1>4, <1>9, <1>11, <2>1, <2>2 DEF Registers, tables
  <2> QED BY <2>3, RegistersKeeps
<1>12. CASE ~room
  <2>1. AbortRun(r, [runs EXCEPT ![r].pump = FALSE, ![r].resolved = @ \cup {i}])
    BY <1>4, <1>12
  <2>2. runs[r] \in RunRec /\ runs \in [Runs -> RunRec]
    BY RunFacts DEF OpenCodeInv, Typed, TypeOK, RunRec, CancelStates
  <2>3. PICK R : R = runs[r].resolved \cup {i}
    OBVIOUS
  <2>4. R \subseteq 1..MaxInteractions
    BY <1>7, <2>2, <2>3 DEF RunRec
  <2>5. PICK run : run = [runs[r] EXCEPT !.pump = FALSE, !.resolved = R]
    OBVIOUS
  <2>6. /\ run \in RunRec /\ run.open = runs[r].open /\ run.owner = runs[r].owner /\ run.result = runs[r].result
        /\ run.prompt = runs[r].prompt /\ run.cancel = runs[r].cancel /\ run.timedOut = runs[r].timedOut /\ run.resolved = R
    BY <2>2, <2>4, <2>5 DEF RunRec
  <2>7. PICK now : now = [runs EXCEPT ![r] = run]
    OBVIOUS
  <2>8. now = [runs EXCEPT ![r].pump = FALSE, ![r].resolved = @ \cup {i}]
    BY <2>2, <2>3, <2>5, <2>7
  <2>9. now \in [Runs -> RunRec] /\ now[r] = run /\ \A q \in Runs : q # r => now[q] = runs[q]
    BY <2>2, <2>6, <2>7
  <2>10. Settle(r, now, "connection_aborted", TRUE) /\ "connection_aborted" \in Terminals
    BY <2>1, <2>8 DEF AbortRun, Terminals
  <2>11. \A j \in R : j \in 1..Len(interactions)' /\ RunOf(j)' = r /\ ~interactions'[j].late
    <3> SUFFICES ASSUME NEW j \in R PROVE j \in 1..Len(interactions)' /\ RunOf(j)' = r /\ ~interactions'[j].late
      OBVIOUS
    <3>1. CASE j = i
      BY <1>7, <1>10, <3>1
    <3>2. CASE j \in runs[r].resolved
      BY <3>2, <1>3, <1>5, <1>7, <1>10 DEF OpenCodeInv, PendingInv
    <3> QED BY <2>3, <3>1, <3>2
  <2>12. Readied(r, run)
    BY <1>9, <2>3, <2>6, <2>11 DEF OpenCodeInv, RunInv, CancelInv, CancelFits, Terminal, Readied
  <2>13. Asks({r}, now)
    BY <1>3, <1>5, <1>7, BoundAssumption, <1>9, <1>10, <2>3, <2>6, <2>9 DEF Asks
  <2>14. LeavesOff({r}, TRUE) /\ Around
    BY <1>1, SessionFacts, StillWorks DEF provider, Around
  <2>15. Readied(r, now[r])
    BY <2>9, <2>12
  <2> QED BY <1>9, <2>9, <2>10, <2>13, <2>14, <2>15, SettleKeeps
<1> QED BY <1>11, <1>12

LEMMA AskedLateKeeps ==
  ASSUME OpenCodeInv, NEW r \in Runs, NEW p \in Permissions, PermissionAskedLate(r, p)
  PROVE  OpenCodeInv' /\ RunsMove
<1>1. runs' = PumpOver(r) /\ runs' \in [Runs -> RunRec] /\ \A q \in Runs : Untouched(q)
  BY PumpOverFacts DEF PermissionAskedLate, Untouched
<1>2. Registers(r, p, TRUE)
  BY <1>1 DEF PermissionAskedLate, Registers
<1> QED BY <1>2, RegistersKeeps

LEMMA ResolveKeeps ==
  ASSUME OpenCodeInv, NEW r \in Runs, runs[r].open = "opened", NEW p \in Permissions, NEW room \in Room,
         NEW byPump \in BOOLEAN, Resolve(r, p, room, byPump),
         UNCHANGED <<client, transport, closedHandles, knownSessions, forks, interactions, provider>>, claimed' \subseteq claimed
  PROVE  OpenCodeInv' /\ RunsMove
<1>1. PICK i : i = pendingByProviderId[<<SessionOf(r), p>>]
  OBVIOUS
<1>2. CASE UNCHANGED <<runs, SettledVars>>
  BY <1>2, SessionFacts, RestKeeps
<1>3. CASE ~UNCHANGED <<runs, SettledVars>>
  <2>1. i # 0 /\ interactions[i].run = r
    BY <1>1, <1>3 DEF Resolve
  <2>2. <<SessionOf(r), p>> \in Sessions \X Permissions
    BY RunFacts DEF OpenCodeInv, RunInv
  <2>3. i \in pendingByLocalId /\ i \in 1..Len(interactions) /\ RunOf(i) = r
    BY <1>1, <2>1, <2>2 DEF OpenCodeInv, PendingInv, Typed, TypeOK, RunOf
  <2>5. UNCHANGED <<interactions, remote>>
    BY DEF provider
  <2>6. CASE ~Terminal(r) /\ ~room
    <3>0. PICK now : now = (IF byPump THEN PumpOver(r) ELSE runs)
      OBVIOUS
    <3>1. SettleAll({r}, now, pendingByLocalId \ {i}, "connection_aborted", TRUE) /\ Forget(PendingOf({r}))
      BY <1>1, <1>3, <2>1, <2>6, <3>0 DEF Resolve
    <3>2. PendingOf({r}) = {j \in pendingByLocalId : RunOf(j) \in {r}}
      BY DEF PendingOf, RunOf
    <3>3. Forgotten({r}) /\ Underway(r)
      BY <2>3, <2>6, <3>1, <3>2, PermissionFacts DEF Forgotten, Underway
    <3>4. now \in [Runs -> RunRec] /\ Readied(r, now[r]) /\ \A q \in Runs : q # r => now[q] = runs[q]
      BY <2>5, <3>0, AsItWas, PumpOverReadied
    <3>5. Asks({r}, now) /\ LeavesOff({r}, TRUE) /\ ClosesAll({r})
      BY <2>5, NothingAsked, StillWorks DEF ClosesAll
    <3>6. closedHandles' \subseteq Handles /\ UNCHANGED <<knownSessions, forks, created, remoteForks>>
      BY SessionFacts DEF provider
    <3>7. Ends({r}, now, pendingByLocalId \ {i}, "connection_aborted", TRUE)
      BY <3>1, <3>3, <3>4, <3>5, <3>6 DEF Ends, Terminals, Statuses
    <3> QED BY <3>7, EndsKeep
  <2>8. CASE Terminal(r)
    <3>1. Forget({i}) /\ UNCHANGED <<runs, activeBySession, quarantinedSessions, handles>>
      BY <1>1, <1>3, <2>1, <2>8 DEF Resolve
    <3>2. interactions[i].late
      BY <2>3, <2>8 DEF OpenCodeInv, PendingInv
    <3>3. Forgotten({})
      BY <2>3, <3>1, <3>2 DEF Forgotten
    <3>4. runs \in [Runs -> RunRec] /\ handles \in [Handles -> HandleRec] /\ Asks({}, runs) /\ LeavesOff({}, TRUE) /\ ClosesAll({})
      BY <2>5, NothingAsked, StillWorks DEF ClosesAll, OpenCodeInv, Typed, TypeOK, RunRec, CancelStates, HandleRec
    <3>5. SettleAll({}, runs, pendingByLocalId, "connection_aborted", TRUE)
      <4>1. runs' = [q \in Runs |-> runs[q]]
        BY <3>1, <3>4
      <4>2. activeBySession' = [s \in Sessions |-> IF activeBySession[s] \in {} THEN NoRun ELSE activeBySession[s]]
        BY <3>1 DEF OpenCodeInv, Typed, TypeOK
      <4>3. \A h \in Handles : handles[h] = [handles[h] EXCEPT !.unsafe = @ \/ (TRUE /\ \E q \in {} : runs[q].owner = h)]
        <5> SUFFICES ASSUME NEW h \in Handles
                     PROVE  handles[h] = [handles[h] EXCEPT !.unsafe = @ \/ (TRUE /\ \E q \in {} : runs[q].owner = h)]
          OBVIOUS
        <5>1. PICK rec \in HandleRec : rec = handles[h]
          BY <3>4
        <5>2. PICK u : u = (rec.unsafe \/ (TRUE /\ \E q \in {} : runs[q].owner = h))
          OBVIOUS
        <5>3. u = rec.unsafe
          BY <5>1, <5>2 DEF HandleRec
        <5>4. rec = [rec EXCEPT !.unsafe = u]
          BY <5>3 DEF HandleRec
        <5> QED BY <5>1, <5>2, <5>4
      <4>4. handles' = [h \in Handles |->
              [handles[h] EXCEPT !.unsafe = @ \/ (TRUE /\ \E q \in {} : runs[q].owner = h)]]
        BY <3>1, <3>4, <4>3
      <4>5. quarantinedSessions' = quarantinedSessions \cup {SessionOf(q) : q \in {}}
        BY <3>1
      <4> QED BY <4>1, <4>2, <4>4, <4>5 DEF SettleAll
    <3>6. Ends({}, runs, pendingByLocalId, "connection_aborted", TRUE)
      BY <3>3, <3>4, <3>5, SessionFacts DEF Ends, Terminals, provider
    <3> QED BY <3>6, EndsKeep
  <2>7. CASE ~Terminal(r) /\ room
    <3>1. /\ Forget({i}) /\ runs' = [runs EXCEPT ![r].resolved = @ \cup {i}]
          /\ UNCHANGED <<activeBySession, quarantinedSessions, handles>>
      BY <1>1, <1>3, <2>1, <2>7 DEF Resolve
    <3>2. runs[r] \in RunRec /\ runs \in [Runs -> RunRec]
      BY RunFacts DEF OpenCodeInv, Typed, TypeOK, RunRec, CancelStates
    <3>3. PICK R : R = runs[r].resolved \cup {i}
      OBVIOUS
    <3>4. R \subseteq 1..MaxInteractions
      BY <2>3, <3>2, <3>3, BoundAssumption DEF OpenCodeInv, Typed, TypeOK, RunRec
    <3>5. PICK run : run = [runs[r] EXCEPT !.resolved = R]
      OBVIOUS
    <3>6. /\ run \in RunRec /\ run.open = runs[r].open /\ run.owner = runs[r].owner /\ run.result = runs[r].result
          /\ run.prompt = runs[r].prompt /\ run.cancel = runs[r].cancel /\ run.timedOut = runs[r].timedOut /\ run.resolved = R
      BY <3>2, <3>4, <3>5 DEF RunRec
    <3>7. runs' = [runs EXCEPT ![r] = run]
      BY <3>1, <3>2, <3>3, <3>5
    <3>8. runs' \in [Runs -> RunRec] /\ runs'[r] = run /\ \A q \in Runs : q # r => runs'[q] = runs[q]
      BY <3>2, <3>6, <3>7
    <3>9. ASSUME NEW q \in Runs
          PROVE  /\ runs'[q].open = runs[q].open /\ runs'[q].owner = runs[q].owner /\ runs'[q].result = runs[q].result
                 /\ runs'[q].prompt = runs[q].prompt /\ runs'[q].cancel = runs[q].cancel
                 /\ runs'[q].timedOut = runs[q].timedOut
                 /\ runs[q].resolved \subseteq runs'[q].resolved
                 /\ runs'[q].resolved = (IF q = r THEN runs[q].resolved \cup {i} ELSE runs[q].resolved)
      BY <3>3, <3>6, <3>8
    <3>10. /\ pendingByLocalId' = pendingByLocalId \ {i}
           /\ DOMAIN pendingByProviderId = Sessions \X Permissions
           /\ \A k \in Sessions \X Permissions :
                pendingByProviderId'[k] = IF pendingByProviderId[k] = i THEN 0 ELSE pendingByProviderId[k]
           /\ pendingByProviderId' \in [Sessions \X Permissions -> 0..Len(interactions)]
      BY <3>1 DEF OpenCodeInv, Typed, TypeOK, Forget
    <3>11. Typed'
      BY <3>1, <3>8, <3>10 DEF OpenCodeInv, Typed, TypeOK, RunRec, CancelStates, provider
    <3>12. ClientInv' /\ HandleInv' /\ CancelInv' /\ HeldInv'
      BY <3>1, <3>9 DEF OpenCodeInv, ClientInv, HandleInv, CancelInv, CancelFits, HeldInv, provider
    <3>13. runs[r].prompt # "none"
      BY DEF OpenCodeInv, RunInv
    <3>14. RunInv'
      BY <3>1, <3>9, <3>13 DEF OpenCodeInv, RunInv, Working, provider
    <3>15. \A q \in Runs : /\ SessionOf(q)' = SessionOf(q)
                           /\ Terminal(q)' <=> Terminal(q)
                           /\ Underway(q)' <=> Underway(q)
                           /\ Working(q)' <=> Working(q)
      BY <3>1, <3>9 DEF SessionOf, Terminal, Underway, Working, provider
    <3>16. ActiveInv'
      BY <3>15, <3>1 DEF OpenCodeInv, ActiveInv, Typed, TypeOK, Underway, Terminal, SessionOf
    <3>17. WorkInv'
      BY <3>1, <3>15 DEF provider, OpenCodeInv, WorkInv
    <3>18. ASSUME NEW j \in 1..Len(interactions)
           PROVE  /\ RunOf(j) \in Runs /\ RunOf(j)' = RunOf(j) /\ KeyOf(j)' = KeyOf(j)
                  /\ KeyOf(j) \in Sessions \X Permissions /\ (Terminal(RunOf(j))' <=> Terminal(RunOf(j)))
      <4>1. RunOf(j) \in Runs /\ RunOf(j)' = RunOf(j) /\ KeyOf(j) \in Sessions \X Permissions
        BY PermissionFacts DEF RunOf
      <4>2. PICK q \in Runs : q = RunOf(j)
        BY <4>1
      <4>3. SessionOf(q)' = SessionOf(q) /\ (Terminal(q)' <=> Terminal(q))
        BY <3>15
      <4>4. SessionOf(RunOf(j))' = SessionOf(RunOf(j)) /\ (Terminal(RunOf(j))' <=> Terminal(RunOf(j)))
        BY <4>1, <4>2, <4>3 DEF SessionOf, Terminal
      <4> QED BY <4>1, <4>4 DEF KeyOf
    <3>19. ASSUME NEW j \in 1..Len(interactions)
           PROVE  /\ runs'[RunOf(j)'].open = "opened"
                  /\ ~Terminal(RunOf(j))' => j \in pendingByLocalId' \cup runs'[RunOf(j)'].resolved
                  /\ runs'[RunOf(j)'].result \in Statuses /\ ~interactions[j].late => j \in runs'[RunOf(j)'].resolved
                  /\ interactions[j].late => Terminal(RunOf(j))'
      <4>1. /\ runs[RunOf(j)].open = "opened"
            /\ ~Terminal(RunOf(j)) => j \in pendingByLocalId \cup runs[RunOf(j)].resolved
            /\ runs[RunOf(j)].result \in Statuses /\ ~interactions[j].late => j \in runs[RunOf(j)].resolved
            /\ interactions[j].late => Terminal(RunOf(j))
        BY DEF OpenCodeInv, PendingInv
      <4>2. RunOf(j) \in Runs /\ RunOf(j)' = RunOf(j) /\ (Terminal(RunOf(j))' <=> Terminal(RunOf(j)))
        BY <3>18
      <4>3. PICK q \in Runs : q = RunOf(j)
        BY <4>2
      <4>4. j = i => q = r
        BY <2>3, <4>3
      <4>5. /\ runs'[q].open = runs[q].open /\ runs'[q].result = runs[q].result
            /\ runs'[q].resolved = (IF q = r THEN runs[q].resolved \cup {i} ELSE runs[q].resolved)
        BY <3>9
      <4>6. j \in pendingByLocalId => j \in pendingByLocalId' \/ j \in runs'[q].resolved
        BY <3>10, <4>4, <4>5
      <4> QED BY <4>1, <4>2, <4>3, <4>5, <4>6
    <3>20. ASSUME NEW j \in pendingByLocalId'
           PROVE  /\ pendingByProviderId'[KeyOf(j)'] = j
                  /\ interactions[j].late \/ ~Terminal(RunOf(j))'
                  /\ j \notin runs'[RunOf(j)'].resolved
      <4>1. j \in pendingByLocalId /\ j # i /\ j \in 1..Len(interactions)
        BY <3>10 DEF OpenCodeInv, Typed, TypeOK
      <4>2. pendingByProviderId[KeyOf(j)] = j /\ (interactions[j].late \/ ~Terminal(RunOf(j))) /\ j \notin runs[RunOf(j)].resolved
        BY <4>1 DEF OpenCodeInv, PendingInv
      <4>3. /\ RunOf(j) \in Runs /\ RunOf(j)' = RunOf(j) /\ KeyOf(j)' = KeyOf(j)
            /\ KeyOf(j) \in Sessions \X Permissions /\ (Terminal(RunOf(j))' <=> Terminal(RunOf(j)))
        BY <3>18, <4>1
      <4>4. pendingByProviderId'[KeyOf(j)] = j
        BY <3>10, <4>1, <4>2, <4>3
      <4>5. PICK q \in Runs : q = RunOf(j)
        BY <4>3
      <4>6. j \notin runs'[q].resolved
        <5>1. runs'[q].resolved = (IF q = r THEN runs[q].resolved \cup {i} ELSE runs[q].resolved)
          BY <3>9
        <5> QED BY <4>1, <4>2, <4>5, <5>1
      <4> QED BY <4>2, <4>3, <4>4, <4>5, <4>6
    <3>21. \A k \in Sessions \X Permissions : pendingByProviderId'[k] # 0 => pendingByProviderId'[k] \in pendingByLocalId'
      BY <3>10 DEF OpenCodeInv, PendingInv
    <3>22. ASSUME NEW q \in Runs, NEW j \in runs'[q].resolved 
           PROVE  j \in 1..Len(interactions) /\ RunOf(j)' = q /\ ~interactions[j].late
      <4>1. CASE q = r /\ j = i
        BY <2>3, <2>7, <3>18, <4>1 DEF OpenCodeInv, PendingInv
      <4>2. CASE j \in runs[q].resolved
        BY <4>2, <3>18 DEF OpenCodeInv, PendingInv
      <4>3. runs'[q].resolved = (IF q = r THEN runs[q].resolved \cup {i} ELSE runs[q].resolved)
        BY <3>9
      <4> QED BY <4>1, <4>2, <4>3
    <3>23. PendingInv'
      BY <2>5, <3>19, <3>20, <3>21, <3>22 DEF PendingInv
    <3>24. RunsMove
      <4> SUFFICES ASSUME NEW q \in Runs PROVE Moved(q)
        BY DEF RunsMove
      <4>1. StatusOfRun(q)' = StatusOfRun(q) /\ Requested(q)' = Requested(q)
        BY <3>9 DEF StatusOfRun, Terminal, Requested
      <4>2. CASE q = r
        BY <2>3, <2>7, PermissionFacts, <4>2, <3>9, <4>1 DEF StatusOfRun, Moved
      <4>3. CASE q # r
        BY <3>9, <4>1, <4>3 DEF Moved
      <4> QED BY <4>2, <4>3
    <3> QED BY <3>11, <3>12, <3>14, <3>16, <3>17, <3>23, <3>24 DEF OpenCodeInv
  <2> QED BY <2>6, <2>7, <2>8 DEF Room
<1> QED BY <1>2, <1>3

LEMMA RepliedKeeps ==
  ASSUME OpenCodeInv, NEW r \in Runs, NEW e \in Events, NEW p \in Permissions, NEW room \in Room,
         PermissionReplied(r, e, p, room)
  PROVE  OpenCodeInv' /\ RunsMove
<1>1. /\ Streaming(r) /\ Resolve(r, p, room, TRUE)
      /\ UNCHANGED <<client, transport, closedHandles, knownSessions, forks, interactions, claimed, provider>>
  BY DEF PermissionReplied
<1> QED BY <1>1, ResolveKeeps DEF Streaming

LEMMA RespondedKeeps ==
  ASSUME OpenCodeInv, NEW i \in claimed, NEW outcome, NEW room \in Room, Responded(i, outcome, room)
  PROVE  OpenCodeInv' /\ RunsMove
<1>1. i \in 1..Len(interactions)
  BY SessionFacts
<1>2. PICK r \in Runs : r = interactions[i].run /\ runs[r].open = "opened"
  BY <1>1, PermissionFacts DEF RunOf
<1>3. PICK p \in Permissions : p = interactions[i].permission
  BY <1>1, PermissionFacts
<1>4. /\ claimed' = claimed \ {i}
      /\ Resolve(r, p, room, FALSE) \/ UNCHANGED <<runs, SettledVars>>
      /\ UNCHANGED <<client, transport, closedHandles, knownSessions, forks, interactions, provider>>
  BY <1>2, <1>3 DEF Responded
<1>5. CASE Resolve(r, p, room, FALSE)
  BY <1>2, <1>4, <1>5, ResolveKeeps
<1>6. CASE UNCHANGED <<runs, SettledVars>>
  BY <1>4, <1>6, SessionFacts, RestKeeps
<1> QED BY <1>4, <1>5, <1>6

-------------------------------------------------------------------------------
(* Every step keeps the invariant, and moves the Runs as the contract has it. *)
LEMMA OpenCodeInitHolds == Init => OpenCodeInv
<1> SUFFICES ASSUME Init PROVE OpenCodeInv
  OBVIOUS
<1> USE DEF Init
<1>1. \A r \in Runs : /\ runs[r] \in RunRec /\ runs[r].open = "idle" /\ runs[r].owner = NoHandle /\ runs[r].result = "none"
                      /\ runs[r].prompt = "none" /\ runs[r].cancel = "none" /\ ~runs[r].timedOut /\ runs[r].resolved = {}
                      /\ remote[r] = "none"
  BY DEF RunRec, CancelStates
<1>2. runs \in [Runs -> RunRec]
  BY <1>1
<1>3. interactions \in Seq(InteractionRec) /\ Len(interactions) = 0 /\ 1..Len(interactions) = {}
  OBVIOUS
<1>4. handles \in [Handles -> HandleRec] /\ \A h \in Handles : handles[h].call = "free"
  BY DEF HandleRec
<1>5. pendingByProviderId \in [Sessions \X Permissions -> 0..Len(interactions)]
  BY <1>3
<1>6. Typed
  BY <1>2, <1>3, <1>4, <1>5, BoundAssumption DEF Typed, TypeOK, RunRec, CancelStates, HandleRec, InteractionRec
<1>7. ClientInv /\ HandleInv /\ CancelInv /\ HeldInv
  BY <1>1, <1>4 DEF ClientInv, HandleInv, CancelInv, CancelFits, HeldInv
<1>8. RunInv
  BY <1>1 DEF RunInv, Working
<1>9. ActiveInv /\ WorkInv
  BY <1>1 DEF ActiveInv, WorkInv, Underway, Working
<1>10. PendingInv
  BY <1>1, <1>3 DEF PendingInv
<1> QED BY <1>6, <1>7, <1>8, <1>9, <1>10 DEF OpenCodeInv

LEMMA OpenCodeInvStep == OpenCodeInv /\ [Next]_vars => OpenCodeInv' /\ RunsMove
<1> SUFFICES ASSUME OpenCodeInv, [Next]_vars PROVE OpenCodeInv' /\ RunsMove
  OBVIOUS
<1>1. CASE UNCHANGED vars
  BY <1>1, SessionFacts, RestKeeps DEF vars, tables, inter, SettledVars
<1>2. CASE Request
  BY ConnectKeeps, CreatedKeeps, ResumedKeeps, RespondedKeeps, <1>2 DEF Request
<1>3. CASE Close \/ RemoteEnds \/ \E profile \in ProfileOutcomes : Connect(profile)
  BY <1>3, CloseKeeps, RemoteEndsKeeps, ConnectKeeps
<1>4. ASSUME NEW h \in Handles, Create(h) \/ CloseSession(h) \/ \E s \in Sessions : Resume(h, s) PROVE OpenCodeInv' /\ RunsMove
  BY <1>4, CreateKeeps, CloseSessionKeeps, ResumeKeeps
<1>5. ASSUME NEW s \in Sessions, Fork(s) \/ ForkRequest(s) PROVE OpenCodeInv' /\ RunsMove
  BY <1>5, ForkKeeps, ForkCheckedKeeps, ForkedKeeps DEF ForkRequest
<1>6. ASSUME NEW r \in Runs, NEW h \in Handles, StartRun(r, h) PROVE OpenCodeInv' /\ RunsMove
  BY <1>6, StartRunKeeps
<1>7. ASSUME NEW r \in Runs, Opened(r) \/ OpenFails(r) \/ \E invalid \in BOOLEAN : StreamEnds(r, invalid)
      PROVE  OpenCodeInv' /\ RunsMove
  BY <1>7, OpenedKeeps, OpenFailsKeeps, StreamEndsKeeps
<1>8. ASSUME NEW r \in Runs, NEW e \in Events, EventArrives(r, e) PROVE OpenCodeInv' /\ RunsMove
  BY <1>8, EventArrivesKeeps
<1>9. ASSUME NEW r \in Runs, NEW e \in Events, NEW p \in Permissions, NEW room \in Room,
             PermissionAsked(r, e, p, room) \/ PermissionReplied(r, e, p, room)
      PROVE  OpenCodeInv' /\ RunsMove
  BY <1>9, AskedKeeps, RepliedKeeps
<1>14. ASSUME NEW r \in Runs, NEW p \in Permissions, PermissionAskedLate(r, p) PROVE OpenCodeInv' /\ RunsMove
  BY <1>14, AskedLateKeeps
<1>10. ASSUME NEW r \in Runs, NEW timer \in BOOLEAN, Cancel(r, timer) PROVE OpenCodeInv' /\ RunsMove
  BY <1>10, CancelKeeps
<1>11. ASSUME NEW r \in Runs, RunRequest(r) PROVE OpenCodeInv' /\ RunsMove
  BY <1>11, PromptSettlesKeeps, CancelAnsweredKeeps DEF RunRequest
<1>12. ASSUME NEW r \in Runs, RunTimers(r) \/ ProviderAborts(r) PROVE OpenCodeInv' /\ RunsMove
  BY <1>12, CancelPostsKeeps, CancelGivesUpKeeps, RunEndsKeeps, ProviderAbortsKeeps DEF RunTimers
<1>13. ASSUME NEW h \in Handles, NEW i \in pendingByLocalId, Respond(h, i) PROVE OpenCodeInv' /\ RunsMove
  BY <1>13, RespondKeeps
<1> QED BY <1>1, <1>2, <1>3, <1>4, <1>5, <1>6, <1>7, <1>8, <1>9, <1>10, <1>11, <1>12, <1>13, <1>14 DEF Next

(* What the Provider works on in a Session is one Run, or none. *)
LEMMA WorksOnOne ==
  ASSUME OpenCodeInv, NEW s \in Sessions, NEW W,
         W = {r \in Runs : runs[r].owner # NoHandle /\ SessionOf(r) = s /\ remote[r] \in {"running", "aborting"}}
  PROVE  /\ Cardinality(W) <= (IF s \in remoteForks THEN 0 ELSE 1)
         /\ \A r \in W : Terminal(r) => s \in quarantinedSessions
<1>1. \A r \in W : r \in Runs /\ Working(r) /\ SessionOf(r) = s
  BY DEF Working
<1>2. \A r \in W : Terminal(r) => s \in quarantinedSessions
  BY <1>1 DEF OpenCodeInv, WorkInv
<1>3. CASE W = {}
  BY <1>3, FS_EmptySet, <1>2
<1>4. CASE W # {}
  <2>1. PICK r \in W : TRUE
    BY <1>4
  <2>2. W = {r}
    BY <1>1, <2>1 DEF OpenCodeInv, WorkInv
  <2>3. Cardinality(W) = 1
    BY <2>2, FS_Singleton
  <2>4. s \notin remoteForks
    BY <1>1, <2>1 DEF OpenCodeInv, WorkInv
  <2> QED BY <1>2, <2>3, <2>4
<1> QED BY <1>3, <1>4

LEMMA OpenCodeInvImplies == OpenCodeInv => OpenCodeSound
<1> SUFFICES ASSUME OpenCodeInv PROVE OpenCodeSound
  OBVIOUS
<1>1. SessionsExclusive
  BY SessionFacts, WorksOnOne DEF OpenCodeInv, Typed, ClientInv, SessionsExclusive
<1>2. PermissionsSettled
  <2>1. ASSUME NEW i \in pendingByLocalId
        PROVE  /\ pendingByProviderId[<<SessionOf(interactions[i].run), interactions[i].permission>>] = i
               /\ i \notin runs[interactions[i].run].resolved
               /\ \/ interactions[i].late
                  \/ /\ ~Terminal(interactions[i].run) /\ client = "open"
                     /\ activeBySession[SessionOf(interactions[i].run)] = interactions[i].run
    <3>1. i \in 1..Len(interactions)
      BY DEF OpenCodeInv, Typed, TypeOK
    <3>2. PICK r \in Runs : r = interactions[i].run /\ runs[r].open = "opened"
      BY <3>1, PermissionFacts DEF RunOf
    <3>3. pendingByProviderId[KeyOf(i)] = i /\ (interactions[i].late \/ ~Terminal(r)) /\ i \notin runs[r].resolved
      BY <3>2 DEF OpenCodeInv, PendingInv, RunOf
    <3>4. ~Terminal(r) => activeBySession[SessionOf(r)] = r /\ client = "open"
      BY <3>2, <3>3 DEF OpenCodeInv, ActiveInv, Underway
    <3> QED BY <3>2, <3>3, <3>4 DEF KeyOf, RunOf
  <2>2. \A i \in 1..Len(interactions) :
          runs[interactions[i].run].result \in Statuses /\ ~interactions[i].late => i \in runs[interactions[i].run].resolved
    BY DEF OpenCodeInv, PendingInv, RunOf
  <2>3. \A key \in Sessions \X Permissions :
          pendingByProviderId[key] # 0 => pendingByProviderId[key] \in pendingByLocalId
    BY DEF OpenCodeInv, PendingInv
  <2> QED BY <2>1, <2>2, <2>3 DEF PermissionsSettled
<1>3. CancelTruthful
  BY DEF OpenCodeInv, CancelInv, CancelFits, CancelTruthful, Terminal
<1> QED BY <1>1, <1>2, <1>3 DEF OpenCodeSound

(* However requests, events, permissions and cancellations interleave and get lost: the Provider     *)
(* never works on two things of this Client in one Session, also when the Client has stopped waiting *)
(* for the first; permissions are settled once; and cancel() says what became of the Run.            *)
THEOREM OpenCodeIsSound == Spec => []OpenCodeSound
<1>1. OpenCodeInv /\ [Next]_vars => OpenCodeInv'
  BY OpenCodeInvStep
<1> QED BY <1>1, OpenCodeInitHolds, OpenCodeInvImplies, PTL DEF Spec

-------------------------------------------------------------------------------
(* The contract. *)
LEMMA ContractTyped ==
  ASSUME OpenCodeInv, NEW r \in Runs
  PROVE  /\ StatusOfRun(r) \in {"none", "active"} \cup Terminals
         /\ Requested(r) \subseteq 1..MaxInteractions /\ runs[r].resolved \subseteq Requested(r)
<1>1. runs[r] \in RunRec
  BY RunFacts
<1>2. StatusOfRun(r) \in {"none", "active"} \cup Terminals
  BY <1>1 DEF StatusOfRun, RunRec, Terminal
<1>3. Len(interactions) \in Nat /\ Len(interactions) <= MaxInteractions
  BY DEF OpenCodeInv, Typed, TypeOK
<1>4. Requested(r) \subseteq 1..MaxInteractions
  BY <1>3, BoundAssumption DEF Requested
<1>5. runs[r].resolved \subseteq Requested(r)
  BY DEF OpenCodeInv, PendingInv, RunOf, Requested
<1> QED BY <1>2, <1>4, <1>5

LEMMA OpenCodeRefines ==
  ASSUME OpenCodeInv, OpenCodeInv', RunsMove
  PROVE  Contract!Next
<1>1. ASSUME NEW r \in Runs
      PROVE  /\ StatusOfRun(r)' \in {"none", "active"} \cup Terminals /\ StatusOfRun(r) \in {"none", "active"} \cup Terminals
             /\ Requested(r)' \in SUBSET (1..MaxInteractions) /\ runs'[r].resolved \in SUBSET (1..MaxInteractions)
             /\ runs'[r].resolved \subseteq Requested(r)'
  BY ContractTyped, BoundAssumption
     DEF OpenCodeInv, Typed, TypeOK, RunRec, CancelStates, StatusOfRun, Terminal, Requested, PendingInv, RunOf
<1>2. ASSUME NEW r \in Runs
      PROVE  Contract!RunStep(r)
  <2>1. Moved(r)
    BY DEF RunsMove
  <2>2. CASE StatusOfRun(r)' = StatusOfRun(r) /\ Requested(r)' = Requested(r) /\ runs'[r].resolved = runs[r].resolved
    BY <2>2 DEF StatusOfRun, Requested, Terminal, Contract!Rest, Contract!Silent, Contract!RunStep
  <2>3. CASE /\ \/ StatusOfRun(r) = "none" /\ StatusOfRun(r)' = "active"
                \/ StatusOfRun(r) = "active" /\ StatusOfRun(r)' # "none"
             /\ Requested(r) \subseteq Requested(r)' /\ runs[r].resolved \subseteq runs'[r].resolved
    BY <1>1, <2>3
       DEF Requested, Contract!Reports, StatusOfRun, Terminal, Terminals, Contract!RunStep, Contract!Start,
          Contract!Progress, Contract!Settle, Contract!RunStatus
  <2> QED BY <2>1, <2>2, <2>3 DEF Moved
<1> QED BY <1>1, <1>2 DEF StatusOfRun, Requested, Terminal, Terminals, Contract!Next, Contract!RunStatus

(* A Run starts once, as its stream opens, reports permissions and their resolution while it is       *)
(* active, ends once, and says nothing after that: what HarnessRun promises its host.                *)
THEOREM OpenCodeImplementsRunContract == Spec => ImplementsRunContract
<1>1. Init => Contract!Init
  <2> SUFFICES ASSUME Init PROVE Contract!Init
    OBVIOUS
  <2>1. \A r \in Runs : {i \in 1..Len(interactions) : interactions[i].run = r /\ ~interactions[i].late} = {}
    BY DEF Init
  <2> QED BY <2>1 DEF Init, Contract!Init, Terminal
<1>2. OpenCodeInv /\ [Next]_vars => OpenCodeInv' /\ [Contract!Next]_(Contract!runVars)
  BY OpenCodeInvStep, OpenCodeRefines
<1> QED BY <1>1, <1>2, OpenCodeInitHolds, PTL DEF Spec, ImplementsRunContract, Contract!Spec

================================================================================
