------------------------------ MODULE OpenClawProofs ------------------------------
(* Proofs about OpenClawAdapter: Sessions, reservations and forks exclude each other, nothing whose  *)
(* outcome is unknown is used again, approvals and cancellations are truthful, and its Runs keep the *)
(* contract. Most definitions are of the values a step computes before it aborts the connection or   *)
(* not: what `now` makes of the Runs and `apps` of the approvals.                                    *)
EXTENDS MCOpenClawAdapter, FiniteSetTheorems, TLAPS

RunRec ==
  [phase : {"none", "active"} \cup Terminals, session : Ids \cup {NoId},
   prompt : {"none", "waiting", "refused", "lost", "uncertain", "settled"},
   cancel : {"none", "sending", "settling"} \cup CancelModes,
   queued : 0..MaxRunEvents, waiting : BOOLEAN, tail : SUBSET Parts, overflow : BOOLEAN,
   requested : SUBSET Approvals, resolved : SUBSET Approvals]

ApprovalRec == [run : Runs \cup {NoRun}, state : {"none", "pending", "selected", "cancelled"},
                told : {"none", "asked", "selected", "cancelled", "released"}]

Typed == TypeOK /\ runs \in [Runs -> RunRec] /\ approvals \in [Approvals -> ApprovalRec]

-------------------------------------------------------------------------------
(* Sessions: who holds an identifier. *)
CallInv ==
  \A c \in Calls :
    /\ handles[c] # "none" <=> calls[c].at = "done"
    /\ calls[c].at \in {"done", "resuming"} => calls[c].id \in Ids
    /\ calls[c].at \in {"idle", "creating session"} => calls[c].id = NoId
    /\ calls[c].at = "resuming" => calls[c].id \in reservations \ sessions
    /\ Live(c) => calls[c].id \in sessions
    /\ handles[c] = "closing" => calls[c].id \in reservations
    /\ handles[c] = "closing" => ~HasActiveRun(calls[c].id)

HolderInv ==
  \A c, d \in Calls : calls[c].id = calls[d].id =>
    /\ Live(c) /\ Live(d) => c = d
    /\ calls[c].at = "resuming" /\ calls[d].at = "resuming" => c = d

(* What ends with the connection. *)
EndInv ==
  /\ closed => acp # "open"
  /\ forking => activeRun = NoRun /\ reservations = {}
  /\ \A c \in Calls : calls[c].at = "uncertain" => closed
  /\ \A c \in Calls : handles[c] = "unsafe" => closed \/ acp # "open"

-------------------------------------------------------------------------------
(* A Run by itself. *)
Fits(run) ==
  /\ run \in RunRec /\ IsFiniteSet(run.requested) /\ run.resolved \subseteq run.requested
  /\ run.phase = "none" => /\ run.prompt = "none" /\ run.cancel = "none" /\ run.requested = {}
                           /\ ~run.overflow /\ run.queued = 0 /\ ~run.waiting
  /\ run.phase # "none" => run.session \in Ids /\ run.prompt # "none"
  /\ run.phase = "active" => run.queued < MaxRunEvents

(* What cancel() was told, of a client that is closed or not. *)
CancelFits(run, over) ==
  /\ run.cancel = "native" => run.phase = "cancelled"
  /\ run.cancel = "already_terminal" => run.phase \in {"completed", "failed"}
  /\ run.cancel = "connection_aborted" => run.phase \in Terminals /\ over

(* A Run that ends with its connection has resolved what it requested, if there was room. *)
Accounted(run) == run.overflow \/ run.requested = run.resolved

RunFits(run, r, apps, active, over) ==
  /\ Fits(run) /\ CancelFits(run, over)
  /\ run.phase = "active" <=> active = r
  /\ run.phase = "active" => /\ run.prompt \in {"waiting", "refused", "lost"} /\ ~over /\ ~run.overflow
                             /\ run.requested = run.resolved \cup PendingOf(r, apps)
  /\ run.prompt \in {"waiting", "refused", "lost"} /\ ~over => run.phase = "active"
  /\ run.prompt = "uncertain" => over
  /\ run.phase = "connection_aborted" => over /\ Accounted(run)

(* An approval, and what the Agent was told of it. *)
ApprovalFits(a, now, apps, active) ==
  LET app == apps[a] IN
  /\ app.state \in {"pending", "selected"} => app.run \in Runs
  /\ app.state = "pending" => app.run = active
  /\ app.state = "selected" => a \in now[app.run].resolved \/ now[app.run].overflow
  /\ app.told = "none" => app.state = "none"
  /\ app.told = "selected" => app.state = "selected"
  /\ app.told = "cancelled" /\ app.state \in {"pending", "selected"} =>
       \E r \in Runs : now[r].session = now[app.run].session /\ now[r].cancel # "none"

RunsInv ==
  /\ \A r \in Runs : RunFits(runs[r], r, approvals, activeRun, closed)
  /\ \A a \in Approvals : ApprovalFits(a, runs, approvals, activeRun)

OpenClawInv == Typed /\ CallInv /\ HolderInv /\ EndInv /\ RunsInv

(* What a step may make of a Run. *)
Moved(old, new) ==
  \/ new.phase = old.phase /\ new.requested = old.requested /\ new.resolved = old.resolved
  \/ /\ \/ old.phase = "none" /\ new.phase = "active"
        \/ old.phase = "active" /\ new.phase # "none"
     /\ old.requested \subseteq new.requested /\ old.resolved \subseteq new.resolved

RunsMove == \A r \in Runs : Moved(runs[r], runs'[r])

-------------------------------------------------------------------------------
(* The operators. *)
LEMMA SubsetOfSize ==
  ASSUME NEW A, IsFiniteSet(A), NEW k \in Nat, k <= Cardinality(A)
  PROVE  \E B \in SUBSET A : Cardinality(B) = k
<1>1. Cardinality(A) \in Nat /\ ExistsBijection(1..Cardinality(A), A)
  BY FS_CardinalityType
<1>2. PICK f \in Bijection(1..Cardinality(A), A) : TRUE
  BY <1>1 DEF ExistsBijection
<1>3. f \in [1..Cardinality(A) -> A] /\ \A i, j \in 1..Cardinality(A) : f[i] = f[j] => i = j
  BY <1>2 DEF Bijection, Injection, IsInjective
<1>4. PICK B : B = {f[i] : i \in 1..k}
  OBVIOUS
<1>5. PICK g : g = [i \in 1..k |-> f[i]]
  OBVIOUS
<1>6. 1..k \subseteq 1..Cardinality(A)
  BY <1>1
<1>7. B \in SUBSET A
  BY <1>3, <1>4, <1>6
<1>8. g \in [1..k -> B] /\ (\A i, j \in 1..k : g[i] = g[j] => i = j) /\ \A b \in B : \E i \in 1..k : g[i] = b
  BY <1>3, <1>4, <1>5, <1>6
<1>9. g \in Bijection(1..k, B)
  BY <1>8 DEF Bijection, Injection, Surjection, IsInjective
<1>10. IsFiniteSet(1..k) /\ Cardinality(1..k) = k
  BY FS_Interval
<1>11. Cardinality(B) = k
  BY <1>9, <1>10, FS_Bijection DEF ExistsBijection
<1> QED BY <1>7, <1>11

LEMMA SpaceType ==
  ASSUME NEW run \in RunRec
  PROVE  Space(run) \in Int /\ (run.queued < MaxRunEvents => Space(run) \in Nat)
BY CapacityAssumption DEF RunRec, Space

(* What Enqueue leaves of a queue that has room. *)
LEMMA EnqueueFacts ==
  ASSUME NEW run \in RunRec, NEW n \in Nat, run.queued < MaxRunEvents, n <= Space(run)
  PROVE  LET new == Enqueue(run, n) IN
         /\ new \in RunRec /\ new.queued < MaxRunEvents
         /\ new = [run EXCEPT !.queued = new.queued, !.waiting = new.waiting]
         /\ n = Space(run) => Space(new) = 0
<1> DEFINE new == Enqueue(run, n)
<1>1. /\ run.queued \in Nat /\ run.waiting \in BOOLEAN
  BY DEF RunRec
<1>2. PICK q : q = run.queued + n - (IF run.waiting /\ n > 0 THEN 1 ELSE 0)
  OBVIOUS
<1>3. PICK w : w = (run.waiting /\ n = 0)
  OBVIOUS
<1>4. q \in 0..MaxRunEvents /\ q < MaxRunEvents
  BY <1>1, <1>2, CapacityAssumption DEF Space
<1>5. w \in BOOLEAN
  BY <1>1, <1>3
<1>6. new = [run EXCEPT !.queued = q, !.waiting = w]
  BY <1>2, <1>3 DEF Enqueue, RunRec
<1>7. new \in RunRec /\ new.queued = q /\ new.waiting = w
  BY <1>4, <1>5, <1>6 DEF RunRec
<1>8. ASSUME n = Space(run) PROVE Space(new) = 0
  <2>1. CASE n = 0
    <3>1. ~run.waiting /\ run.queued = MaxRunEvents - 1
      BY <1>1, <1>8, <2>1, CapacityAssumption DEF Space
    <3>2. ~w /\ q = run.queued
      BY <1>1, <1>2, <1>3, <2>1, <3>1
    <3> QED BY <1>7, <3>1, <3>2, CapacityAssumption DEF Space
  <2>2. CASE n > 0
    <3>1. ~w /\ q = MaxRunEvents - 1
      <4>1. ~w /\ n = MaxRunEvents - 1 - run.queued + (IF run.waiting THEN 1 ELSE 0)
        <5>1. n # 0
          BY <2>2
        <5>2. n = Space(run)
          BY <1>8
        <5> QED BY <1>3, <5>1, <5>2 DEF Space
      <4>2. CASE run.waiting
        BY <1>1, <1>2, <2>2, <4>1, <4>2, CapacityAssumption
      <4>3. CASE ~run.waiting
        BY <1>1, <1>2, <2>2, <4>1, <4>3, CapacityAssumption
      <4> QED BY <4>2, <4>3
    <3> QED BY <1>7, <3>1, CapacityAssumption DEF Space
  <2> QED BY <2>1, <2>2
<1> QED BY <1>4, <1>6, <1>7, <1>8

LEMMA EmitFacts ==
  ASSUME NEW run \in RunRec, run.phase = "active", run.queued < MaxRunEvents, NEW new, new = Emit(run)
  PROVE  /\ new \in RunRec /\ new.queued < MaxRunEvents
         /\ new.phase = "active" /\ new.session = run.session /\ new.prompt = run.prompt /\ new.cancel = run.cancel
         /\ new.requested = run.requested /\ new.resolved = run.resolved /\ new.tail = run.tail
         /\ run.overflow => new.overflow
         /\ new.overflow /\ ~run.overflow => Space(run) = 0 /\ Space(new) = 0
<1>1. Space(run) \in Nat
  BY SpaceType
<1>2. CASE Space(run) > 0
  <2>1. new = Enqueue(run, 1)
    BY <1>2 DEF Emit
  <2>2. 1 \in Nat /\ 1 <= Space(run)
    BY <1>1, <1>2
  <2>3. /\ new \in RunRec /\ new.queued < MaxRunEvents
        /\ new = [run EXCEPT !.queued = new.queued, !.waiting = new.waiting]
        /\ 1 = Space(run) => Space(new) = 0
    BY <2>1, <2>2, EnqueueFacts
  <2>4. /\ new.phase = "active" /\ new.session = run.session /\ new.prompt = run.prompt /\ new.cancel = run.cancel
        /\ new.requested = run.requested /\ new.resolved = run.resolved /\ new.tail = run.tail
        /\ new.overflow = run.overflow
    BY <2>3 DEF RunRec
  <2> QED BY <2>3, <2>4
<1>3. CASE ~(Space(run) > 0)
  <2>1. new = [run EXCEPT !.overflow = TRUE] /\ Space(run) = 0
    BY <1>1, <1>3 DEF Emit
  <2>2. Space(new) = 0
    BY <2>1 DEF Space, RunRec
  <2>3. /\ new \in RunRec /\ new.overflow = TRUE /\ new.queued = run.queued
        /\ new.phase = "active" /\ new.session = run.session /\ new.prompt = run.prompt /\ new.cancel = run.cancel
        /\ new.requested = run.requested /\ new.resolved = run.resolved /\ new.tail = run.tail
    BY <2>1 DEF RunRec
  <2> QED BY <2>1, <2>2, <2>3
<1> QED BY <1>2, <1>3

LEMMA ResolvesFacts ==
  ASSUME NEW run \in RunRec, run.queued < MaxRunEvents, NEW A, IsFiniteSet(A)
  PROVE  LET fit == CHOOSE B \in Resolves(run, A) : TRUE IN
         /\ fit \in SUBSET A /\ IsFiniteSet(fit) /\ Cardinality(fit) \in Nat /\ Cardinality(fit) <= Space(run)
         /\ fit # A => Cardinality(fit) = Space(run)
         /\ Space(run) = 0 => fit = {}
<1>1. Space(run) \in Nat /\ Cardinality(A) \in Nat
  BY SpaceType, FS_CardinalityType
<1>2. PICK k : k = Min({Space(run), Cardinality(A)})
  OBVIOUS
<1>3. k \in {Space(run), Cardinality(A)} /\ k <= Space(run) /\ k <= Cardinality(A)
  <2>1. PICK m \in {Space(run), Cardinality(A)} : \A y \in {Space(run), Cardinality(A)} : m <= y
    BY <1>1
  <2> QED BY <1>1, <1>2, <2>1 DEF Min
<1>4. PICK fit : fit = CHOOSE B \in Resolves(run, A) : TRUE
  OBVIOUS
<1>5. \E B \in SUBSET A : Cardinality(B) = k
  BY <1>1, <1>3, SubsetOfSize
<1>6. fit \in SUBSET A /\ Cardinality(fit) = k
  BY <1>2, <1>4, <1>5 DEF Resolves
<1>7. IsFiniteSet(fit) /\ (Cardinality(A) = Cardinality(fit) => fit = A)
  BY <1>6, FS_Subset
<1>8. k = 0 => fit = {}
  BY <1>6, <1>7, FS_EmptySet
<1>9. Space(run) = 0 => k = 0
  BY <1>1, <1>3
<1> QED BY <1>1, <1>3, <1>4, <1>6, <1>7, <1>8, <1>9

LEMMA ResolveFacts ==
  ASSUME NEW run \in RunRec, run.phase = "active", run.queued < MaxRunEvents,
         NEW A \in SUBSET Approvals, IsFiniteSet(A), NEW new, new = Resolve(run, A)
  PROVE  /\ new \in RunRec /\ new.queued < MaxRunEvents
         /\ new.phase = "active" /\ new.session = run.session /\ new.prompt = run.prompt /\ new.cancel = run.cancel
         /\ new.requested = run.requested /\ new.tail = run.tail /\ (run.overflow => new.overflow)
         /\ new.overflow /\ ~run.overflow => Space(new) = 0
         /\ \E fit \in SUBSET A : /\ new.resolved = run.resolved \cup fit
                                  /\ fit # A => new.overflow
                                  /\ Space(run) = 0 => fit = {}
<1>1. PICK fit : fit = CHOOSE B \in Resolves(run, A) : TRUE
  OBVIOUS
<1>2. /\ fit \in SUBSET A /\ Cardinality(fit) \in Nat /\ Cardinality(fit) <= Space(run)
      /\ fit # A => Cardinality(fit) = Space(run)
      /\ Space(run) = 0 => fit = {}
  BY <1>1, ResolvesFacts
<1>3. PICK put : put = Enqueue(run, Cardinality(fit))
  OBVIOUS
<1>4. /\ put \in RunRec /\ put.queued < MaxRunEvents
      /\ put = [run EXCEPT !.queued = put.queued, !.waiting = put.waiting]
      /\ Cardinality(fit) = Space(run) => Space(put) = 0
  BY <1>2, <1>3, EnqueueFacts
<1>5. new = [put EXCEPT !.resolved = @ \cup fit, !.overflow = @ \/ fit # A]
  BY <1>1, <1>3 DEF Resolve
<1>6. /\ put.phase = "active" /\ put.session = run.session /\ put.prompt = run.prompt /\ put.cancel = run.cancel
      /\ put.requested = run.requested /\ put.resolved = run.resolved /\ put.tail = run.tail /\ put.overflow = run.overflow
  BY <1>4 DEF RunRec
<1>7. /\ new.resolved = put.resolved \cup fit /\ new.overflow = (put.overflow \/ fit # A)
      /\ new.queued = put.queued /\ new.waiting = put.waiting /\ new.phase = put.phase /\ new.session = put.session
      /\ new.prompt = put.prompt /\ new.cancel = put.cancel /\ new.requested = put.requested /\ new.tail = put.tail
  BY <1>4, <1>5 DEF RunRec
<1>8. new \in RunRec
  <2>1. put.resolved \cup fit \in SUBSET Approvals /\ (put.overflow \/ fit # A) \in BOOLEAN
    BY <1>2, <1>4 DEF RunRec
  <2> QED BY <1>4, <1>5, <2>1 DEF RunRec
<1>9. Space(new) = Space(put)
  BY <1>7 DEF Space
<1>10. new.overflow /\ ~run.overflow => Space(new) = 0
  BY <1>2, <1>4, <1>6, <1>7, <1>9
<1>11. (run.overflow => new.overflow) /\ (fit # A => new.overflow)
  BY <1>6, <1>7
<1> QED BY <1>2, <1>4, <1>6, <1>7, <1>8, <1>10, <1>11

LEMMA FinishFacts ==
  ASSUME NEW run \in RunRec, run.phase = "active", run.queued < MaxRunEvents,
         NEW status \in Terminals, NEW new, new = Finish(run, status)
  PROVE  /\ new \in RunRec /\ new.phase \in {status, "connection_aborted"}
         /\ new.session = run.session /\ new.prompt = run.prompt /\ new.cancel = run.cancel
         /\ new.requested = run.requested /\ new.resolved = run.resolved
         /\ run.overflow => new.overflow
         /\ new.phase # status => new.overflow
<1>1. Space(run) \in Nat
  BY SpaceType
<1>2. Cardinality(run.tail) \in Nat
  <2>1. IsFiniteSet(Parts)
    <3>1. IsFiniteSet({"message"}) /\ IsFiniteSet({"reasoning"})
      BY FS_Singleton
    <3>2. IsFiniteSet({"message"} \cup {"reasoning"})
      BY <3>1, FS_Union
    <3> QED BY <3>2, {"message"} \cup {"reasoning"} = Parts DEF Parts
  <2>2. run.tail \in SUBSET Parts
    BY DEF RunRec
  <2>3. IsFiniteSet(run.tail)
    BY <2>1, <2>2, FS_Subset
  <2> QED BY <2>3, FS_CardinalityType
<1>3. PICK n : n = IF Cardinality(run.tail) <= Space(run) THEN Cardinality(run.tail) ELSE Space(run)
  OBVIOUS
<1>4. n \in Nat /\ n <= Space(run)
  BY <1>1, <1>2, <1>3
<1>5. PICK last : last = Enqueue(run, n)
  OBVIOUS
<1>6. /\ last \in RunRec /\ last.queued < MaxRunEvents
      /\ last = [run EXCEPT !.queued = last.queued, !.waiting = last.waiting]
  BY <1>4, <1>5, EnqueueFacts
<1>7. /\ last.session = run.session /\ last.prompt = run.prompt /\ last.cancel = run.cancel
      /\ last.requested = run.requested /\ last.resolved = run.resolved /\ last.overflow = run.overflow
  BY <1>6 DEF RunRec
<1>8. PICK fits : fits = (Cardinality(run.tail) <= Space(run))
  OBVIOUS
<1>9. PICK phase : phase = IF fits THEN status ELSE "connection_aborted"
  OBVIOUS
<1>10. PICK q : q = last.queued + (IF last.waiting THEN 0 ELSE 1)
  OBVIOUS
<1>11. q \in 0..MaxRunEvents
  BY <1>6, <1>10, CapacityAssumption DEF RunRec
<1>12. new = [last EXCEPT !.phase = phase, !.overflow = @ \/ ~fits, !.queued = q, !.waiting = FALSE]
  BY <1>3, <1>5, <1>6, <1>8, <1>9, <1>10 DEF Finish, RunRec
<1>13. (last.overflow \/ ~fits) \in BOOLEAN /\ phase \in Terminals
  BY <1>6, <1>9 DEF RunRec, Terminals
<1>14. new \in RunRec
  BY <1>6, <1>11, <1>12, <1>13 DEF RunRec
<1>15. /\ new.phase = phase /\ new.overflow = (last.overflow \/ ~fits) /\ new.session = last.session
       /\ new.prompt = last.prompt /\ new.cancel = last.cancel
       /\ new.requested = last.requested /\ new.resolved = last.resolved
  BY <1>6, <1>12 DEF RunRec
<1> QED BY <1>7, <1>9, <1>14, <1>15

-------------------------------------------------------------------------------
(* The end of the connection. *)

(* A Run as it may be when its connection is aborted: one that is active is full, or has requested   *)
(* what is resolved and what pends.                                                                 *)
Ending(run, r, apps, active) ==
  /\ Fits(run)
  /\ run.phase # "active" => CancelFits(run, TRUE) /\ (run.phase = "connection_aborted" => Accounted(run))
  /\ run.phase = "active" => /\ r = active /\ run.cancel \notin {"native", "already_terminal"}
                             /\ IsFiniteSet(PendingOf(r, apps))
                             /\ run.overflow => Space(run) = 0
                             /\ ~run.overflow => run.requested = run.resolved \cup PendingOf(r, apps)

(* What is left of it. *)
EndsAs(old, new) ==
  /\ new.session = old.session /\ new.cancel = old.cancel /\ (old.overflow => new.overflow)
  /\ new.requested = old.requested /\ old.resolved \subseteq new.resolved
  /\ \/ new.phase = old.phase /\ new.resolved = old.resolved
     \/ old.phase = "active" /\ new.phase \in Terminals

LEMMA ActiveEnds ==
  ASSUME NEW run, NEW r \in Runs, NEW apps, Ending(run, r, apps, r), run.phase = "active",
         NEW new, new = Finish(Resolve(run, PendingOf(r, apps)), "connection_aborted")
  PROVE  Fits(new) /\ new.phase = "connection_aborted" /\ Accounted(new) /\ EndsAs(run, new)
<1>1. run \in RunRec /\ run.queued < MaxRunEvents
  BY DEF Ending, Fits
<1>2. IsFiniteSet(PendingOf(r, apps)) /\ PendingOf(r, apps) \in SUBSET Approvals
  BY DEF Ending, PendingOf
<1>3. PICK mid : mid = Resolve(run, PendingOf(r, apps))
  OBVIOUS
<1>4. /\ mid \in RunRec /\ mid.queued < MaxRunEvents
      /\ mid.phase = "active" /\ mid.session = run.session /\ mid.prompt = run.prompt /\ mid.cancel = run.cancel
      /\ mid.requested = run.requested /\ mid.tail = run.tail /\ (run.overflow => mid.overflow)
      /\ \E fit \in SUBSET PendingOf(r, apps) : /\ mid.resolved = run.resolved \cup fit
                                                /\ fit # PendingOf(r, apps) => mid.overflow
                                                /\ Space(run) = 0 => fit = {}
  BY <1>1, <1>2, <1>3, ResolveFacts
<1>5. /\ new \in RunRec /\ new.phase = "connection_aborted"
      /\ new.session = mid.session /\ new.prompt = mid.prompt /\ new.cancel = mid.cancel
      /\ new.requested = mid.requested /\ new.resolved = mid.resolved
      /\ mid.overflow => new.overflow
  BY <1>3, <1>4, FinishFacts DEF Terminals
<1>6. run.resolved \subseteq new.resolved /\ new.resolved \subseteq new.requested /\ Accounted(new)
  <2>1. PICK fit \in SUBSET PendingOf(r, apps) : /\ mid.resolved = run.resolved \cup fit
                                                 /\ fit # PendingOf(r, apps) => mid.overflow
                                                 /\ Space(run) = 0 => fit = {}
    BY <1>4
  <2>2. CASE run.overflow
    BY <1>4, <1>5, <2>1, <2>2 DEF Ending, Fits, Accounted
  <2>3. CASE ~run.overflow
    BY <2>3, <1>4, <1>5, <2>1 DEF Ending, Accounted
  <2> QED BY <2>2, <2>3
<1>7. Fits(new)
  BY <1>4, <1>5, <1>6 DEF Ending, Fits
<1> QED BY <1>4, <1>5, <1>6, <1>7 DEF EndsAs, Terminals

(* A Run of a closed Client. *)
LEMMA EndedFits ==
  ASSUME NEW run, NEW r \in Runs, NEW apps, NEW later, Ending(run, r, apps, NoRun)
  PROVE  RunFits(run, r, later, NoRun, TRUE)
<1>1. r # NoRun
  BY NullAssumption
<1>2. run.phase # "active"
  BY <1>1 DEF Ending
<1> QED BY <1>1, <1>2 DEF Ending, RunFits

(* What AbortRun makes of a Run, and Lost of that. *)
Aborted(run, r, apps, active) ==
  IF r = active THEN Finish(Resolve(run, PendingOf(r, apps)), "connection_aborted") ELSE run

Forsaken(run) == IF run.prompt = "waiting" THEN [run EXCEPT !.prompt = "lost"] ELSE run

LEMMA AbortedRun ==
  ASSUME NEW run, NEW r \in Runs, NEW apps, NEW later, NEW active, Ending(run, r, apps, active)
  PROVE  /\ RunFits(Forsaken(Aborted(run, r, apps, active)), r, later, NoRun, TRUE)
         /\ EndsAs(run, Forsaken(Aborted(run, r, apps, active)))
<1> DEFINE mid == Aborted(run, r, apps, active)
           new == Forsaken(mid)
<1>1. /\ Fits(mid) /\ CancelFits(mid, TRUE) /\ mid.phase # "active" /\ EndsAs(run, mid)
      /\ mid.phase = "connection_aborted" => Accounted(mid)
  <2>1. CASE run.phase = "active"
    BY <2>1, ActiveEnds DEF Ending, Aborted, EndsAs, CancelFits, Terminals
  <2>2. CASE run.phase # "active"
    BY <2>2 DEF Finish, Resolve, Aborted, Ending, EndsAs
  <2> QED BY <2>1, <2>2
<1>2. mid \in RunRec
  BY <1>1 DEF Fits
<1>3. /\ new \in RunRec /\ new.phase = mid.phase /\ new.session = mid.session /\ new.cancel = mid.cancel
      /\ new.overflow = mid.overflow /\ new.requested = mid.requested /\ new.resolved = mid.resolved
      /\ new.queued = mid.queued /\ new.waiting = mid.waiting
      /\ mid.prompt = "none" <=> new.prompt = "none"
  BY <1>2 DEF RunRec, Forsaken
<1>4. Fits(new)
  BY <1>1, <1>3 DEF Fits
<1>5. EndsAs(run, new) /\ CancelFits(new, TRUE) /\ (new.phase = "connection_aborted" => Accounted(new))
  BY <1>1, <1>3 DEF EndsAs, CancelFits, Accounted
<1> QED BY <1>1, <1>3, <1>4, <1>5, NullAssumption DEF RunFits

(* What an approval was told and given stays so while its Run only goes on. *)
GoesOn(old, new) ==
  /\ new.session = old.session /\ (old.overflow => new.overflow) /\ old.resolved \subseteq new.resolved
  /\ old.cancel # "none" => new.cancel # "none"

LEMMA ApprovalStays ==
  ASSUME NEW a \in Approvals, NEW now, NEW new, NEW apps, NEW active, ApprovalFits(a, now, apps, active),
         \A r \in Runs : GoesOn(now[r], new[r])
  PROVE  ApprovalFits(a, new, apps, active)
<1>1. CASE apps[a].run \in Runs
  BY <1>1 DEF ApprovalFits, GoesOn
<1>2. CASE apps[a].run \notin Runs
  BY <1>2 DEF ApprovalFits
<1> QED BY <1>1, <1>2

LEMMA SettledFits ==
  ASSUME NEW now, NEW active, NEW later, NEW apps \in [Approvals -> ApprovalRec],
         \A a \in Approvals : ApprovalFits(a, now, apps, active)
  PROVE  /\ SettleApprovals(active, apps) \in [Approvals -> ApprovalRec]
         /\ \A a \in Approvals : ApprovalFits(a, now, SettleApprovals(active, apps), later)
<1> DEFINE settled == SettleApprovals(active, apps)
<1>1. ASSUME NEW a \in Approvals
      PROVE  settled[a] \in ApprovalRec /\ ApprovalFits(a, now, settled, later)
  BY DEF SettleApprovals, PendingOf, ApprovalRec, ApprovalFits
<1>2. settled \in [Approvals -> ApprovalRec]
  BY <1>1 DEF SettleApprovals
<1> QED BY <1>1, <1>2

LEMMA ReleasedFits ==
  ASSUME NEW now, NEW active, NEW apps \in [Approvals -> ApprovalRec],
         \A a \in Approvals : ApprovalFits(a, now, apps, active)
  PROVE  /\ Released(apps) \in [Approvals -> ApprovalRec]
         /\ \A a \in Approvals : ApprovalFits(a, now, Released(apps), active)
         /\ \A r : PendingOf(r, Released(apps)) = PendingOf(r, apps)
<1>1. ASSUME NEW a \in Approvals
      PROVE  /\ Released(apps)[a] \in ApprovalRec /\ ApprovalFits(a, now, Released(apps), active)
             /\ Released(apps)[a].state = apps[a].state /\ Released(apps)[a].run = apps[a].run
  BY DEF Released, ApprovalRec, ApprovalFits
<1>2. Released(apps) \in [Approvals -> ApprovalRec]
  BY <1>1 DEF Released
<1> QED BY <1>1, <1>2 DEF PendingOf

LEMMA ApprovalsEnd ==
  ASSUME NEW now, NEW new, NEW active, NEW apps \in [Approvals -> ApprovalRec],
         \A a \in Approvals : ApprovalFits(a, now, apps, active), \A r \in Runs : EndsAs(now[r], new[r])
  PROVE  /\ Released(SettleApprovals(active, apps)) \in [Approvals -> ApprovalRec]
         /\ \A a \in Approvals : ApprovalFits(a, new, Released(SettleApprovals(active, apps)), NoRun)
<1>1. \A r \in Runs : GoesOn(now[r], new[r])
  BY DEF EndsAs, GoesOn
<1>2. \A a \in Approvals : ApprovalFits(a, new, apps, active)
  BY <1>1, ApprovalStays
<1>3. /\ SettleApprovals(active, apps) \in [Approvals -> ApprovalRec]
      /\ \A a \in Approvals : ApprovalFits(a, new, SettleApprovals(active, apps), NoRun)
  BY <1>2, SettledFits
<1> QED BY <1>3, ReleasedFits

-------------------------------------------------------------------------------
(* What a step keeps. *)

(* Of Runs and approvals. *)
RunsKept ==
  /\ runs' \in [Runs -> RunRec] /\ approvals' \in [Approvals -> ApprovalRec]
  /\ RunsInv' /\ RunsMove

(* Of the connection. *)
ChannelKept ==
  /\ closed' \in BOOLEAN /\ acp' \in {"open", "failed", "incompatible", "closed"}
  /\ events' \in Seq([session : Ids \cup {NoId}, part : Parts \cup {"other"}])
  /\ sent' \in 0..MaxEvents /\ Len(events') <= sent'
  /\ (closed => closed') /\ (closed' => acp' # "open") /\ (acp # "open" => acp' # "open")

ConnectionKept ==
  /\ ChannelKept /\ activeRun' \in {activeRun, NoRun}
  /\ activeRun' # NoRun => runs'[activeRun].session = runs[activeRun].session

(* Of the Sessions. *)
SessionsKept ==
  /\ sessions' \subseteq Ids /\ reservations' \subseteq Ids /\ forking' \in BOOLEAN
  /\ calls' \in [Calls -> [id : Ids \cup {NoId}, at : Forking \cup
                   {"idle", "creating session", "resuming", "done", "failed", "uncertain"}]]
  /\ handles' \in [Calls -> {"none", "open", "closing", "unsafe", "closed"}]
  /\ CallInv' /\ HolderInv' /\ EndInv'

Context ==
  /\ Typed /\ CallInv /\ HolderInv /\ EndInv /\ RunsInv
  /\ activeRun \in Runs => runs[activeRun].phase = "active" /\ ~closed
  /\ closed => activeRun = NoRun
  /\ \A r \in Runs : r # NoRun

LEMMA InContext == OpenClawInv => Context
<1> SUFFICES ASSUME OpenClawInv PROVE Context
  OBVIOUS
<1>1. Typed /\ CallInv /\ HolderInv /\ EndInv /\ RunsInv /\ activeRun \in Runs \cup {NoRun}
  BY DEF OpenClawInv, Typed, TypeOK
<1>2. activeRun \in Runs => runs[activeRun].phase = "active" /\ ~closed
  BY <1>1 DEF RunsInv, RunFits
<1> QED BY <1>1, <1>2, NullAssumption DEF Context

LEMMA Assembled ==
  ASSUME RunsKept, ChannelKept, activeRun' \in Runs \cup {NoRun}, SessionsKept, pump' \in {"running", "ended"}
  PROVE  OpenClawInv' /\ RunsMove
<1>1. \A r \in Runs : runs'[r] \in RunRec
  BY DEF RunsKept
<1>2. \A a \in Approvals : approvals'[a] \in ApprovalRec
  BY DEF RunsKept
<1>3. TypeOK'
  BY <1>1, <1>2 DEF TypeOK, RunRec, ApprovalRec, ChannelKept, SessionsKept
<1>4. Typed'
  BY <1>3 DEF Typed, RunsKept, RunRec, ApprovalRec
<1> QED BY <1>4 DEF OpenClawInv, RunsKept, SessionsKept

LEMMA SessionsRest ==
  ASSUME Context, ConnectionKept, UNCHANGED sessionVars
  PROVE  SessionsKept
<1>1. /\ sessions' = sessions /\ reservations' = reservations /\ forking' = forking /\ calls' = calls
      /\ handles' = handles
  BY DEF sessionVars
<1>2. \A id : HasActiveRun(id)' => HasActiveRun(id)
  BY DEF HasActiveRun, ConnectionKept, ChannelKept
<1>3. CallInv'
  BY <1>1, <1>2 DEF Context, CallInv, Live, HasActiveRun
<1>4. HolderInv'
  BY <1>1 DEF Context, HolderInv, Live
<1>5. EndInv'
  BY <1>1 DEF Context, EndInv, ConnectionKept, ChannelKept
<1> QED BY <1>1, <1>3, <1>4, <1>5 DEF SessionsKept, Context, Typed, TypeOK

LEMMA ConnectionRests ==
  ASSUME Context, UNCHANGED <<closed, acpVars>>, activeRun' \in {activeRun, NoRun},
         activeRun' # NoRun => runs'[activeRun].session = runs[activeRun].session
  PROVE  ConnectionKept
BY DEF ConnectionKept, ChannelKept, Context, Typed, TypeOK, EndInv, acpVars

LEMMA RunsRest ==
  ASSUME Context, UNCHANGED <<closed, activeRun, runs, approvals>>
  PROVE  RunsKept
BY DEF RunsKept, Context, Typed, RunsInv, RunFits, CancelFits, ApprovalFits, PendingOf, RunsMove, Moved

(* What a step has made of the Runs and approvals when it aborts the connection. *)
Planned(now, apps) ==
  /\ now \in [Runs -> RunRec] /\ apps \in [Approvals -> ApprovalRec]
  /\ \A r \in Runs : /\ Ending(now[r], r, apps, activeRun) /\ Moved(runs[r], now[r])
                     /\ now[r].phase = "active" => runs[r].phase = "active"
  /\ \A a \in Approvals : ApprovalFits(a, now, apps, activeRun)

LEMMA MovedOn ==
  ASSUME NEW old, NEW mid, NEW new, Moved(old, mid), mid.phase = "active" => old.phase = "active", EndsAs(mid, new)
  PROVE  Moved(old, new)
BY DEF Moved, EndsAs, Terminals

LEMMA AbortKeeps ==
  ASSUME Context, NEW now, NEW apps, Planned(now, apps), Abort(now, apps)
  PROVE  RunsKept /\ ConnectionKept /\ closed'
<1>1. CASE closed
  <2>1. runs' = now /\ approvals' = apps /\ UNCHANGED <<closed, activeRun, acpVars>> /\ activeRun = NoRun
    BY <1>1 DEF Abort, Context
  <2>2. \A r \in Runs : RunFits(now[r], r, apps, NoRun, TRUE)
    BY <2>1, EndedFits DEF Planned
  <2>3. RunsInv'
    BY <1>1, <2>1, <2>2 DEF RunsInv, Planned, RunFits, CancelFits, ApprovalFits, PendingOf
  <2>4. RunsKept
    BY <2>1, <2>3 DEF RunsKept, Planned, RunsMove, Moved
  <2>5. ConnectionKept
    BY <2>1, ConnectionRests
  <2> QED BY <1>1, <2>1, <2>4, <2>5
<1>2. CASE ~closed
  <2>1. /\ closed' = TRUE /\ activeRun' = NoRun /\ runs' = Lost(AbortRun(now, apps))
        /\ approvals' = Released(SettleApprovals(activeRun, apps)) /\ EndAcp("closed")
    BY <1>2 DEF Abort
  <2>2. ASSUME NEW r \in Runs
        PROVE  RunFits(runs'[r], r, approvals', NoRun, TRUE) /\ EndsAs(now[r], runs'[r])
    <3>1. runs'[r] = Forsaken(Aborted(now[r], r, apps, activeRun))
      BY <2>1 DEF Lost, AbortRun, Forsaken, Aborted
    <3>2. Ending(now[r], r, apps, activeRun)
      BY DEF Planned
    <3> QED BY <3>1, <3>2, AbortedRun
  <2>3. runs' \in [Runs -> RunRec]
    BY <2>2, <2>1 DEF RunFits, Fits, Lost
  <2>4. /\ approvals' \in [Approvals -> ApprovalRec]
        /\ \A a \in Approvals : ApprovalFits(a, runs', approvals', NoRun)
    BY <2>2, <2>1, ApprovalsEnd DEF Planned
  <2>5. RunsInv'
    BY <2>1, <2>2, <2>4 DEF RunsInv, RunFits, CancelFits, ApprovalFits, PendingOf
  <2>6. RunsMove
    BY <2>2, MovedOn DEF Planned, RunsMove
  <2>7. ConnectionKept
    <3>1. events' = <<>> /\ sent' = sent /\ acp' = (IF acp = "open" THEN "closed" ELSE acp)
      BY <2>1 DEF EndAcp
    <3>2. sent \in 0..MaxEvents /\ acp \in {"open", "failed", "incompatible", "closed"}
      BY DEF Context, Typed, TypeOK
    <3>3. events' \in Seq([session : Ids \cup {NoId}, part : Parts \cup {"other"}]) /\ Len(events') <= sent'
      BY <3>1, <3>2
    <3> QED BY <1>2, <2>1, <3>1, <3>2, <3>3 DEF ConnectionKept, ChannelKept
  <2> QED BY <2>1, <2>3, <2>4, <2>5, <2>6, <2>7 DEF RunsKept
<1> QED BY <1>1, <1>2

-------------------------------------------------------------------------------
(* Steps that abort the connection. *)
LEMMA PendingFinite ==
  ASSUME Context, NEW r \in Runs, runs[r].phase = "active"
  PROVE  /\ IsFiniteSet(PendingOf(r, approvals)) /\ r = activeRun /\ runs[r].queued < MaxRunEvents
         /\ runs[r].requested = runs[r].resolved \cup PendingOf(r, approvals)
         /\ ~closed /\ ~runs[r].overflow /\ runs[r].cancel \notin CancelModes
<1>1. RunFits(runs[r], r, approvals, activeRun, closed)
  BY DEF Context, RunsInv
<1>2. /\ r = activeRun /\ IsFiniteSet(runs[r].requested) /\ runs[r].queued < MaxRunEvents /\ ~closed /\ ~runs[r].overflow
      /\ runs[r].requested = runs[r].resolved \cup PendingOf(r, approvals)
  BY <1>1 DEF RunFits, Fits
<1>3. runs[r].cancel \notin CancelModes
  BY <1>1, <1>2 DEF RunFits, CancelFits, CancelModes, Terminals
<1>4. PendingOf(r, approvals) \in SUBSET runs[r].requested
  BY <1>2
<1>5. IsFiniteSet(PendingOf(r, approvals))
  BY <1>2, <1>4, FS_Subset
<1> QED BY <1>2, <1>3, <1>5

LEMMA RunEnds ==
  ASSUME Context, NEW r \in Runs, NEW apps, apps = approvals \/ r # activeRun
  PROVE  Ending(runs[r], r, apps, activeRun)
<1>1. RunFits(runs[r], r, approvals, activeRun, closed)
  BY DEF Context, RunsInv
<1>2. CASE runs[r].phase = "active"
  BY <1>2, PendingFinite, <1>1 DEF Ending, RunFits, CancelModes
<1>3. CASE runs[r].phase # "active"
  BY <1>1, <1>3 DEF Ending, RunFits, CancelFits
<1> QED BY <1>2, <1>3

(* One Run has become `new`, and the approvals `apps`. *)
LEMMA PlannedOne ==
  ASSUME Context, NEW r \in Runs, NEW new, NEW apps \in [Approvals -> ApprovalRec], apps = approvals \/ r = activeRun,
         Ending(new, r, apps, activeRun), Moved(runs[r], new), new.phase = "active" => runs[r].phase = "active",
         \A a \in Approvals : ApprovalFits(a, [runs EXCEPT ![r] = new], apps, activeRun)
  PROVE  Planned([runs EXCEPT ![r] = new], apps)
<1> DEFINE now == [runs EXCEPT ![r] = new]
<1>1. runs \in [Runs -> RunRec] /\ new \in RunRec
  BY DEF Context, Typed, Ending, Fits
<1>2. now \in [Runs -> RunRec] /\ now[r] = new /\ \A q \in Runs : q # r => now[q] = runs[q]
  BY <1>1
<1>3. ASSUME NEW q \in Runs
      PROVE  /\ Ending(now[q], q, apps, activeRun) /\ Moved(runs[q], now[q])
             /\ now[q].phase = "active" => runs[q].phase = "active"
  BY <1>2, RunEnds DEF Moved
<1> QED BY <1>2, <1>3 DEF Planned

LEMMA PlannedAsIs == Context => Planned(runs, approvals)
<1> SUFFICES ASSUME Context PROVE Planned(runs, approvals)
  OBVIOUS
<1>1. \A r \in Runs : Ending(runs[r], r, approvals, activeRun)
  BY RunEnds
<1> QED BY <1>1 DEF Planned, Context, Typed, RunsInv, Moved

LEMMA ApprovalsGoOn ==
  ASSUME Context, NEW r \in Runs, NEW new, GoesOn(runs[r], new)
  PROVE  \A a \in Approvals : ApprovalFits(a, [runs EXCEPT ![r] = new], approvals, activeRun)
<1> DEFINE now == [runs EXCEPT ![r] = new]
<1>1. \A q \in Runs : GoesOn(runs[q], now[q])
  BY DEF Context, Typed, GoesOn
<1>2. \A a \in Approvals : ApprovalFits(a, runs, approvals, activeRun)
  BY DEF Context, RunsInv
<1> QED BY <1>1, <1>2, ApprovalStays

(* A Run whose prompt or cancellation has another outcome. *)
LEMMA PlannedOutcome ==
  ASSUME Context, NEW r \in Runs, NEW new \in RunRec, runs[r].phase # "none", new.prompt # "none",
         new.cancel \in {runs[r].cancel, "connection_aborted"},
         /\ new.phase = runs[r].phase /\ new.session = runs[r].session /\ new.queued = runs[r].queued
         /\ new.waiting = runs[r].waiting /\ new.overflow = runs[r].overflow
         /\ new.requested = runs[r].requested /\ new.resolved = runs[r].resolved
  PROVE  Planned([runs EXCEPT ![r] = new], approvals)
<1>1. Ending(runs[r], r, approvals, activeRun)
  BY RunEnds
<1>2. Fits(new)
  BY <1>1 DEF Ending, Fits
<1>3. new.phase # "active" => CancelFits(new, TRUE) /\ (new.phase = "connection_aborted" => Accounted(new))
  BY <1>1 DEF Context, Typed, Ending, CancelFits, Accounted, RunRec
<1>4. Ending(new, r, approvals, activeRun)
  BY <1>1, <1>2, <1>3 DEF Ending, Space
<1>5. Moved(runs[r], new)
  BY DEF Moved
<1>6. GoesOn(runs[r], new)
  BY DEF GoesOn
<1>7. \A a \in Approvals : ApprovalFits(a, [runs EXCEPT ![r] = new], approvals, activeRun)
  BY <1>6, ApprovalsGoOn
<1>8. approvals \in [Approvals -> ApprovalRec]
  BY DEF Context, Typed
<1> QED BY <1>4, <1>5, <1>7, <1>8, PlannedOne

(* The Run that was active was finished, and its approvals settled. *)
LEMMA PlannedFailed ==
  ASSUME Context, activeRun # NoRun, NEW mid \in RunRec, mid.prompt # "none", mid.cancel = runs[activeRun].cancel,
         /\ mid.phase = runs[activeRun].phase /\ mid.session = runs[activeRun].session
         /\ mid.queued = runs[activeRun].queued /\ mid.requested = runs[activeRun].requested
         /\ mid.resolved = runs[activeRun].resolved
  PROVE  Planned([runs EXCEPT ![activeRun] = Finish(mid, "failed")], SettleApprovals(activeRun, approvals))
<1>1. PICK r \in Runs : r = activeRun /\ runs[r].phase = "active" /\ runs[r] \in RunRec
  BY DEF Context, Typed, TypeOK
<1>2. PICK new : new = Finish(mid, "failed")
  OBVIOUS
<1>3. RunFits(runs[r], r, approvals, activeRun, closed)
  BY <1>1 DEF Context, RunsInv
<1>4. /\ runs[r].queued < MaxRunEvents /\ ~runs[r].overflow /\ runs[r].cancel \notin CancelModes
  BY <1>1, PendingFinite
<1>5. /\ new \in RunRec /\ new.phase \in {"failed", "connection_aborted"}
      /\ new.session = mid.session /\ new.prompt = mid.prompt /\ new.cancel = mid.cancel
      /\ new.requested = mid.requested /\ new.resolved = mid.resolved
      /\ new.phase # "failed" => new.overflow
  BY <1>1, <1>2, <1>4, FinishFacts DEF Terminals
<1>6. Fits(new)
  BY <1>1, <1>3, <1>5 DEF RunFits, Fits
<1>7. Ending(new, r, SettleApprovals(activeRun, approvals), activeRun)
  BY <1>1, <1>4, <1>5, <1>6 DEF Ending, CancelFits, CancelModes, Accounted
<1>8. Moved(runs[r], new) /\ new.phase # "active"
  BY <1>1, <1>5 DEF Moved
<1>9. GoesOn(runs[r], new)
  BY <1>1, <1>4, <1>5 DEF GoesOn
<1>10. \A a \in Approvals : ApprovalFits(a, [runs EXCEPT ![r] = new], approvals, activeRun)
  BY <1>9, ApprovalsGoOn
<1>11. /\ SettleApprovals(activeRun, approvals) \in [Approvals -> ApprovalRec]
       /\ \A a \in Approvals : ApprovalFits(a, [runs EXCEPT ![r] = new], SettleApprovals(activeRun, approvals), activeRun)
  BY <1>10, SettledFits DEF Context, Typed
<1>12. Planned([runs EXCEPT ![r] = new], SettleApprovals(activeRun, approvals))
  BY <1>1, <1>7, <1>8, <1>11, PlannedOne
<1> QED BY <1>1, <1>2, <1>12

LEMMA AfterLossKeeps ==
  ASSUME Context, AfterLoss(runs)
  PROVE  RunsKept /\ ConnectionKept /\ closed'
<1>1. CASE acp = "incompatible" /\ activeRun # NoRun
  <2>1. PICK mid : mid = runs[activeRun]
    OBVIOUS
  <2>2. mid \in RunRec /\ mid.prompt # "none"
    BY <1>1, <2>1 DEF Context, Typed, TypeOK, RunsInv, RunFits, Fits
  <2>3. Planned([runs EXCEPT ![activeRun] = Finish(mid, "failed")], SettleApprovals(activeRun, approvals))
    BY <1>1, <2>1, <2>2, PlannedFailed
  <2>4. Abort([runs EXCEPT ![activeRun] = Finish(mid, "failed")], SettleApprovals(activeRun, approvals))
    BY <1>1, <2>1 DEF AfterLoss
  <2> QED BY <2>3, <2>4, AbortKeeps
<1>2. CASE ~(acp = "incompatible" /\ activeRun # NoRun)
  BY <1>2, PlannedAsIs, AbortKeeps DEF AfterLoss
<1> QED BY <1>1, <1>2

LEMMA EndKeeps ==
  ASSUME Context, UNCHANGED sessionVars, pump' \in {"running", "ended"}, RunsKept /\ ConnectionKept
  PROVE  OpenClawInv' /\ RunsMove
<1>1. activeRun' \in Runs \cup {NoRun} /\ ChannelKept
  BY DEF Context, Typed, TypeOK, ConnectionKept
<1> QED BY <1>1, SessionsRest, Assembled

LEMMA CloseKeeps ==
  ASSUME Context, Close \/ PumpEnds
  PROVE  OpenClawInv' /\ RunsMove
<1>1. UNCHANGED sessionVars /\ pump' \in {"running", "ended"}
  BY DEF Close, PumpEnds, Context, Typed, TypeOK
<1>2. RunsKept /\ ConnectionKept
  BY PlannedAsIs, AbortKeeps, AfterLossKeeps DEF Close, PumpEnds
<1> QED BY <1>1, <1>2, EndKeeps

LEMMA OutcomeKeeps ==
  ASSUME Context, NEW r \in Runs, PromptUncertain(r) \/ CancelNotSent(r) \/ CancelTimesOut(r)
  PROVE  OpenClawInv' /\ RunsMove
<1>1. UNCHANGED sessionVars /\ pump' \in {"running", "ended"}
  BY DEF PromptUncertain, CancelNotSent, CancelTimesOut, Context, Typed, TypeOK
<1>2. runs[r] \in RunRec /\ Fits(runs[r]) /\ runs \in [Runs -> RunRec]
  BY DEF Context, Typed, RunsInv, RunFits
<1>3. PICK new : \/ new = [runs[r] EXCEPT !.prompt = "uncertain"] /\ PromptUncertain(r)
                 \/ new = [runs[r] EXCEPT !.cancel = "connection_aborted"] /\ (CancelNotSent(r) \/ CancelTimesOut(r))
  OBVIOUS
<1>4. Abort([runs EXCEPT ![r] = new], approvals)
  BY <1>3 DEF PromptUncertain, CancelNotSent, CancelTimesOut
<1>5. runs[r].phase # "none"
  BY <1>2 DEF PromptUncertain, CancelNotSent, CancelTimesOut, Fits
<1>6. /\ new \in RunRec /\ new.prompt # "none" /\ new.cancel \in {runs[r].cancel, "connection_aborted"}
      /\ new.phase = runs[r].phase /\ new.session = runs[r].session /\ new.queued = runs[r].queued
      /\ new.waiting = runs[r].waiting /\ new.overflow = runs[r].overflow
      /\ new.requested = runs[r].requested /\ new.resolved = runs[r].resolved
  BY <1>2, <1>3, <1>5 DEF RunRec, Fits, CancelModes
<1>7. Planned([runs EXCEPT ![r] = new], approvals)
  BY <1>5, <1>6, PlannedOutcome
<1>8. RunsKept /\ ConnectionKept
  BY <1>4, <1>7, AbortKeeps
<1> QED BY <1>1, <1>8, EndKeeps

-------------------------------------------------------------------------------
(* Steps of one Run. *)
LEMMA OneRunKept ==
  ASSUME Context, NEW r \in Runs, NEW new, runs' = [runs EXCEPT ![r] = new], approvals' \in [Approvals -> ApprovalRec],
         RunFits(new, r, approvals', activeRun', closed'), Moved(runs[r], new),
         \A q \in Runs \ {r} : RunFits(runs[q], q, approvals', activeRun', closed'),
         \A a \in Approvals : ApprovalFits(a, runs', approvals', activeRun')
  PROVE  RunsKept
<1>1. runs \in [Runs -> RunRec] /\ new \in RunRec
  BY DEF Context, Typed, RunFits, Fits
<1>2. runs' \in [Runs -> RunRec] /\ runs'[r] = new /\ \A q \in Runs \ {r} : runs'[q] = runs[q]
  BY <1>1
<1>3. \A q \in Runs : RunFits(runs'[q], q, approvals', activeRun', closed') /\ Moved(runs[q], runs'[q])
  BY <1>2 DEF Moved
<1>4. RunsInv'
  BY <1>3 DEF RunsInv, RunFits, CancelFits, ApprovalFits, PendingOf
<1> QED BY <1>2, <1>3, <1>4 DEF RunsKept, RunsMove

LEMMA RunGoesOn ==
  ASSUME Context, NEW r \in Runs, NEW new, runs' = [runs EXCEPT ![r] = new], UNCHANGED <<closed, activeRun, approvals>>,
         RunFits(new, r, approvals, activeRun, closed), Moved(runs[r], new), GoesOn(runs[r], new)
  PROVE  RunsKept /\ \A q \in Runs : runs'[q].session = runs[q].session
<1>1. \A a \in Approvals : ApprovalFits(a, runs', approvals', activeRun')
  BY ApprovalsGoOn DEF ApprovalFits
<1>2. RunFits(new, r, approvals', activeRun', closed')
  BY DEF RunFits, CancelFits, PendingOf
<1>3. \A q \in Runs \ {r} : RunFits(runs[q], q, approvals', activeRun', closed')
  BY DEF Context, RunsInv, RunFits, CancelFits, PendingOf
<1>4. approvals' \in [Approvals -> ApprovalRec]
  BY DEF Context, Typed
<1>5. RunsKept
  BY <1>1, <1>2, <1>3, <1>4, OneRunKept
<1>6. \A q \in Runs : runs'[q].session = runs[q].session
  BY DEF Context, Typed, GoesOn
<1> QED BY <1>5, <1>6

LEMMA PromptLostKeeps ==
  ASSUME Context, NEW r \in Runs, PromptLost(r)
  PROVE  OpenClawInv' /\ RunsMove
<1>1. UNCHANGED sessionVars /\ pump' \in {"running", "ended"}
  BY DEF PromptLost, Context, Typed, TypeOK
<1>2. /\ runs[r] \in RunRec /\ RunFits(runs[r], r, approvals, activeRun, closed) /\ runs \in [Runs -> RunRec]
      /\ runs[r].prompt = "lost"
  BY DEF Context, Typed, RunsInv, PromptLost
<1>3. PICK new : new = [runs[r] EXCEPT !.prompt = "settled"]
  OBVIOUS
<1>4. /\ new \in RunRec /\ new.prompt = "settled" /\ new.cancel = runs[r].cancel
      /\ new.phase = runs[r].phase /\ new.session = runs[r].session /\ new.queued = runs[r].queued
      /\ new.waiting = runs[r].waiting /\ new.overflow = runs[r].overflow
      /\ new.requested = runs[r].requested /\ new.resolved = runs[r].resolved
  BY <1>2, <1>3 DEF RunRec
<1>5. PICK now : now = [runs EXCEPT ![r] = new]
  OBVIOUS
<1>6. runs[r].phase # "none"
  BY <1>2 DEF RunFits, Fits
<1>7. IF Terminal(r)
      THEN runs' = now /\ UNCHANGED <<closed, activeRun, approvals, acpVars>>
      ELSE AfterLoss(now) \/ Abort(now, approvals)
  BY <1>3, <1>5 DEF PromptLost
<1>8. RunsKept /\ ConnectionKept
  <2>1. CASE Terminal(r)
    <3>1. Fits(new)
      BY <1>2, <1>4, <1>6 DEF RunFits, Fits
    <3>2. RunFits(new, r, approvals, activeRun, closed)
      BY <1>2, <1>4, <2>1, <3>1 DEF RunFits, CancelFits, Accounted, Terminal, Terminals
    <3>3. Moved(runs[r], new) /\ GoesOn(runs[r], new)
      BY <1>4 DEF Moved, GoesOn
    <3>4. RunsKept /\ \A q \in Runs : runs'[q].session = runs[q].session
      BY <1>5, <1>7, <2>1, <3>2, <3>3, RunGoesOn
    <3>5. activeRun' \in {activeRun, NoRun} /\ (activeRun' # NoRun => runs'[activeRun].session = runs[activeRun].session)
      BY <1>7, <2>1, <3>4 DEF Context, Typed, TypeOK
    <3> QED BY <1>7, <2>1, <3>4, <3>5, ConnectionRests
  <2>2. CASE ~Terminal(r)
    <3>1. r = activeRun /\ activeRun # NoRun
      BY <1>2, <1>6, <2>2 DEF Terminal, Terminals, RunRec, RunFits, Context
    <3>2. Planned(now, approvals)
      BY <1>4, <1>5, <1>6, PlannedOutcome
    <3>3. CASE Abort(now, approvals)
      BY <3>2, <3>3, AbortKeeps
    <3>4. CASE AfterLoss(now) /\ acp = "incompatible"
      BY <1>2, <1>5, <3>1, <3>4, <1>4, PlannedFailed, AbortKeeps DEF AfterLoss
    <3> QED BY <1>7, <2>2, <3>3, <3>4 DEF AfterLoss
  <2> QED BY <2>1, <2>2
<1> QED BY <1>1, <1>8, EndKeeps

(* A Run that emitted, and may be full. *)
LEMMA EmittedEnds ==
  ASSUME Context, NEW r \in Runs, runs[r].phase = "active", NEW new, Fits(new), new.phase = "active",
         new.prompt = runs[r].prompt, new.cancel = runs[r].cancel, new.session = runs[r].session,
         runs[r].requested \subseteq new.requested, runs[r].resolved \subseteq new.resolved,
         NEW apps, IsFiniteSet(PendingOf(r, apps)), new.overflow => Space(new) = 0,
         ~new.overflow => new.requested = new.resolved \cup PendingOf(r, apps)
  PROVE  /\ Ending(new, r, apps, activeRun) /\ Moved(runs[r], new) /\ GoesOn(runs[r], new)
         /\ ~new.overflow => RunFits(new, r, apps, activeRun, closed)
<1>1. r = activeRun /\ ~closed /\ ~runs[r].overflow /\ runs[r].cancel \notin CancelModes
  BY PendingFinite
<1>2. RunFits(runs[r], r, approvals, activeRun, closed)
  BY DEF Context, RunsInv
<1>3. Ending(new, r, apps, activeRun) /\ Moved(runs[r], new) /\ GoesOn(runs[r], new)
  BY <1>1 DEF Ending, Moved, GoesOn, CancelModes
<1>4. ASSUME ~new.overflow PROVE RunFits(new, r, apps, activeRun, closed)
  BY <1>1, <1>2, <1>4 DEF RunFits, CancelFits, CancelModes
<1> QED BY <1>3, <1>4

LEMMA PumpEventKeeps ==
  ASSUME Context, PumpEvent
  PROVE  OpenClawInv' /\ RunsMove
<1>1. UNCHANGED sessionVars /\ pump' \in {"running", "ended"}
  BY DEF PumpEvent, Context, Typed, TypeOK
<1>2. PICK e : e = Head(events)
  OBVIOUS
<1>3. events \in Seq([session : Ids \cup {NoId}, part : Parts \cup {"other"}]) /\ events # <<>> /\ Len(events) <= sent
      /\ sent \in 0..MaxEvents
  BY DEF PumpEvent, Context, Typed, TypeOK
<1>4. Tail(events) \in Seq([session : Ids \cup {NoId}, part : Parts \cup {"other"}]) /\ Len(Tail(events)) <= sent
  BY <1>3
<1>5. CASE activeRun # NoRun /\ e.session \in {NoId, runs[activeRun].session}
  <2>1. PICK r \in Runs : r = activeRun
    BY <1>5 DEF Context, Typed, TypeOK
  <2>2. /\ runs[r] \in RunRec /\ runs[r].phase = "active" /\ RunFits(runs[r], r, approvals, activeRun, closed)
        /\ runs \in [Runs -> RunRec]
    BY <2>1 DEF Context, Typed, RunsInv
  <2>3. /\ IsFiniteSet(PendingOf(r, approvals)) /\ runs[r].queued < MaxRunEvents /\ ~runs[r].overflow
        /\ runs[r].requested = runs[r].resolved \cup PendingOf(r, approvals)
    BY <2>2, PendingFinite
  <2>4. PICK old : old = [runs[r] EXCEPT !.tail = @ \cup ({e.part} \cap Parts)]
    OBVIOUS
  <2>5. /\ old \in RunRec /\ old.phase = "active" /\ old.session = runs[r].session /\ old.prompt = runs[r].prompt
        /\ old.cancel = runs[r].cancel /\ old.requested = runs[r].requested /\ old.resolved = runs[r].resolved
        /\ old.queued = runs[r].queued /\ old.overflow = runs[r].overflow
    BY <2>2, <2>4 DEF RunRec
  <2>6. PICK new : new = Emit(old)
    OBVIOUS
  <2>7. /\ new \in RunRec /\ new.queued < MaxRunEvents
        /\ new.phase = "active" /\ new.session = old.session /\ new.prompt = old.prompt /\ new.cancel = old.cancel
        /\ new.requested = old.requested /\ new.resolved = old.resolved
        /\ new.overflow /\ ~old.overflow => Space(new) = 0
    BY <2>3, <2>5, <2>6, EmitFacts
  <2>8. Fits(new)
    BY <2>2, <2>5, <2>7 DEF RunFits, Fits
  <2>9. /\ Ending(new, r, approvals, activeRun) /\ Moved(runs[r], new) /\ GoesOn(runs[r], new)
        /\ ~new.overflow => RunFits(new, r, approvals, activeRun, closed)
    BY <2>2, <2>3, <2>5, <2>7, <2>8, EmittedEnds
  <2>10. PICK got : got = [runs EXCEPT ![r] = new]
    OBVIOUS
  <2>11. IF got[r].overflow
         THEN Abort(got, approvals)
         ELSE runs' = got /\ events' = Tail(events) /\ UNCHANGED <<closed, activeRun, approvals, acp, sent>>
    BY <1>2, <2>1, <2>4, <2>6, <2>10, <1>5 DEF Receive, PumpEvent
  <2>12. got[r] = new
    BY <2>2, <2>10
  <2>13. RunsKept /\ ConnectionKept
    <3>1. CASE new.overflow
      BY <2>9, ApprovalsGoOn, <2>2, <2>10, PlannedOne, <2>11, <2>12, <3>1, AbortKeeps DEF Context, Typed
    <3>2. CASE ~new.overflow
      <4>1. runs' = got /\ events' = Tail(events) /\ UNCHANGED <<closed, activeRun, approvals, acp, sent>>
        BY <2>11, <2>12, <3>2
      <4>2. RunsKept /\ \A q \in Runs : runs'[q].session = runs[q].session
        BY <2>9, <2>10, <3>2, <4>1, RunGoesOn
      <4>3. ConnectionKept
        BY <1>3, <1>4, <2>1, <4>1, <4>2 DEF ConnectionKept, ChannelKept, Context, Typed, TypeOK, EndInv
      <4> QED BY <4>2, <4>3
    <3> QED BY <3>1, <3>2
  <2> QED BY <1>1, <2>13, EndKeeps
<1>6. CASE ~(activeRun # NoRun /\ e.session \in {NoId, runs[activeRun].session})
  <2>1. events' = Tail(events) /\ UNCHANGED <<closed, activeRun, runs, approvals, acp, sent>>
    BY <1>2, <1>6 DEF PumpEvent
  <2>2. RunsKept
    BY <2>1, RunsRest
  <2>3. ConnectionKept
    BY <1>3, <1>4, <2>1 DEF ConnectionKept, ChannelKept, Context, Typed, TypeOK, EndInv
  <2> QED BY <1>1, <2>2, <2>3, EndKeeps
<1> QED BY <1>5, <1>6

-------------------------------------------------------------------------------
(* Approvals. *)

(* A step that emits into the active Run and changes one approval. *)
LEMMA EmittingKeeps ==
  ASSUME Context, NEW r \in Runs, runs[r].phase = "active", NEW new, Fits(new), new.phase = "active",
         new.prompt = runs[r].prompt, new.cancel = runs[r].cancel, new.session = runs[r].session,
         runs[r].requested \subseteq new.requested, runs[r].resolved \subseteq new.resolved,
         new.overflow => Space(new) = 0,
         NEW a \in Approvals, NEW app \in ApprovalRec, NEW apps, apps = [approvals EXCEPT ![a] = app],
         IsFiniteSet(PendingOf(r, apps)),
         ~new.overflow => new.requested = new.resolved \cup PendingOf(r, apps),
         ApprovalFits(a, [runs EXCEPT ![r] = new], apps, activeRun),
         UNCHANGED <<sessionVars, pump>>, AbortIfFull([runs EXCEPT ![r] = new], apps, r)
  PROVE  OpenClawInv' /\ RunsMove
<1>1. /\ Ending(new, r, apps, activeRun) /\ Moved(runs[r], new) /\ GoesOn(runs[r], new)
      /\ ~new.overflow => RunFits(new, r, apps, activeRun, closed)
  BY EmittedEnds
<1>2. r = activeRun /\ ~closed /\ ~runs[r].overflow
  BY PendingFinite
<1>3. runs \in [Runs -> RunRec] /\ approvals \in [Approvals -> ApprovalRec] /\ new \in RunRec
  BY DEF Context, Typed, Fits
<1>4. PICK now : now = [runs EXCEPT ![r] = new]
  OBVIOUS
<1>5. apps \in [Approvals -> ApprovalRec] /\ \A b \in Approvals : b # a => apps[b] = approvals[b]
  BY <1>3
<1>6. \A b \in Approvals : ApprovalFits(b, now, apps, activeRun)
  BY <1>1, <1>4, ApprovalsGoOn, <1>5 DEF ApprovalFits
<1>7. now[r] = new
  BY <1>3, <1>4
<1>8. RunsKept /\ ConnectionKept
  <2>1. CASE new.overflow
    BY <1>1, <1>2, <1>4, <1>5, <1>6, PlannedOne, <1>7, <2>1, AbortKeeps DEF AbortIfFull
  <2>2. CASE ~new.overflow
    <3>1. runs' = now /\ approvals' = apps /\ UNCHANGED <<closed, activeRun, acpVars>>
      BY <1>4, <1>7, <2>2 DEF AbortIfFull
    <3>2. RunFits(new, r, approvals', activeRun', closed')
      BY <1>1, <2>2, <3>1
    <3>3. \A q \in Runs \ {r} : RunFits(runs[q], q, approvals', activeRun', closed')
      BY <1>2, <3>1 DEF Context, RunsInv, RunFits
    <3>4. \A b \in Approvals : ApprovalFits(b, runs', approvals', activeRun')
      BY <1>6, <3>1
    <3>5. RunsKept
      BY <1>1, <1>4, <1>5, <3>1, <3>2, <3>3, <3>4, OneRunKept
    <3>6. runs'[activeRun].session = runs[activeRun].session
      BY <1>2, <1>7, <3>1
    <3>7. activeRun' \in {activeRun, NoRun}
      BY <3>1
    <3>8. ConnectionKept
      BY <3>1, <3>6, <3>7, ConnectionRests
    <3> QED BY <3>5, <3>8
  <2> QED BY <2>1, <2>2
<1>9. pump' \in {"running", "ended"}
  BY DEF Context, Typed, TypeOK
<1> QED BY <1>8, <1>9, EndKeeps

LEMMA RequestPermissionKeeps ==
  ASSUME Context, NEW a \in Approvals, NEW id \in Ids, RequestPermission(a, id)
  PROVE  OpenClawInv' /\ RunsMove
<1>1. /\ approvals[a] \in ApprovalRec /\ approvals \in [Approvals -> ApprovalRec] /\ runs \in [Runs -> RunRec]
      /\ approvals[a].state = "none" /\ approvals[a].told = "none"
  BY DEF Context, RunsInv, Typed, RequestPermission, ApprovalFits
<1>2. UNCHANGED sessionVars /\ UNCHANGED pump
  BY DEF RequestPermission
<1>3. CASE /\ HasActiveRun(id)
           /\ AbortIfFull([runs EXCEPT ![activeRun] = Request(@, a)],
                [approvals EXCEPT ![a] = [run |-> activeRun, state |-> "pending", told |-> "asked"]], activeRun)
  <2>1. PICK r \in Runs : r = activeRun
    BY <1>3 DEF HasActiveRun, Context, Typed, TypeOK
  <2>2. runs[r] \in RunRec /\ runs[r].phase = "active" /\ RunFits(runs[r], r, approvals, activeRun, closed)
    BY <2>1 DEF Context, Typed, RunsInv
  <2>3. /\ IsFiniteSet(PendingOf(r, approvals)) /\ runs[r].queued < MaxRunEvents /\ ~runs[r].overflow
        /\ runs[r].requested = runs[r].resolved \cup PendingOf(r, approvals)
    BY <2>2, PendingFinite
  <2>4. PICK mid : mid = Emit(runs[r])
    OBVIOUS
  <2>5. /\ mid \in RunRec /\ mid.queued < MaxRunEvents
        /\ mid.phase = "active" /\ mid.session = runs[r].session /\ mid.prompt = runs[r].prompt
        /\ mid.cancel = runs[r].cancel /\ mid.requested = runs[r].requested /\ mid.resolved = runs[r].resolved
        /\ mid.overflow => Space(mid) = 0
    BY <2>2, <2>3, <2>4, EmitFacts
  <2>6. PICK new : new = Request(runs[r], a)
    OBVIOUS
  <2>7. new = IF mid.overflow THEN mid ELSE [mid EXCEPT !.requested = @ \cup {a}]
    BY <2>4, <2>6 DEF Request
  <2>8. /\ new \in RunRec /\ new.queued < MaxRunEvents
        /\ new.phase = "active" /\ new.session = runs[r].session /\ new.prompt = runs[r].prompt
        /\ new.cancel = runs[r].cancel /\ new.resolved = runs[r].resolved
        /\ new.overflow = mid.overflow /\ (new.overflow => Space(new) = 0)
        /\ new.requested = IF mid.overflow THEN runs[r].requested ELSE runs[r].requested \cup {a}
    BY <2>5, <2>7 DEF RunRec
  <2>9. IsFiniteSet(new.requested)
    <3>1. IsFiniteSet(runs[r].requested)
      BY <2>2 DEF RunFits, Fits
    <3>2. IsFiniteSet(runs[r].requested \cup {a})
      BY <3>1, FS_AddElement
    <3> QED BY <2>8, <3>1, <3>2
  <2>10. Fits(new)
    BY <2>2, <2>8, <2>9 DEF RunFits, Fits
  <2>11. PICK app : app = [run |-> r, state |-> "pending", told |-> "asked"]
    OBVIOUS
  <2>12. PICK apps : apps = [approvals EXCEPT ![a] = app]
    OBVIOUS
  <2>13. app \in ApprovalRec /\ apps[a] = app
    BY <1>1, <2>11, <2>12 DEF ApprovalRec
  <2>14. PendingOf(r, apps) = PendingOf(r, approvals) \cup {a}
    BY <1>1, <2>11, <2>12 DEF PendingOf
  <2>15. IsFiniteSet(PendingOf(r, apps))
    BY <2>3, <2>14, FS_AddElement
  <2>16. ~new.overflow => new.requested = new.resolved \cup PendingOf(r, apps)
    BY <2>3, <2>8, <2>14
  <2>17. ApprovalFits(a, [runs EXCEPT ![r] = new], apps, activeRun)
    BY <2>1, <2>11, <2>13 DEF ApprovalFits
  <2>18. AbortIfFull([runs EXCEPT ![r] = new], apps, r)
    BY <1>3, <2>1, <2>6, <2>11, <2>12
  <2>19. runs[r].requested \subseteq new.requested /\ runs[r].resolved \subseteq new.resolved
    BY <2>8
  <2> QED BY <1>2, <2>2, <2>8, <2>10, <2>12, <2>13, <2>15, <2>16, <2>17, <2>18, <2>19, EmittingKeeps
<1>4. CASE /\ approvals' = [approvals EXCEPT ![a].state = "cancelled", ![a].told = "asked"]
           /\ UNCHANGED <<closed, activeRun, runs, acpVars>>
  <2>1. /\ approvals' \in [Approvals -> ApprovalRec] /\ approvals'[a].state = "cancelled" /\ approvals'[a].told = "asked"
        /\ \A b \in Approvals : b # a => approvals'[b] = approvals[b]
    BY <1>1, <1>4 DEF ApprovalRec
  <2>2. \A b \in Approvals : ApprovalFits(b, runs', approvals', activeRun')
    BY <2>1, <1>4 DEF ApprovalFits, Context, RunsInv
  <2>3. \A r \in Runs : PendingOf(r, approvals') = PendingOf(r, approvals)
    BY <1>1, <2>1 DEF PendingOf
  <2>4. \A r \in Runs : RunFits(runs'[r], r, approvals', activeRun', closed')
    BY <1>4, <2>3 DEF Context, RunsInv, RunFits
  <2>5. RunsInv'
    BY <2>2, <2>4 DEF RunsInv, RunFits, CancelFits, ApprovalFits, PendingOf
  <2>6. RunsKept
    BY <1>1, <1>4, <2>1, <2>5 DEF RunsKept, RunsMove, Moved
  <2>7. ConnectionKept
    BY <1>4, ConnectionRests
  <2>8. pump' \in {"running", "ended"}
    BY <1>2 DEF Context, Typed, TypeOK
  <2> QED BY <1>2, <2>6, <2>7, <2>8, EndKeeps
<1> QED BY <1>3, <1>4 DEF RequestPermission

LEMMA RespondKeeps ==
  ASSUME Context, NEW a \in Approvals, Respond(a)
  PROVE  OpenClawInv' /\ RunsMove
<1>1. /\ approvals[a] \in ApprovalRec /\ approvals \in [Approvals -> ApprovalRec] /\ runs \in [Runs -> RunRec]
      /\ approvals[a].state = "pending" /\ ApprovalFits(a, runs, approvals, activeRun)
  BY DEF Context, Typed, Respond, RunsInv
<1>2. UNCHANGED <<sessionVars, pump>>
  BY DEF Respond
<1>3. PICK r \in Runs : r = activeRun /\ approvals[a].run = r
  BY <1>1 DEF ApprovalFits
<1>4. runs[r] \in RunRec /\ runs[r].phase = "active" /\ RunFits(runs[r], r, approvals, activeRun, closed)
  BY <1>3 DEF Context, Typed, RunsInv
<1>5. /\ IsFiniteSet(PendingOf(r, approvals)) /\ runs[r].queued < MaxRunEvents /\ ~runs[r].overflow
      /\ runs[r].requested = runs[r].resolved \cup PendingOf(r, approvals)
  BY <1>4, PendingFinite
<1>6. a \in PendingOf(r, approvals) /\ IsFiniteSet({a})
  BY <1>1, <1>3, FS_Singleton DEF PendingOf
<1>7. PICK new : new = Resolve(runs[r], {a})
  OBVIOUS
<1>8. /\ new \in RunRec /\ new.queued < MaxRunEvents
      /\ new.phase = "active" /\ new.session = runs[r].session /\ new.prompt = runs[r].prompt
      /\ new.cancel = runs[r].cancel /\ new.requested = runs[r].requested
      /\ new.overflow => Space(new) = 0
      /\ \E fit \in SUBSET {a} : /\ new.resolved = runs[r].resolved \cup fit
                                 /\ fit # {a} => new.overflow
  <2>1. PICK run, A : run = runs[r] /\ A = {a}
    OBVIOUS
  <2>2. run \in RunRec /\ run.phase = "active" /\ run.queued < MaxRunEvents /\ ~run.overflow
        /\ A \in SUBSET Approvals /\ IsFiniteSet(A) /\ new = Resolve(run, A)
    BY <1>4, <1>5, <1>6, <1>7, <2>1
  <2>3. /\ new \in RunRec /\ new.queued < MaxRunEvents
        /\ new.phase = "active" /\ new.session = run.session /\ new.prompt = run.prompt /\ new.cancel = run.cancel
        /\ new.requested = run.requested /\ new.tail = run.tail /\ (run.overflow => new.overflow)
        /\ new.overflow /\ ~run.overflow => Space(new) = 0
    BY <2>2, ResolveFacts
  <2>4. PICK fit \in SUBSET A : /\ new.resolved = run.resolved \cup fit
                                /\ fit # A => new.overflow
                                /\ Space(run) = 0 => fit = {}
    BY <2>2, ResolveFacts
  <2> QED BY <2>1, <2>2, <2>3, <2>4
<1>9. PICK app : app = [approvals[a] EXCEPT !.state = "selected"]
  OBVIOUS
<1>10. PICK apps : apps = [approvals EXCEPT ![a] = app]
  OBVIOUS
<1>11. app \in ApprovalRec /\ apps[a] = app /\ app.state = "selected" /\ app.told = approvals[a].told /\ app.run = r
  BY <1>1, <1>3, <1>9, <1>10 DEF ApprovalRec
<1>12. PendingOf(r, apps) = PendingOf(r, approvals) \ {a}
  BY <1>1, <1>10, <1>11 DEF PendingOf
<1>13. IsFiniteSet(PendingOf(r, apps))
  BY <1>5, <1>12, FS_Subset
<1>14. runs[r].resolved \subseteq new.resolved /\ new.resolved \subseteq new.requested /\ (a \in new.resolved \/ new.overflow)
  BY <1>5, <1>6, <1>8
<1>15. ~new.overflow => new.requested = new.resolved \cup PendingOf(r, apps)
  BY <1>5, <1>6, <1>8, <1>12
<1>16. Fits(new)
  BY <1>4, <1>8, <1>14 DEF RunFits, Fits
<1>17. ApprovalFits(a, [runs EXCEPT ![r] = new], apps, activeRun)
  <2>1. PICK now : now = [runs EXCEPT ![r] = new]
    OBVIOUS
  <2>2. now[r] = new /\ \A q \in Runs : now[q].session = runs[q].session /\ now[q].cancel = runs[q].cancel
    BY <1>1, <1>8, <2>1
  <2>3. ApprovalFits(a, now, apps, activeRun)
    BY <1>1, <1>3, <1>11, <1>14, <2>2 DEF ApprovalFits
  <2> QED BY <2>1, <2>3
<1>18. AbortIfFull([runs EXCEPT ![r] = new], apps, r)
  BY <1>9, <1>10, <1>3, <1>7 DEF Respond
<1>19. runs[r].requested \subseteq new.requested
  BY <1>8
<1> QED BY <1>2, <1>4, <1>8, <1>10, <1>11, <1>13, <1>14, <1>15, <1>16, <1>17, <1>18, <1>19, EmittingKeeps

-------------------------------------------------------------------------------
(* The result of a prompt. *)
LEMMA FinishRunKeeps ==
  ASSUME Context, NEW r \in Runs, runs[r].prompt \in {"waiting", "refused"}, NEW status \in Terminals \ {"connection_aborted"},
         FinishRun(r, status)
  PROVE  RunsKept /\ ConnectionKept
<1>1. /\ runs[r] \in RunRec /\ RunFits(runs[r], r, approvals, activeRun, closed) /\ runs \in [Runs -> RunRec]
      /\ approvals \in [Approvals -> ApprovalRec] /\ \A a \in Approvals : ApprovalFits(a, runs, approvals, activeRun)
  BY DEF Context, Typed, RunsInv
<1>2. PICK mid : mid = [runs[r] EXCEPT !.prompt = "settled"]
  OBVIOUS
<1>3. /\ mid \in RunRec /\ mid.prompt = "settled" /\ mid.cancel = runs[r].cancel
      /\ mid.phase = runs[r].phase /\ mid.session = runs[r].session /\ mid.queued = runs[r].queued
      /\ mid.waiting = runs[r].waiting /\ mid.overflow = runs[r].overflow
      /\ mid.requested = runs[r].requested /\ mid.resolved = runs[r].resolved
  BY <1>1, <1>2 DEF RunRec
<1>4. PICK new : new = Finish(mid, status)
  OBVIOUS
<1>5. PICK now : now = [runs EXCEPT ![r] = new]
  OBVIOUS
<1>6. PICK apps : apps = SettleApprovals(r, approvals)
  OBVIOUS
<1>7. PICK full : full = (now[r].overflow /\ ~runs[r].overflow /\ ~closed)
  OBVIOUS
<1>8. /\ activeRun' = (IF activeRun = r THEN NoRun ELSE activeRun) /\ closed' = (closed \/ full)
      /\ runs' = (IF full THEN Lost(now) ELSE now) /\ approvals' = (IF full THEN Released(apps) ELSE apps)
      /\ IF full THEN EndAcp("closed") ELSE UNCHANGED acpVars
  BY <1>2, <1>4, <1>5, <1>6, <1>7 DEF FinishRun
<1>9. runs[r].phase # "none"
  BY <1>1 DEF RunFits, Fits
<1>10. CASE runs[r].phase = "active"
  <2>1. /\ r = activeRun /\ runs[r].queued < MaxRunEvents /\ ~closed /\ ~runs[r].overflow /\ runs[r].cancel \notin CancelModes
        /\ runs[r].requested = runs[r].resolved \cup PendingOf(r, approvals)
    BY <1>10, PendingFinite
  <2>2. /\ new \in RunRec /\ new.phase \in {status, "connection_aborted"}
        /\ new.session = mid.session /\ new.prompt = mid.prompt /\ new.cancel = mid.cancel
        /\ new.requested = mid.requested /\ new.resolved = mid.resolved
        /\ new.phase # status => new.overflow
    BY <1>3, <1>4, <1>10, <2>1, FinishFacts
  <2>3. now[r] = new /\ (\A q \in Runs \ {r} : now[q] = runs[q]) /\ now \in [Runs -> RunRec]
    BY <1>1, <1>5, <2>2
  <2>4. full <=> new.overflow
    BY <1>7, <2>1, <2>3
  <2>5. activeRun' = NoRun /\ (closed' <=> new.overflow) /\ closed' \in BOOLEAN
    BY <1>7, <1>8, <2>1, <2>4
  <2>6. Fits(new)
    BY <1>1, <1>3, <1>9, <2>2 DEF RunFits, Fits, Terminals
  <2>7. RunFits(new, r, approvals', activeRun', closed')
    BY <1>3, <2>1, <2>2, <2>5, <2>6, NullAssumption DEF RunFits, CancelFits, CancelModes, Accounted, Terminals
  <2>8. ASSUME NEW q \in Runs \ {r}
        PROVE  RunFits(runs[q], q, approvals', activeRun', closed') /\ runs[q].prompt # "waiting"
    BY <2>1, <2>5, NullAssumption DEF Context, RunsInv, RunFits, CancelFits
  <2>9. runs' = now
    BY <1>3, <2>2, <2>3, <2>8, <1>8 DEF Lost
  <2>10. GoesOn(runs[r], new) /\ Moved(runs[r], new)
    BY <1>3, <1>10, <2>1, <2>2 DEF GoesOn, Moved, Terminals
  <2>11. \A a \in Approvals : ApprovalFits(a, now, approvals, activeRun)
    BY <1>5, <2>10, ApprovalsGoOn
  <2>12. apps \in [Approvals -> ApprovalRec] /\ \A a \in Approvals : ApprovalFits(a, now, apps, NoRun)
    BY <1>1, <1>6, <2>1, <2>11, SettledFits
  <2>13. approvals' \in [Approvals -> ApprovalRec] /\ \A a \in Approvals : ApprovalFits(a, now, approvals', NoRun)
    BY <2>12, ReleasedFits, <1>8
  <2>14. \A a \in Approvals : ApprovalFits(a, runs', approvals', activeRun')
    BY <2>5, <2>9, <2>13
  <2>15. RunsKept
    BY <1>5, <2>7, <2>8, <2>9, <2>10, <2>13, <2>14, OneRunKept
  <2>16. ConnectionKept
    <3>1. sent \in 0..MaxEvents /\ acp \in {"open", "failed", "incompatible", "closed"} /\ Len(events) <= sent
          /\ events \in Seq([session : Ids \cup {NoId}, part : Parts \cup {"other"}])
      BY DEF Context, Typed, TypeOK
    <3>2. CASE full
      BY <1>8, <3>2, <3>1, <2>1, <2>5 DEF EndAcp, ConnectionKept, ChannelKept
    <3>3. CASE ~full
      BY <1>8, <2>4, <2>5, <3>3, <2>1, <3>1 DEF acpVars, ConnectionKept, ChannelKept
    <3> QED BY <3>2, <3>3
  <2> QED BY <2>15, <2>16
<1>11. CASE runs[r].phase # "active"
  <2>1. new = mid
    BY <1>3, <1>4, <1>11 DEF Finish
  <2>2. now[r] = mid
    BY <1>1, <1>5, <2>1
  <2>3. ~full /\ activeRun # r
    BY <1>1, <1>3, <1>7, <1>11, <2>2 DEF RunFits
  <2>4. apps = approvals
    BY <1>1, <2>3, <1>6 DEF PendingOf, ApprovalFits, SettleApprovals
  <2>5. UNCHANGED <<closed, activeRun, approvals, acpVars>> /\ runs' = [runs EXCEPT ![r] = mid]
    BY <1>8, <2>3, <1>5, <2>1, <2>4 DEF Context, Typed, TypeOK
  <2>6. Fits(mid)
    BY <1>1, <1>3, <1>9 DEF RunFits, Fits
  <2>7. RunFits(mid, r, approvals, activeRun, closed)
    BY <1>1, <1>3, <1>11, <2>6 DEF RunFits, CancelFits, Accounted
  <2>8. Moved(runs[r], mid) /\ GoesOn(runs[r], mid)
    BY <1>3 DEF Moved, GoesOn
  <2>9. RunsKept /\ \A q \in Runs : runs'[q].session = runs[q].session
    BY <2>5, <2>7, <2>8, RunGoesOn
  <2>10. activeRun' \in {activeRun, NoRun} /\ (activeRun' # NoRun => runs'[activeRun].session = runs[activeRun].session)
    BY <2>5, <2>9 DEF Context, Typed, TypeOK
  <2> QED BY <2>5, <2>9, <2>10, ConnectionRests
<1> QED BY <1>10, <1>11

LEMMA PromptKeeps ==
  ASSUME Context, NEW r \in Runs, PromptRefused(r) \/ \E status \in {"completed", "cancelled", "failed"} : PromptAnswered(r, status)
  PROVE  OpenClawInv' /\ RunsMove
<1>1. PICK status \in Terminals \ {"connection_aborted"} : FinishRun(r, status)
  BY DEF PromptRefused, PromptAnswered, Terminals
<1>2. /\ runs[r].prompt \in {"waiting", "refused"} /\ UNCHANGED sessionVars /\ pump' \in {"running", "ended"}
  BY DEF PromptRefused, PromptAnswered, Context, Typed, TypeOK
<1>3. RunsKept /\ ConnectionKept
  BY <1>1, <1>2, FinishRunKeeps
<1> QED BY <1>2, <1>3, EndKeeps

-------------------------------------------------------------------------------
(* Steps that neither emit nor end a Run. *)
LEMMA StartRunKeeps ==
  ASSUME Context, NEW r \in Runs, NEW c \in Calls, StartRun(r, c)
  PROVE  OpenClawInv' /\ RunsMove
<1>1. /\ runs[r] \in RunRec /\ RunFits(runs[r], r, approvals, activeRun, closed) /\ runs \in [Runs -> RunRec]
      /\ runs[r].phase = "none" /\ handles[c] = "open" /\ ~closed /\ ~forking /\ activeRun = NoRun /\ activeRun' = r
      /\ approvals \in [Approvals -> ApprovalRec] /\ calls[c].id \in Ids /\ acp = "open"
      /\ UNCHANGED <<closed, sessionVars, approvals, pump, acpVars>>
  BY DEF Context, Typed, TypeOK, RunsInv, StartRun, IsOpen, CallInv, Live
<1>2. PICK prompt : prompt = IF Cancelling(calls[c].id) THEN "refused" ELSE "waiting"
  OBVIOUS
<1>3. PICK mid : mid = [runs[r] EXCEPT !.phase = "active", !.session = calls[c].id, !.prompt = prompt]
  OBVIOUS
<1>4. /\ mid \in RunRec /\ mid.phase = "active" /\ mid.session = calls[c].id /\ mid.prompt = prompt
      /\ mid.cancel = "none" /\ mid.queued = 0 /\ ~mid.waiting /\ ~mid.overflow /\ mid.requested = {} /\ mid.resolved = {}
  BY <1>1, <1>2, <1>3 DEF RunRec, RunFits, Fits
<1>5. Space(mid) > 0 /\ mid.queued < MaxRunEvents
  BY <1>4, CapacityAssumption DEF Space
<1>6. PICK new : new = Emit(mid)
  OBVIOUS
<1>7. /\ new \in RunRec /\ new.queued < MaxRunEvents
      /\ new.phase = "active" /\ new.session = mid.session /\ new.prompt = mid.prompt /\ new.cancel = mid.cancel
      /\ new.requested = mid.requested /\ new.resolved = mid.resolved
      /\ new.overflow /\ ~mid.overflow => Space(mid) = 0
  BY <1>4, <1>5, <1>6, EmitFacts
<1>8. runs' = [runs EXCEPT ![r] = new]
  BY <1>2, <1>3, <1>6 DEF StartRun
<1>9. ~new.overflow
  BY <1>4, <1>5, <1>7
<1>10. Fits(new)
  BY <1>1, <1>2, <1>4, <1>7 DEF RunFits, Fits
<1>11. \A q \in Runs : PendingOf(q, approvals) = {}
  BY <1>1, NullAssumption DEF Context, RunsInv, ApprovalFits, PendingOf
<1>12. RunFits(new, r, approvals', activeRun', closed')
  BY <1>1, <1>2, <1>4, <1>7, <1>9, <1>10, <1>11 DEF RunFits, CancelFits
<1>13. \A q \in Runs \ {r} : RunFits(runs[q], q, approvals', activeRun', closed')
  BY <1>1, NullAssumption DEF Context, RunsInv, RunFits, CancelFits
<1>14. ASSUME NEW a \in Approvals PROVE ApprovalFits(a, runs', approvals', activeRun')
  BY <1>1, <1>8, NullAssumption DEF Context, RunsInv, ApprovalFits, RunFits, Fits
<1>15. Moved(runs[r], new)
  BY <1>1, <1>4, <1>7 DEF Moved, RunFits, Fits
<1>16. RunsKept
  BY <1>1, <1>8, <1>12, <1>13, <1>14, <1>15, OneRunKept
<1>17. ChannelKept
  BY <1>1 DEF ChannelKept, Context, Typed, TypeOK, EndInv, acpVars
<1>18. SessionsKept
  <2>1. /\ sessions' = sessions /\ reservations' = reservations /\ forking' = forking /\ calls' = calls
        /\ handles' = handles /\ closed' = closed /\ acp' = acp
    BY <1>1 DEF sessionVars, acpVars
  <2>2. \A id : HasActiveRun(id)' => id = calls[c].id
    BY <1>1, <1>4, <1>7, <1>8 DEF HasActiveRun
  <2>3. \A d \in Calls : handles[d] = "closing" => calls[d].id # calls[c].id
    BY <1>1 DEF Context, HolderInv, Live
  <2>4. CallInv'
    BY <2>1, <2>2, <2>3 DEF Context, CallInv, Live, HasActiveRun
  <2>5. HolderInv' /\ EndInv'
    BY <1>1, <2>1 DEF Context, HolderInv, EndInv, Live
  <2> QED BY <2>1, <2>4, <2>5 DEF SessionsKept, Context, Typed, TypeOK
<1>19. pump' \in {"running", "ended"}
  BY <1>1 DEF Context, Typed, TypeOK
<1> QED BY <1>1, <1>16, <1>17, <1>18, <1>19, Assembled

(* A Run goes on, and nothing else changes. *)
LEMMA AloneKeeps ==
  ASSUME Context, NEW r \in Runs, NEW new, runs' = [runs EXCEPT ![r] = new],
         UNCHANGED <<closed, activeRun, approvals, acpVars, sessionVars, pump>>,
         RunFits(new, r, approvals, activeRun, closed), Moved(runs[r], new), GoesOn(runs[r], new)
  PROVE  OpenClawInv' /\ RunsMove
<1>1. RunsKept /\ \A q \in Runs : runs'[q].session = runs[q].session
  BY RunGoesOn
<1>2. activeRun' \in {activeRun, NoRun} /\ (activeRun' # NoRun => runs'[activeRun].session = runs[activeRun].session)
  BY <1>1 DEF Context, Typed, TypeOK
<1>3. ConnectionKept
  BY <1>2, ConnectionRests
<1>4. pump' \in {"running", "ended"}
  BY DEF Context, Typed, TypeOK
<1> QED BY <1>1, <1>3, <1>4, EndKeeps

LEMMA ReadEventKeeps ==
  ASSUME Context, NEW r \in Runs, ReadEvent(r)
  PROVE  OpenClawInv' /\ RunsMove
<1>1. /\ runs[r] \in RunRec /\ RunFits(runs[r], r, approvals, activeRun, closed) /\ runs[r].phase = "active"
      /\ runs \in [Runs -> RunRec]
  BY DEF Context, Typed, RunsInv, ReadEvent
<1>2. PICK q, w : q = (IF runs[r].queued > 0 THEN runs[r].queued - 1 ELSE 0) /\ w = (runs[r].queued = 0)
  OBVIOUS
<1>3. runs[r].queued \in 0..MaxRunEvents /\ runs[r].queued < MaxRunEvents
  BY <1>1 DEF RunRec, RunFits, Fits
<1>4. q \in 0..MaxRunEvents /\ q < MaxRunEvents /\ w \in BOOLEAN
  BY <1>2, <1>3, CapacityAssumption
<1>5. PICK new : new = [runs[r] EXCEPT !.queued = q, !.waiting = w]
  OBVIOUS
<1>6. /\ new \in RunRec /\ new.queued = q /\ new.phase = runs[r].phase /\ new.session = runs[r].session
      /\ new.prompt = runs[r].prompt /\ new.cancel = runs[r].cancel /\ new.overflow = runs[r].overflow
      /\ new.requested = runs[r].requested /\ new.resolved = runs[r].resolved
  BY <1>1, <1>4, <1>5 DEF RunRec
<1>7. runs' = [runs EXCEPT ![r] = new]
  BY <1>1, <1>2, <1>5 DEF ReadEvent
<1>8. Fits(new)
  BY <1>1, <1>4, <1>6 DEF RunFits, Fits
<1>9. RunFits(new, r, approvals, activeRun, closed)
  BY <1>1, <1>6, <1>8 DEF RunFits, CancelFits, Accounted
<1>10. Moved(runs[r], new) /\ GoesOn(runs[r], new)
  BY <1>6 DEF Moved, GoesOn
<1>11. UNCHANGED <<closed, activeRun, approvals, acpVars, sessionVars, pump>>
  BY DEF ReadEvent
<1> QED BY <1>7, <1>9, <1>10, <1>11, AloneKeeps

LEMMA CancelledRun ==
  ASSUME Context, NEW r \in Runs, runs[r].phase # "none",
         NEW mode \in {"none", "sending", "settling"} \cup CancelModes, NEW new, new = [runs[r] EXCEPT !.cancel = mode],
         mode = "native" => runs[r].phase = "cancelled", mode = "already_terminal" => runs[r].phase \in {"completed", "failed"},
         mode = "connection_aborted" => runs[r].phase = "connection_aborted", mode # "none"
  PROVE  RunFits(new, r, approvals, activeRun, closed) /\ Moved(runs[r], new) /\ GoesOn(runs[r], new)
<1>1. runs[r] \in RunRec /\ RunFits(runs[r], r, approvals, activeRun, closed)
  BY DEF Context, Typed, RunsInv
<1>2. /\ new \in RunRec /\ new.phase = runs[r].phase /\ new.session = runs[r].session /\ new.queued = runs[r].queued
      /\ new.prompt = runs[r].prompt /\ new.cancel = mode /\ new.overflow = runs[r].overflow
      /\ new.requested = runs[r].requested /\ new.resolved = runs[r].resolved
  BY <1>1 DEF RunRec
<1>3. Fits(new)
  BY <1>1, <1>2 DEF RunFits, Fits
<1>4. CancelFits(new, closed)
  BY <1>1, <1>2 DEF RunFits, CancelFits, Terminals
<1>5. RunFits(new, r, approvals, activeRun, closed)
  BY <1>1, <1>2, <1>3, <1>4 DEF RunFits, Accounted
<1> QED BY <1>2, <1>5 DEF Moved, GoesOn

LEMMA CancelStepKeeps ==
  ASSUME Context, NEW r \in Runs, CancelSent(r) \/ CancelSettles(r)
  PROVE  OpenClawInv' /\ RunsMove
<1>1. runs[r] \in RunRec /\ Fits(runs[r])
  BY DEF Context, Typed, RunsInv, RunFits
<1>2. UNCHANGED <<closed, activeRun, approvals, acpVars, sessionVars, pump>> /\ runs[r].phase # "none"
  BY <1>1 DEF CancelSent, CancelSettles, Fits
<1>3. PICK mode : \/ mode = "settling" /\ CancelSent(r)
                  \/ mode = ModeOf(runs[r].phase) /\ CancelSettles(r)
  OBVIOUS
<1>4. /\ mode \in {"none", "sending", "settling"} \cup CancelModes /\ mode # "none"
      /\ mode = "native" => runs[r].phase = "cancelled"
      /\ mode = "already_terminal" => runs[r].phase \in {"completed", "failed"}
      /\ mode = "connection_aborted" => runs[r].phase = "connection_aborted"
  BY <1>3 DEF ModeOf, CancelModes, CancelSettles, Terminal, Terminals
<1>5. PICK new : new = [runs[r] EXCEPT !.cancel = mode]
  OBVIOUS
<1>6. RunFits(new, r, approvals, activeRun, closed) /\ Moved(runs[r], new) /\ GoesOn(runs[r], new)
  BY <1>2, <1>4, <1>5, CancelledRun
<1>7. runs' = [runs EXCEPT ![r] = new]
  BY <1>3, <1>5 DEF CancelSent, CancelSettles
<1> QED BY <1>2, <1>6, <1>7, AloneKeeps

LEMMA SamePending ==
  ASSUME NEW run, NEW r, NEW apps, NEW later, NEW active, NEW over, RunFits(run, r, apps, active, over),
         PendingOf(r, later) = PendingOf(r, apps)
  PROVE  RunFits(run, r, later, active, over)
BY DEF RunFits

LEMMA CancelKeeps ==
  ASSUME Context, NEW r \in Runs, Cancel(r)
  PROVE  OpenClawInv' /\ RunsMove
<1>1. /\ runs \in [Runs -> RunRec] /\ approvals \in [Approvals -> ApprovalRec] /\ runs[r] \in RunRec
      /\ runs[r].phase = "active" /\ UNCHANGED <<closed, sessionVars, activeRun, pump, acpVars>>
      /\ approvals' = (IF acp = "open" THEN AnswerAsked(r) ELSE approvals)
  BY DEF Context, Typed, Cancel
<1>2. PICK new : new = [runs[r] EXCEPT !.cancel = "sending"]
  OBVIOUS
<1>3. RunFits(new, r, approvals, activeRun, closed) /\ Moved(runs[r], new) /\ GoesOn(runs[r], new)
  BY <1>1, <1>2, CancelledRun DEF CancelModes
<1>4. runs' = [runs EXCEPT ![r] = new]
  BY <1>2 DEF Cancel
<1>5. /\ runs'[r] = new /\ new.session = runs[r].session /\ new.cancel = "sending"
      /\ \A q \in Runs \ {r} : runs'[q] = runs[q]
  BY <1>1, <1>2, <1>4 DEF RunRec
<1>6. \A a \in Approvals : ApprovalFits(a, runs', approvals, activeRun)
  BY <1>3, <1>4, ApprovalsGoOn
<1>7. ASSUME NEW a \in Approvals
      PROVE  /\ approvals'[a] \in ApprovalRec /\ approvals'[a].state = approvals[a].state
             /\ approvals'[a].run = approvals[a].run /\ ApprovalFits(a, runs', approvals', activeRun)
  BY <1>1, <1>6, <1>5 DEF AnswerAsked, ApprovalRec, ApprovalFits
<1>8. approvals' \in [Approvals -> ApprovalRec]
  BY <1>1, <1>7 DEF AnswerAsked
<1>9. \A q \in Runs : PendingOf(q, approvals') = PendingOf(q, approvals)
  BY <1>7 DEF PendingOf
<1>10. RunFits(new, r, approvals', activeRun', closed')
  BY <1>1, <1>3, <1>9, SamePending
<1>11. \A q \in Runs \ {r} : RunFits(runs[q], q, approvals', activeRun', closed')
  BY <1>1, <1>9, SamePending DEF Context, RunsInv
<1>12. \A a \in Approvals : ApprovalFits(a, runs', approvals', activeRun')
  BY <1>1, <1>7
<1>13. RunsKept
  BY <1>3, <1>4, <1>8, <1>10, <1>11, <1>12, OneRunKept
<1>14. \A q \in Runs : runs'[q].session = runs[q].session
  BY <1>5
<1>15. activeRun' \in {activeRun, NoRun} /\ (activeRun' # NoRun => runs'[activeRun].session = runs[activeRun].session)
  BY <1>1, <1>14 DEF Context, Typed, TypeOK
<1>16. ConnectionKept
  BY <1>1, <1>15, ConnectionRests
<1>17. pump' \in {"running", "ended"}
  BY <1>1 DEF Context, Typed, TypeOK
<1> QED BY <1>1, <1>13, <1>16, <1>17, EndKeeps

LEMMA PermissionAnsweredKeeps ==
  ASSUME Context, NEW a \in Approvals, PermissionAnswered(a)
  PROVE  OpenClawInv' /\ RunsMove
<1>1. /\ approvals \in [Approvals -> ApprovalRec] /\ approvals[a] \in ApprovalRec /\ ApprovalFits(a, runs, approvals, activeRun)
      /\ approvals[a].state \in {"selected", "cancelled"}
      /\ approvals' = [approvals EXCEPT ![a].told = approvals[a].state]
      /\ UNCHANGED <<closed, sessionVars, activeRun, runs, pump, acpVars>>
  BY DEF Context, Typed, RunsInv, PermissionAnswered
<1>2. /\ approvals' \in [Approvals -> ApprovalRec] /\ approvals'[a].state = approvals[a].state
      /\ approvals'[a].run = approvals[a].run /\ approvals'[a].told = approvals[a].state
      /\ \A b \in Approvals : b # a => approvals'[b] = approvals[b]
  BY <1>1 DEF ApprovalRec
<1>3. \A b \in Approvals : ApprovalFits(b, runs', approvals', activeRun')
  BY <1>1, <1>2 DEF ApprovalFits, Context, RunsInv
<1>4. \A r \in Runs : PendingOf(r, approvals') = PendingOf(r, approvals)
  BY <1>2 DEF PendingOf
<1>5. \A r \in Runs : RunFits(runs'[r], r, approvals', activeRun', closed')
  BY <1>1, <1>4, SamePending DEF Context, RunsInv
<1>6. RunsInv'
  BY <1>3, <1>5 DEF RunsInv, RunFits, CancelFits, ApprovalFits, PendingOf
<1>7. RunsKept
  BY <1>1, <1>2, <1>6 DEF RunsKept, RunsMove, Moved, Context, Typed
<1>8. ConnectionKept
  BY <1>1, ConnectionRests
<1>9. pump' \in {"running", "ended"}
  BY <1>1 DEF Context, Typed, TypeOK
<1> QED BY <1>1, <1>7, <1>8, <1>9, EndKeeps

LEMMA AcpFailsKeeps ==
  ASSUME Context, NEW how \in {"failed", "incompatible"}, AcpFails(how)
  PROVE  OpenClawInv' /\ RunsMove
<1>1. /\ runs \in [Runs -> RunRec] /\ approvals \in [Approvals -> ApprovalRec]
      /\ \A a \in Approvals : ApprovalFits(a, runs, approvals, activeRun)
      /\ acp' = how /\ events' = <<>> /\ sent' = sent /\ runs' = Lost(runs) /\ approvals' = Released(approvals)
      /\ UNCHANGED <<closed, sessionVars, activeRun, pump>>
  BY DEF Context, Typed, RunsInv, AcpFails, EndAcp
<1>2. ASSUME NEW r \in Runs
      PROVE  /\ RunFits(runs'[r], r, approvals, activeRun, closed) /\ Moved(runs[r], runs'[r])
             /\ GoesOn(runs[r], runs'[r]) /\ runs'[r] \in RunRec
  <2>1. runs[r] \in RunRec /\ RunFits(runs[r], r, approvals, activeRun, closed)
    BY <1>1 DEF Context, RunsInv
  <2>2. runs'[r] = Forsaken(runs[r])
    BY <1>1 DEF Lost, Forsaken
  <2>3. PICK new : new = runs'[r]
    OBVIOUS
  <2>4. /\ new \in RunRec /\ new.phase = runs[r].phase /\ new.session = runs[r].session /\ new.queued = runs[r].queued
        /\ new.waiting = runs[r].waiting /\ new.cancel = runs[r].cancel /\ new.overflow = runs[r].overflow
        /\ new.requested = runs[r].requested /\ new.resolved = runs[r].resolved
        /\ new.prompt = (IF runs[r].prompt = "waiting" THEN "lost" ELSE runs[r].prompt)
    BY <2>1, <2>2, <2>3 DEF RunRec, Forsaken
  <2>5. Fits(new)
    BY <2>1, <2>4 DEF RunFits, Fits
  <2>6. RunFits(new, r, approvals, activeRun, closed)
    BY <2>1, <2>4, <2>5 DEF RunFits, CancelFits, Accounted
  <2>7. Moved(runs[r], new) /\ GoesOn(runs[r], new)
    BY <2>4 DEF Moved, GoesOn
  <2> QED BY <2>3, <2>4, <2>6, <2>7
<1>3. runs' \in [Runs -> RunRec]
  BY <1>1, <1>2 DEF Lost
<1>4. \A a \in Approvals : ApprovalFits(a, runs', approvals, activeRun)
  BY <1>1, <1>2, ApprovalStays
<1>5. /\ approvals' \in [Approvals -> ApprovalRec]
      /\ \A a \in Approvals : ApprovalFits(a, runs', approvals', activeRun)
      /\ \A r : PendingOf(r, approvals') = PendingOf(r, approvals)
  BY <1>1, <1>4, ReleasedFits
<1>6. \A r \in Runs : RunFits(runs'[r], r, approvals', activeRun, closed)
  BY <1>2, <1>5, SamePending
<1>7. RunsInv'
  BY <1>1, <1>5, <1>6 DEF RunsInv, RunFits, CancelFits, ApprovalFits, PendingOf
<1>8. RunsKept
  BY <1>2, <1>3, <1>5, <1>7 DEF RunsKept, RunsMove
<1>9. ConnectionKept
  <2>1. sent \in 0..MaxEvents /\ closed \in BOOLEAN /\ activeRun \in Runs \cup {NoRun}
    BY DEF Context, Typed, TypeOK
  <2>2. events' \in Seq([session : Ids \cup {NoId}, part : Parts \cup {"other"}]) /\ Len(events') <= sent'
    BY <1>1, <2>1
  <2>3. activeRun' # NoRun => runs'[activeRun].session = runs[activeRun].session
    BY <1>1, <1>2, <2>1 DEF GoesOn
  <2> QED BY <1>1, <2>1, <2>2, <2>3 DEF ConnectionKept, ChannelKept
<1>10. pump' \in {"running", "ended"}
  BY <1>1 DEF Context, Typed, TypeOK
<1> QED BY <1>1, <1>8, <1>9, <1>10, EndKeeps

LEMMA AgentSendsKeeps ==
  ASSUME Context, NEW id \in Ids \cup {NoId}, NEW part \in Parts \cup {"other"},
         AgentSends([session |-> id, part |-> part])
  PROVE  OpenClawInv' /\ RunsMove
<1>1. PICK e \in [session : Ids \cup {NoId}, part : Parts \cup {"other"}] : AgentSends(e)
  OBVIOUS
<1>2. /\ events \in Seq([session : Ids \cup {NoId}, part : Parts \cup {"other"}]) /\ Len(events) <= sent
      /\ sent \in 0..MaxEvents /\ sent < MaxEvents /\ events' = Append(events, e) /\ sent' = sent + 1
      /\ UNCHANGED <<closed, sessionVars, activeRun, runs, approvals, pump, acp>>
  BY <1>1 DEF AgentSends, Context, Typed, TypeOK
<1>3. /\ events' \in Seq([session : Ids \cup {NoId}, part : Parts \cup {"other"}]) /\ Len(events') <= sent'
      /\ sent' \in 0..MaxEvents
  BY <1>2, BoundAssumption
<1>4. ConnectionKept
  BY <1>2, <1>3 DEF ConnectionKept, ChannelKept, Context, Typed, TypeOK, EndInv
<1>5. RunsKept
  BY <1>2, RunsRest
<1>6. pump' \in {"running", "ended"}
  BY <1>2 DEF Context, Typed, TypeOK
<1> QED BY <1>2, <1>4, <1>5, <1>6, EndKeeps

-------------------------------------------------------------------------------
(* Sessions and forks. *)

(* A step that changes nothing of the Runs or the connection. *)
LEMMA SessionStep ==
  ASSUME Context, UNCHANGED <<closed, activeRun, runs, approvals, pump, acpVars>>, SessionsKept
  PROVE  OpenClawInv' /\ RunsMove
<1>1. RunsKept
  BY RunsRest
<1>2. activeRun' \in {activeRun, NoRun} /\ (activeRun' # NoRun => runs'[activeRun].session = runs[activeRun].session)
  BY DEF Context, Typed, TypeOK
<1>3. ConnectionKept
  BY <1>2, ConnectionRests
<1>4. activeRun' \in Runs \cup {NoRun} /\ ChannelKept /\ pump' \in {"running", "ended"}
  BY <1>3 DEF Context, Typed, TypeOK, ConnectionKept
<1> QED BY <1>1, <1>4, Assembled

CallTypes == [id : Ids \cup {NoId}, at : Forking \cup
                {"idle", "creating session", "resuming", "done", "failed", "uncertain"}]

LEMMA SessionTypes ==
  ASSUME Context
  PROVE  /\ sessions \subseteq Ids /\ reservations \subseteq Ids /\ forking \in BOOLEAN
         /\ calls \in [Calls -> CallTypes] /\ (\A c \in Calls : calls[c] \in CallTypes)
         /\ handles \in [Calls -> {"none", "open", "closing", "unsafe", "closed"}] /\ CallInv /\ HolderInv /\ EndInv
BY DEF Context, Typed, TypeOK, CallTypes

(* One call and its handle. *)
CallFits(call, handle, sess, resv) ==
  /\ handle # "none" <=> call.at = "done"
  /\ call.at \in {"done", "resuming"} => call.id \in Ids
  /\ call.at \in {"idle", "creating session"} => call.id = NoId
  /\ call.at = "resuming" => call.id \in resv \ sess
  /\ handle \in {"open", "closing"} => call.id \in sess
  /\ handle = "closing" => call.id \in resv

(* What the other calls hold, and `rec` with its handle `h` does not. *)
Undisturbed(c, rec, h) ==
  \A d \in Calls \ {c} :
    /\ calls[d].at = "resuming" => calls[d].id \in reservations' \ sessions'
    /\ Live(d) => calls[d].id \in sessions'
    /\ handles[d] = "closing" => calls[d].id \in reservations'
    /\ h \in {"open", "closing"} /\ Live(d) => calls[d].id # rec.id
    /\ rec.at = "resuming" /\ calls[d].at = "resuming" => calls[d].id # rec.id

LEMMA OneCall ==
  ASSUME Context, NEW c \in Calls, NEW rec \in CallTypes, NEW h \in {"none", "open", "closing", "unsafe", "closed"},
         calls' = [calls EXCEPT ![c] = rec], handles' = [handles EXCEPT ![c] = h], CallFits(rec, h, sessions', reservations'),
         sessions' \subseteq Ids, reservations' \subseteq Ids, forking' \in BOOLEAN,
         h = "closing" => ~HasActiveRun(rec.id), \A id : HasActiveRun(id)' => HasActiveRun(id),
         Undisturbed(c, rec, h),
         forking' => activeRun' = NoRun /\ reservations' = {}, closed' => acp' # "open",
         rec.at = "uncertain" => closed', h = "unsafe" => closed' \/ acp' # "open",
         closed => closed', acp # "open" => acp' # "open"
  PROVE  SessionsKept
<1>1. /\ calls \in [Calls -> CallTypes] /\ handles \in [Calls -> {"none", "open", "closing", "unsafe", "closed"}]
      /\ CallInv /\ HolderInv /\ EndInv
  BY SessionTypes
<1>2. /\ calls' \in [Calls -> CallTypes] /\ handles' \in [Calls -> {"none", "open", "closing", "unsafe", "closed"}]
      /\ calls'[c] = rec /\ handles'[c] = h
      /\ \A d \in Calls \ {c} : calls'[d] = calls[d] /\ handles'[d] = handles[d]
  BY <1>1
<1>3. ASSUME NEW d \in Calls
      PROVE  /\ CallFits(calls'[d], handles'[d], sessions', reservations')
             /\ handles'[d] = "closing" => ~HasActiveRun(calls'[d].id)
  BY <1>2, <1>1 DEF CallInv, CallFits, Live, Undisturbed
<1>4. CallInv'
  BY <1>3 DEF CallInv, CallFits, Live
<1>5. HolderInv'
  BY <1>1, <1>2 DEF HolderInv, Live, Undisturbed
<1>6. EndInv'
  BY <1>1, <1>2 DEF EndInv
<1> QED BY <1>2, <1>4, <1>5, <1>6 DEF SessionsKept, CallTypes

(* A call or its handle changes, and the Runs and the connection do not. *)
LEMMA OneCallStep ==
  ASSUME Context, UNCHANGED <<closed, activeRun, runs, approvals, pump, acpVars>>,
         NEW c \in Calls, NEW rec \in CallTypes, NEW h \in {"none", "open", "closing", "unsafe", "closed"},
         calls' = [calls EXCEPT ![c] = rec], handles' = [handles EXCEPT ![c] = h], CallFits(rec, h, sessions', reservations'),
         sessions' \subseteq Ids, reservations' \subseteq Ids, forking' \in BOOLEAN,
         h = "closing" => ~HasActiveRun(rec.id),
         Undisturbed(c, rec, h),
         forking' => activeRun = NoRun /\ reservations' = {}, rec.at # "uncertain", h = "unsafe" => closed \/ acp # "open"
  PROVE  OpenClawInv' /\ RunsMove
<1>1. /\ closed' = closed /\ acp' = acp /\ activeRun' = activeRun /\ runs' = runs
  BY DEF acpVars
<1>2. \A id : HasActiveRun(id)' => HasActiveRun(id)
  BY <1>1 DEF HasActiveRun
<1>3. closed' => acp' # "open"
  BY <1>1 DEF Context, EndInv
<1>4. forking' => activeRun' = NoRun /\ reservations' = {}
  BY <1>1
<1>5. /\ rec.at = "uncertain" => closed'
      /\ h = "unsafe" => closed' \/ acp' # "open"
      /\ closed => closed'
      /\ acp # "open" => acp' # "open"
  BY <1>1
<1>6. SessionsKept
  BY <1>2, <1>3, <1>4, <1>5, OneCall
<1> QED BY <1>6, SessionStep

(* What the others hold of what is not taken from them. *)
LEMMA OthersHold ==
  ASSUME Context, NEW c \in Calls, NEW d \in Calls \ {c}
  PROVE  /\ calls[d].at = "resuming" => calls[d].id \in reservations \ sessions
         /\ Live(d) => calls[d].id \in sessions
         /\ handles[d] = "closing" => calls[d].id \in reservations
         /\ Live(c) /\ Live(d) => calls[d].id # calls[c].id
         /\ calls[c].at = "resuming" /\ calls[d].at = "resuming" => calls[d].id # calls[c].id
BY DEF Context, CallInv, HolderInv

LEMMA CreateSessionKeeps ==
  ASSUME Context, NEW c \in Calls, CreateSession(c) \/ ForkProceeds(c)
  PROVE  OpenClawInv' /\ RunsMove
<1>1. UNCHANGED <<closed, activeRun, runs, approvals, pump, acpVars>> /\ UNCHANGED <<sessions, reservations, forking, handles>>
  BY DEF CreateSession, ForkProceeds
<1>2. /\ sessions \subseteq Ids /\ reservations \subseteq Ids /\ forking \in BOOLEAN
      /\ calls \in [Calls -> CallTypes] /\ calls[c] \in CallTypes
      /\ handles \in [Calls -> {"none", "open", "closing", "unsafe", "closed"}] /\ CallInv /\ EndInv
  BY SessionTypes
<1>3. PICK at : \/ at = "creating session" /\ CreateSession(c)
                \/ at = (IF calls[c].at = "listing" THEN "creating" ELSE "attaching") /\ ForkProceeds(c)
  OBVIOUS
<1>4. PICK rec : rec = [calls[c] EXCEPT !.at = at]
  OBVIOUS
<1>5. calls' = [calls EXCEPT ![c] = rec]
  BY <1>2, <1>3, <1>4 DEF CreateSession, ForkProceeds
<1>6. rec \in CallTypes /\ rec.at = at /\ rec.id = calls[c].id /\ at \in Forking \cup {"creating session"}
  BY <1>2, <1>3, <1>4 DEF CallTypes, Forking
<1>7. calls[c].at \in Forking \cup {"idle"} /\ (at = "creating session" => calls[c].at = "idle")
  BY <1>3 DEF CreateSession, ForkProceeds, Forking
<1>8. handles[c] = "none" /\ (calls[c].at = "idle" => calls[c].id = NoId)
  BY <1>2, <1>7 DEF CallInv, Forking
<1>9. CallFits(rec, "none", sessions, reservations)
  BY <1>6, <1>7, <1>8 DEF CallFits, Forking
<1>10. handles' = [handles EXCEPT ![c] = "none"]
  BY <1>1, <1>2, <1>8
<1>11. Undisturbed(c, rec, "none")
  BY <1>1, <1>6, OthersHold DEF Forking, Undisturbed
<1>12. forking' => activeRun = NoRun /\ reservations' = {}
  BY <1>1, <1>2 DEF EndInv
<1>13. rec.at # "uncertain"
  BY <1>6 DEF Forking
<1>14. CallFits(rec, "none", sessions', reservations') /\ sessions' \subseteq Ids /\ reservations' \subseteq Ids /\ forking' \in BOOLEAN
  BY <1>1, <1>2, <1>9
<1> QED BY <1>1, <1>5, <1>6, <1>10, <1>11, <1>12, <1>13, <1>14, OneCallStep

(* A call returns an open handle of an identifier nobody else holds. *)
LEMMA ReturnKeeps ==
  ASSUME Context, UNCHANGED <<closed, activeRun, runs, approvals, pump, acpVars>>, NEW c \in Calls, NEW id \in Ids,
         Return(c, id), id \notin sessions, reservations' = reservations \ {id},
         (calls[c].at = "resuming" /\ calls[c].id = id) \/ id \notin reservations,
         forking' \in {forking, FALSE}
  PROVE  OpenClawInv' /\ RunsMove
<1>1. /\ sessions \subseteq Ids /\ reservations \subseteq Ids /\ forking \in BOOLEAN /\ EndInv
  BY SessionTypes
<1>2. PICK rec : rec = [id |-> id, at |-> "done"]
  OBVIOUS
<1>3. rec \in CallTypes /\ rec.id = id /\ rec.at = "done"
  BY <1>2 DEF CallTypes
<1>4. /\ calls' = [calls EXCEPT ![c] = rec] /\ handles' = [handles EXCEPT ![c] = "open"] /\ sessions' = sessions \cup {id}
  BY <1>2 DEF Return
<1>5. CallFits(rec, "open", sessions', reservations')
  BY <1>3, <1>4 DEF CallFits
<1>6. Undisturbed(c, rec, "open")
  <2> SUFFICES ASSUME NEW d \in Calls \ {c}
               PROVE  /\ calls[d].at = "resuming" => calls[d].id \in reservations' \ sessions'
                      /\ Live(d) => calls[d].id \in sessions'
                      /\ handles[d] = "closing" => calls[d].id \in reservations'
                      /\ Live(d) => calls[d].id # rec.id
                      /\ rec.at = "resuming" /\ calls[d].at = "resuming" => calls[d].id # rec.id
    BY DEF Undisturbed
  <2>1. /\ calls[d].at = "resuming" => calls[d].id \in reservations \ sessions
        /\ Live(d) => calls[d].id \in sessions
        /\ handles[d] = "closing" => calls[d].id \in reservations
        /\ calls[c].at = "resuming" /\ calls[d].at = "resuming" => calls[d].id # calls[c].id
    BY OthersHold
  <2>2. calls[d].at = "resuming" => calls[d].id # id
    BY <2>1
  <2> QED BY <1>3, <1>4, <2>1, <2>2 DEF Live
<1>7. forking' => activeRun = NoRun /\ reservations' = {}
  BY <1>1 DEF EndInv
<1>8. sessions' \subseteq Ids /\ reservations' \subseteq Ids /\ forking' \in BOOLEAN
  BY <1>1, <1>4
<1> QED BY <1>3, <1>4, <1>5, <1>6, <1>7, <1>8, OneCallStep

LEMMA SessionCreatedKeeps ==
  ASSUME Context, NEW c \in Calls, NEW id \in Ids, SessionCreated(c, id) \/ ForkAttached(c, id)
  PROVE  OpenClawInv' /\ RunsMove
<1>1. /\ sessions \subseteq Ids /\ reservations \subseteq Ids /\ forking \in BOOLEAN /\ EndInv /\ CallInv
      /\ calls \in [Calls -> CallTypes] /\ calls[c] \in CallTypes
      /\ handles \in [Calls -> {"none", "open", "closing", "unsafe", "closed"}]
  BY SessionTypes
<1>2. UNCHANGED <<closed, activeRun, runs, approvals, pump, acpVars>> /\ reservations' = reservations
  BY DEF SessionCreated, ForkAttached
<1>3. CASE Return(c, id) /\ Reusable(id) /\ forking' \in {forking, FALSE}
  BY <1>3, <1>2, ReturnKeeps DEF Reusable
<1>4. CASE /\ calls[c].at = "creating session" /\ calls' = [calls EXCEPT ![c].at = "failed"]
           /\ UNCHANGED <<handles, sessions, forking>>
  <2>1. PICK rec : rec = [calls[c] EXCEPT !.at = "failed"]
    OBVIOUS
  <2>2. rec \in CallTypes /\ rec.at = "failed" /\ rec.id = calls[c].id /\ calls' = [calls EXCEPT ![c] = rec]
    BY <1>1, <1>4, <2>1 DEF CallTypes
  <2>3. handles[c] = "none"
    BY <1>1, <1>4 DEF CallInv
  <2>4. CallFits(rec, "none", sessions', reservations')
    BY <2>2 DEF CallFits
  <2>5. handles' = [handles EXCEPT ![c] = "none"]
    BY <1>1, <1>4, <2>3
  <2>6. Undisturbed(c, rec, "none")
    BY <1>2, <1>4, <2>2, OthersHold DEF Undisturbed
  <2>7. forking' => activeRun = NoRun /\ reservations' = {}
    BY <1>1, <1>2, <1>4 DEF EndInv
  <2>8. sessions' \subseteq Ids /\ reservations' \subseteq Ids /\ forking' \in BOOLEAN
    BY <1>1, <1>2, <1>4
  <2> QED BY <1>2, <2>2, <2>4, <2>5, <2>6, <2>7, <2>8, OneCallStep
<1> QED BY <1>3, <1>4 DEF SessionCreated, ForkAttached

LEMMA SessionResumedKeeps ==
  ASSUME Context, NEW c \in Calls, SessionResumed(c)
  PROVE  OpenClawInv' /\ RunsMove
<1>1. PICK id : id = calls[c].id
  OBVIOUS
<1>2. id \in Ids /\ id \notin sessions
  BY <1>1, SessionTypes DEF SessionResumed, CallInv
<1>3. /\ UNCHANGED <<closed, activeRun, runs, approvals, pump, acpVars>> /\ forking' \in {forking, FALSE}
      /\ Return(c, id) /\ reservations' = reservations \ {id} /\ calls[c].at = "resuming"
  BY <1>1 DEF SessionResumed
<1> QED BY <1>1, <1>2, <1>3, ReturnKeeps

LEMMA ResumeSessionKeeps ==
  ASSUME Context, NEW c \in Calls, NEW id \in Ids, ResumeSession(c, id) \/ Fork(c, id)
  PROVE  OpenClawInv' /\ RunsMove
<1>1. /\ sessions \subseteq Ids /\ reservations \subseteq Ids /\ forking \in BOOLEAN /\ EndInv /\ CallInv
      /\ calls \in [Calls -> CallTypes]
      /\ handles \in [Calls -> {"none", "open", "closing", "unsafe", "closed"}]
  BY SessionTypes
<1>2. /\ UNCHANGED <<closed, activeRun, runs, approvals, pump, acpVars>> /\ UNCHANGED <<sessions, handles>>
      /\ calls[c].at = "idle" /\ ~forking
  BY DEF ResumeSession, Fork
<1>3. PICK at : \/ /\ at = "resuming" /\ Reusable(id) /\ reservations' = reservations \cup {id} /\ forking' = FALSE
                   /\ calls' = [calls EXCEPT ![c] = [id |-> id, at |-> at]]
                \/ /\ at = "listing" /\ activeRun = NoRun /\ reservations = {} /\ reservations' = reservations /\ forking' = TRUE
                   /\ calls' = [calls EXCEPT ![c] = [id |-> id, at |-> at]]
  BY <1>2 DEF ResumeSession, Fork
<1>4. PICK rec : rec = [id |-> id, at |-> at]
  OBVIOUS
<1>5. rec \in CallTypes /\ rec.at = at /\ rec.id = id /\ calls' = [calls EXCEPT ![c] = rec]
  BY <1>3, <1>4 DEF CallTypes, Forking
<1>6. handles[c] = "none"
  BY <1>1, <1>2 DEF CallInv
<1>7. handles' = [handles EXCEPT ![c] = "none"]
  BY <1>1, <1>2, <1>6
<1>8. CallFits(rec, "none", sessions', reservations')
  BY <1>2, <1>3, <1>5 DEF CallFits, Reusable
<1>9. Undisturbed(c, rec, "none")
  <2> SUFFICES ASSUME NEW d \in Calls \ {c}
               PROVE  /\ calls[d].at = "resuming" => calls[d].id \in reservations' \ sessions'
                      /\ Live(d) => calls[d].id \in sessions'
                      /\ handles[d] = "closing" => calls[d].id \in reservations'
                      /\ rec.at = "resuming" /\ calls[d].at = "resuming" => calls[d].id # rec.id
    BY DEF Undisturbed
  <2>1. /\ calls[d].at = "resuming" => calls[d].id \in reservations \ sessions
        /\ Live(d) => calls[d].id \in sessions
        /\ handles[d] = "closing" => calls[d].id \in reservations
    BY OthersHold
  <2> QED BY <1>2, <1>3, <1>5, <2>1 DEF Reusable
<1>10. forking' => activeRun = NoRun /\ reservations' = {}
  BY <1>3
<1>11. sessions' \subseteq Ids /\ reservations' \subseteq Ids /\ forking' \in BOOLEAN
  BY <1>1, <1>2, <1>3
<1>12. rec.at # "uncertain"
  BY <1>3, <1>5
<1> QED BY <1>2, <1>5, <1>7, <1>8, <1>9, <1>10, <1>11, <1>12, OneCallStep

(* A call that created or resumed gives its identifier back. *)
LEMMA GivenBack ==
  ASSUME Context, NEW c \in Calls, calls[c].at \in {"creating session", "resuming"}, NEW rec, rec.at \notin {"resuming"},
         sessions' = sessions, reservations' = reservations \ {calls[c].id}
  PROVE  Undisturbed(c, rec, "none")
<1> SUFFICES ASSUME NEW d \in Calls \ {c}
             PROVE  /\ calls[d].at = "resuming" => calls[d].id \in reservations' \ sessions'
                    /\ Live(d) => calls[d].id \in sessions'
                    /\ handles[d] = "closing" => calls[d].id \in reservations'
  BY DEF Undisturbed
<1>1. /\ calls[d].at = "resuming" => calls[d].id \in reservations \ sessions
      /\ Live(d) => calls[d].id \in sessions
      /\ handles[d] = "closing" => calls[d].id \in reservations
      /\ calls[c].at = "resuming" /\ calls[d].at = "resuming" => calls[d].id # calls[c].id
  BY OthersHold
<1>2. sessions \subseteq Ids /\ reservations \subseteq Ids /\ CallInv
  BY SessionTypes
<1>3. CASE calls[c].at = "creating session"
  BY <1>2, <1>3, NullAssumption, <1>1 DEF CallInv
<1>4. CASE calls[c].at = "resuming"
  BY <1>2, <1>4, <1>1 DEF CallInv, Live
<1> QED BY <1>3, <1>4

LEMMA SessionRefusedKeeps ==
  ASSUME Context, NEW c \in Calls, SessionRefused(c)
  PROVE  OpenClawInv' /\ RunsMove
<1>1. /\ sessions \subseteq Ids /\ reservations \subseteq Ids /\ forking \in BOOLEAN /\ EndInv /\ CallInv
      /\ calls \in [Calls -> CallTypes] /\ calls[c] \in CallTypes
      /\ handles \in [Calls -> {"none", "open", "closing", "unsafe", "closed"}]
  BY SessionTypes
<1>2. /\ UNCHANGED <<closed, activeRun, runs, approvals, pump, acpVars>> /\ UNCHANGED <<sessions, forking, handles>>
      /\ calls[c].at \in {"creating session", "resuming"} /\ reservations' = reservations \ {calls[c].id}
  BY DEF SessionRefused
<1>3. PICK rec : rec = [calls[c] EXCEPT !.at = "failed"]
  OBVIOUS
<1>4. rec \in CallTypes /\ rec.at = "failed" /\ calls' = [calls EXCEPT ![c] = rec]
  BY <1>1, <1>3 DEF CallTypes, SessionRefused
<1>5. handles[c] = "none"
  BY <1>1, <1>2 DEF CallInv
<1>6. handles' = [handles EXCEPT ![c] = "none"]
  BY <1>1, <1>2, <1>5
<1>7. CallFits(rec, "none", sessions', reservations')
  BY <1>4 DEF CallFits
<1>8. Undisturbed(c, rec, "none")
  BY <1>2, <1>4, GivenBack
<1>9. forking' => activeRun = NoRun /\ reservations' = {}
  BY <1>1, <1>2 DEF EndInv
<1>10. sessions' \subseteq Ids /\ reservations' \subseteq Ids /\ forking' \in BOOLEAN
  BY <1>1, <1>2
<1> QED BY <1>2, <1>4, <1>6, <1>7, <1>8, <1>9, <1>10, OneCallStep

LEMMA CloseSessionKeeps ==
  ASSUME Context, NEW c \in Calls, CloseSession(c) \/ \E ok \in BOOLEAN : SessionClosed(c, ok)
  PROVE  OpenClawInv' /\ RunsMove
<1>1. /\ sessions \subseteq Ids /\ reservations \subseteq Ids /\ forking \in BOOLEAN /\ EndInv /\ CallInv
      /\ calls \in [Calls -> CallTypes] /\ calls[c] \in CallTypes
      /\ handles \in [Calls -> {"none", "open", "closing", "unsafe", "closed"}]
  BY SessionTypes
<1>2. /\ UNCHANGED <<closed, activeRun, runs, approvals, pump, acpVars>> /\ UNCHANGED <<forking, calls>>
      /\ Live(c)
  BY DEF CloseSession, SessionClosed, Live
<1>3. PICK id : id = calls[c].id
  OBVIOUS
<1>4. id \in sessions /\ id \in Ids /\ calls[c].at = "done"
  BY <1>1, <1>2, <1>3 DEF CallInv, Live
<1>5. PICK h : \/ /\ h = "closing" /\ ~HasActiveRun(id) /\ ~forking /\ handles' = [handles EXCEPT ![c] = h]
                  /\ sessions' = sessions /\ reservations' = reservations \cup {id}
               \/ /\ h = "unsafe" /\ ~IsOpen /\ ~forking /\ handles' = [handles EXCEPT ![c] = h]
                  /\ sessions' = sessions /\ reservations' = reservations
               \/ /\ h = "closed" /\ handles' = [handles EXCEPT ![c] = h]
                  /\ sessions' = sessions \ {id} /\ reservations' = reservations \ {id}
               \/ /\ h = "open" /\ handles' = [handles EXCEPT ![c] = h]
                  /\ sessions' = sessions /\ reservations' = reservations \ {id}
  BY <1>3, <1>4 DEF CloseSession, SessionClosed
<1>6. calls' = [calls EXCEPT ![c] = calls[c]]
  BY <1>1, <1>2
<1>7. CallFits(calls[c], h, sessions', reservations')
  BY <1>3, <1>4, <1>5 DEF CallFits
<1>8. Undisturbed(c, calls[c], h)
  <2> SUFFICES ASSUME NEW d \in Calls \ {c}
               PROVE  /\ calls[d].at = "resuming" => calls[d].id \in reservations' \ sessions'
                      /\ Live(d) => calls[d].id \in sessions'
                      /\ handles[d] = "closing" => calls[d].id \in reservations'
                      /\ Live(d) => calls[d].id # id
    BY <1>3, <1>4 DEF Undisturbed
  <2>1. /\ calls[d].at = "resuming" => calls[d].id \in reservations \ sessions
        /\ Live(d) => calls[d].id \in sessions
        /\ handles[d] = "closing" => calls[d].id \in reservations
        /\ Live(d) => calls[d].id # id
    BY <1>2, <1>3, OthersHold
  <2>2. handles[d] = "closing" => Live(d)
    BY DEF Live
  <2> QED BY <1>4, <1>5, <2>1, <2>2
<1>9. forking' => activeRun = NoRun /\ reservations' = {}
  BY <1>1, <1>2, <1>5 DEF EndInv
<1>10. sessions' \subseteq Ids /\ reservations' \subseteq Ids /\ forking' \in BOOLEAN
  BY <1>1, <1>2, <1>4, <1>5
<1>11. /\ h \in {"none", "open", "closing", "unsafe", "closed"} /\ handles' = [handles EXCEPT ![c] = h]
       /\ h = "closing" => ~HasActiveRun(calls[c].id)
       /\ h = "unsafe" => closed \/ acp # "open"
       /\ calls[c].at # "uncertain"
  BY <1>3, <1>4, <1>5 DEF IsOpen
<1> QED BY <1>1, <1>2, <1>6, <1>7, <1>8, <1>9, <1>10, <1>11, OneCallStep

(* A call or its handle changes as the connection is aborted. *)
LEMMA OneCallAborts ==
  ASSUME Context, Abort(runs, approvals), pump' = pump,
         NEW c \in Calls, NEW rec \in CallTypes, NEW h \in {"none", "unsafe"},
         calls' = [calls EXCEPT ![c] = rec], handles' = [handles EXCEPT ![c] = h], CallFits(rec, h, sessions', reservations'),
         sessions' = sessions, reservations' \subseteq reservations, forking' \in {forking, FALSE}, rec.at # "resuming",
         Undisturbed(c, rec, h)
  PROVE  OpenClawInv' /\ RunsMove
<1>1. RunsKept /\ ConnectionKept /\ closed'
  BY PlannedAsIs, AbortKeeps
<1>2. ChannelKept /\ activeRun' \in {activeRun, NoRun}
  BY <1>1 DEF ConnectionKept
<1>3. \A id : HasActiveRun(id)' => HasActiveRun(id)
  BY <1>1 DEF ConnectionKept, HasActiveRun
<1>4. sessions \subseteq Ids /\ reservations \subseteq Ids /\ forking \in BOOLEAN /\ EndInv
  BY SessionTypes
<1>5. sessions' \subseteq Ids /\ reservations' \subseteq Ids /\ forking' \in BOOLEAN
  BY <1>4
<1>6. forking' => activeRun' = NoRun /\ reservations' = {}
  BY <1>2, <1>4 DEF EndInv
<1>7. /\ closed' => acp' # "open"
      /\ closed => closed'
      /\ acp # "open" => acp' # "open"
      /\ rec.at = "uncertain" => closed'
      /\ h = "unsafe" => closed' \/ acp' # "open"
      /\ h = "closing" => ~HasActiveRun(rec.id)
      /\ h \in {"none", "open", "closing", "unsafe", "closed"}
  BY <1>1, <1>2 DEF ChannelKept
<1>8. SessionsKept
  BY <1>3, <1>5, <1>6, <1>7, OneCall
<1>9. activeRun' \in Runs \cup {NoRun} /\ pump' \in {"running", "ended"}
  BY <1>2 DEF Context, Typed, TypeOK
<1> QED BY <1>1, <1>2, <1>8, <1>9, Assembled

LEMMA UncertainKeeps ==
  ASSUME Context, NEW c \in Calls, SessionUncertain(c)
  PROVE  OpenClawInv' /\ RunsMove
<1>1. /\ sessions \subseteq Ids /\ reservations \subseteq Ids /\ CallInv
      /\ calls \in [Calls -> CallTypes] /\ calls[c] \in CallTypes
      /\ handles \in [Calls -> {"none", "open", "closing", "unsafe", "closed"}]
  BY SessionTypes
<1>2. /\ Abort(runs, approvals) /\ pump' = pump /\ sessions' = sessions /\ forking' = forking /\ handles' = handles
      /\ calls[c].at \in {"creating session", "resuming"} /\ reservations' = reservations \ {calls[c].id}
  BY DEF SessionUncertain
<1>3. PICK rec : rec = [calls[c] EXCEPT !.at = "uncertain"]
  OBVIOUS
<1>4. rec \in CallTypes /\ rec.at = "uncertain" /\ calls' = [calls EXCEPT ![c] = rec]
  BY <1>1, <1>3 DEF CallTypes, SessionUncertain
<1>5. handles[c] = "none"
  BY <1>1, <1>2 DEF CallInv
<1>6. handles' = [handles EXCEPT ![c] = "none"]
  BY <1>1, <1>2, <1>5
<1>7. CallFits(rec, "none", sessions', reservations')
  BY <1>4 DEF CallFits
<1>8. Undisturbed(c, rec, "none")
  BY <1>2, <1>4, GivenBack
<1>9. reservations' \subseteq reservations /\ forking' \in {forking, FALSE} /\ rec.at # "resuming"
  BY <1>2, <1>4
<1> QED BY <1>2, <1>4, <1>6, <1>7, <1>8, <1>9, OneCallAborts

LEMMA CloseUncertainKeeps ==
  ASSUME Context, NEW c \in Calls, CloseUncertain(c)
  PROVE  OpenClawInv' /\ RunsMove
<1>1. /\ CallInv /\ calls \in [Calls -> CallTypes] /\ calls[c] \in CallTypes
      /\ handles \in [Calls -> {"none", "open", "closing", "unsafe", "closed"}]
  BY SessionTypes
<1>2. /\ Abort(runs, approvals) /\ pump' = pump /\ sessions' = sessions /\ forking' = forking
      /\ calls' = calls /\ handles[c] = "closing" /\ handles' = [handles EXCEPT ![c] = "unsafe"]
      /\ reservations' = reservations \ {calls[c].id}
  BY DEF CloseUncertain
<1>3. Live(c) /\ calls[c].at = "done" /\ calls[c].id \in sessions /\ calls[c].id \in Ids
  BY <1>1, <1>2 DEF CallInv, Live
<1>4. calls' = [calls EXCEPT ![c] = calls[c]]
  BY <1>1, <1>2
<1>5. CallFits(calls[c], "unsafe", sessions', reservations')
  BY <1>3 DEF CallFits
<1>6. Undisturbed(c, calls[c], "unsafe")
  <2> SUFFICES ASSUME NEW d \in Calls \ {c}
               PROVE  /\ calls[d].at = "resuming" => calls[d].id \in reservations' \ sessions'
                      /\ Live(d) => calls[d].id \in sessions'
                      /\ handles[d] = "closing" => calls[d].id \in reservations'
    BY <1>3 DEF Undisturbed
  <2>1. /\ calls[d].at = "resuming" => calls[d].id \in reservations \ sessions
        /\ Live(d) => calls[d].id \in sessions /\ calls[d].id # calls[c].id
        /\ handles[d] = "closing" => calls[d].id \in reservations
    BY <1>3, OthersHold
  <2>2. handles[d] = "closing" => Live(d)
    BY DEF Live
  <2> QED BY <1>2, <1>3, <2>1, <2>2
<1>7. reservations' \subseteq reservations /\ forking' \in {forking, FALSE} /\ calls[c].at # "resuming"
  BY <1>2, <1>3
<1> QED BY <1>1, <1>2, <1>4, <1>5, <1>6, <1>7, OneCallAborts

LEMMA ForkFailsKeeps ==
  ASSUME Context, NEW c \in Calls, ForkFails(c)
  PROVE  OpenClawInv' /\ RunsMove
<1>1. /\ sessions \subseteq Ids /\ reservations \subseteq Ids /\ CallInv
      /\ calls \in [Calls -> CallTypes] /\ calls[c] \in CallTypes
      /\ handles \in [Calls -> {"none", "open", "closing", "unsafe", "closed"}]
  BY SessionTypes
<1>2. /\ calls[c].at \in Forking /\ forking' = FALSE /\ sessions' = sessions /\ reservations' = reservations
      /\ handles' = handles /\ pump' = pump
  BY DEF ForkFails
<1>3. PICK at : \/ /\ at = "failed" /\ calls' = [calls EXCEPT ![c].at = at]
                   /\ UNCHANGED <<closed, activeRun, runs, approvals, acpVars>>
                \/ at = "uncertain" /\ calls' = [calls EXCEPT ![c].at = at] /\ Abort(runs, approvals)
  BY DEF ForkFails
<1>4. PICK rec : rec = [calls[c] EXCEPT !.at = at]
  OBVIOUS
<1>5. rec \in CallTypes /\ rec.at = at /\ at \in {"failed", "uncertain"} /\ calls' = [calls EXCEPT ![c] = rec]
  BY <1>1, <1>3, <1>4 DEF CallTypes
<1>6. handles[c] = "none"
  BY <1>1, <1>2 DEF CallInv, Forking
<1>7. handles' = [handles EXCEPT ![c] = "none"]
  BY <1>1, <1>2, <1>6
<1>8. CallFits(rec, "none", sessions', reservations')
  BY <1>5 DEF CallFits
<1>9. Undisturbed(c, rec, "none")
  BY <1>2, <1>5, OthersHold DEF Undisturbed
<1>10. CASE at = "failed"
  BY <1>2, <1>3, <1>10, <1>1, <1>5, <1>7, <1>8, <1>9, OneCallStep
<1>11. CASE at = "uncertain"
  BY <1>3, <1>11, <1>2, <1>5, <1>7, <1>8, <1>9, OneCallAborts
<1> QED BY <1>5, <1>10, <1>11

-------------------------------------------------------------------------------
(* The invariant. *)
LEMMA OpenClawInitHolds == Init => OpenClawInv
<1> SUFFICES ASSUME Init PROVE OpenClawInv
  OBVIOUS
<1>1. \A r \in Runs :
        runs[r] = [phase |-> "none", session |-> NoId, prompt |-> "none", cancel |-> "none", queued |-> 0,
                   waiting |-> FALSE, tail |-> {}, overflow |-> FALSE, requested |-> {}, resolved |-> {}]
  BY DEF Init
<1>2. ASSUME NEW r \in Runs PROVE runs[r] \in RunRec
  <2>1. 0 \in 0..MaxRunEvents
    BY CapacityAssumption
  <2>2. {} \in SUBSET Parts /\ {} \in SUBSET Approvals
    OBVIOUS
  <2>3. /\ "none" \in {"none", "active"} \cup Terminals
        /\ "none" \in {"none", "sending", "settling"} \cup CancelModes
    OBVIOUS
  <2> DEFINE new == [phase |-> "none", session |-> NoId, prompt |-> "none", cancel |-> "none", queued |-> 0,
                     waiting |-> FALSE, tail |-> {}, overflow |-> FALSE, requested |-> {}, resolved |-> {}]
  <2>4. new \in RunRec
    BY <2>1, <2>2, <2>3 DEF RunRec
  <2>5. runs[r] = new
    BY <1>1
  <2> QED BY <2>4, <2>5
<1>3. ASSUME NEW a \in Approvals
      PROVE  approvals[a] \in ApprovalRec /\ approvals[a].state = "none" /\ approvals[a].told = "none"
  BY DEF Init, ApprovalRec
<1>4. runs \in [Runs -> RunRec]
  BY <1>2 DEF Init
<1>5. approvals \in [Approvals -> ApprovalRec]
  BY <1>3 DEF Init
<1>6. events \in Seq([session : Ids \cup {NoId}, part : Parts \cup {"other"}]) /\ sent \in 0..MaxEvents /\ Len(events) <= sent
  BY BoundAssumption DEF Init
<1>7. /\ calls \in [Calls -> [id : Ids \cup {NoId}, at : Forking \cup
                      {"idle", "creating session", "resuming", "done", "failed", "uncertain"}]]
      /\ handles \in [Calls -> {"none", "open", "closing", "unsafe", "closed"}]
      /\ \A c \in Calls : calls[c].id = NoId /\ calls[c].at = "idle" /\ handles[c] = "none"
  BY DEF Init
<1>8. TypeOK
  BY <1>2, <1>3, <1>6, <1>7 DEF Init, TypeOK, RunRec, ApprovalRec
<1>9. Typed
  BY <1>4, <1>5, <1>8 DEF Typed
<1>10. CallInv /\ HolderInv /\ EndInv
  BY <1>7 DEF Init, CallInv, HolderInv, EndInv, Live
<1>11. IsFiniteSet({})
  BY FS_EmptySet
<1>12. ASSUME NEW r \in Runs PROVE RunFits(runs[r], r, approvals, activeRun, closed)
  BY <1>1, <1>2, <1>11, NullAssumption DEF Fits, Init, RunFits, CancelFits
<1>13. \A a \in Approvals : ApprovalFits(a, runs, approvals, activeRun)
  BY <1>3 DEF ApprovalFits
<1> QED BY <1>9, <1>10, <1>12, <1>13 DEF OpenClawInv, RunsInv

LEMMA OpenClawInvStep == OpenClawInv /\ [Next]_vars => OpenClawInv' /\ RunsMove
<1> SUFFICES ASSUME Context, [Next]_vars PROVE OpenClawInv' /\ RunsMove
  BY InContext
<1>1. CASE UNCHANGED vars
  BY <1>1, ConnectionRests, SessionsRest, SessionStep DEF vars, Context, Typed, TypeOK
<1>2. CASE Close \/ PumpEnds \/ PumpEvent
  BY <1>2, CloseKeeps, PumpEventKeeps
<1>3. ASSUME NEW how \in {"failed", "incompatible"}, AcpFails(how) PROVE OpenClawInv' /\ RunsMove
  BY <1>3, AcpFailsKeeps
<1>4. ASSUME NEW c \in Calls,
             \/ CreateSession(c) \/ SessionResumed(c) \/ SessionRefused(c) \/ SessionUncertain(c)
             \/ CloseSession(c) \/ CloseUncertain(c) \/ ForkProceeds(c) \/ ForkFails(c)
             \/ \E ok \in BOOLEAN : SessionClosed(c, ok)
      PROVE  OpenClawInv' /\ RunsMove
  BY <1>4, CreateSessionKeeps, SessionResumedKeeps, SessionRefusedKeeps, UncertainKeeps, CloseSessionKeeps,
     CloseUncertainKeeps, ForkFailsKeeps
<1>5. ASSUME NEW c \in Calls, NEW id \in Ids,
             SessionCreated(c, id) \/ ResumeSession(c, id) \/ Fork(c, id) \/ ForkAttached(c, id)
      PROVE  OpenClawInv' /\ RunsMove
  BY <1>5, SessionCreatedKeeps, ResumeSessionKeeps
<1>6. ASSUME NEW c \in Calls, NEW r \in Runs, StartRun(r, c) PROVE OpenClawInv' /\ RunsMove
  BY <1>6, StartRunKeeps
<1>7. ASSUME NEW r \in Runs,
             \/ PromptRefused(r) \/ PromptUncertain(r) \/ PromptLost(r) \/ ReadEvent(r)
             \/ Cancel(r) \/ CancelSent(r) \/ CancelNotSent(r) \/ CancelSettles(r) \/ CancelTimesOut(r)
             \/ \E status \in {"completed", "cancelled", "failed"} : PromptAnswered(r, status)
      PROVE  OpenClawInv' /\ RunsMove
  BY <1>7, PromptKeeps, OutcomeKeeps, PromptLostKeeps, ReadEventKeeps, CancelKeeps, CancelStepKeeps
<1>8. ASSUME NEW id \in Ids \cup {NoId}, NEW part \in Parts \cup {"other"}, AgentSends([session |-> id, part |-> part])
      PROVE  OpenClawInv' /\ RunsMove
  BY <1>8, AgentSendsKeeps
<1>9. ASSUME NEW a \in Approvals, Respond(a) \/ PermissionAnswered(a) \/ \E id \in Ids : RequestPermission(a, id)
      PROVE  OpenClawInv' /\ RunsMove
  BY <1>9, RespondKeeps, PermissionAnsweredKeeps, RequestPermissionKeeps
<1> QED BY <1>1, <1>2, <1>3, <1>4, <1>5, <1>6, <1>7, <1>8, <1>9 DEF Next

LEMMA OpenClawInvImplies == OpenClawInv => OpenClawSound
<1> SUFFICES ASSUME Context PROVE OpenClawSound
  BY InContext
<1>1. TypeOK /\ CallInv /\ HolderInv /\ EndInv
  BY DEF Context, Typed
<1>2. OperationsExclude
  BY <1>1 DEF OperationsExclude, CallInv, HolderInv, EndInv
<1>3. NothingUncertainReused
  BY <1>1 DEF Context, RunsInv, NothingUncertainReused, EndInv, RunFits
<1>4. ApprovalsTruthful
  BY DEF Context, RunsInv, ApprovalFits, RunFits, Accounted, ApprovalsTruthful
<1>5. CancelTruthful
  BY DEF Context, RunsInv, RunFits, CancelFits, CancelTruthful, Cancelled, CancelModes, Terminal
<1> QED BY <1>1, <1>2, <1>3, <1>4, <1>5 DEF OpenClawSound

(* However operations, approvals, cancellations and the end of the connection interleave: Sessions,  *)
(* reservations and forks exclude each other, what may still be at work is not used again, and      *)
(* approvals and cancellations are told as they happened.                                           *)
THEOREM OpenClawIsSound == Spec => []OpenClawSound
<1>1. OpenClawInv /\ [Next]_vars => OpenClawInv'
  BY OpenClawInvStep
<1> QED BY <1>1, OpenClawInitHolds, OpenClawInvImplies, PTL DEF Spec

-------------------------------------------------------------------------------
(* The contract. *)
LEMMA OpenClawRefines ==
  ASSUME OpenClawInv, OpenClawInv', RunsMove
  PROVE  Contract!Next
<1>1. ASSUME NEW r \in Runs
      PROVE  /\ runs[r] \in RunRec /\ runs'[r] \in RunRec /\ runs'[r].resolved \subseteq runs'[r].requested
  BY DEF OpenClawInv, Typed, RunsInv, RunFits, Fits
<1>2. ASSUME NEW r \in Runs
      PROVE  Contract!RunStep(r)
  <2>1. Moved(runs[r], runs'[r])
    BY DEF RunsMove
  <2>2. CASE /\ runs'[r].phase = runs[r].phase /\ runs'[r].requested = runs[r].requested
             /\ runs'[r].resolved = runs[r].resolved
    BY <2>2 DEF Contract!Rest, Contract!Silent, Contract!RunStep
  <2>3. CASE /\ \/ runs[r].phase = "none" /\ runs'[r].phase = "active"
                \/ runs[r].phase = "active" /\ runs'[r].phase # "none"
             /\ runs[r].requested \subseteq runs'[r].requested /\ runs[r].resolved \subseteq runs'[r].resolved
    BY <1>1, <2>3
       DEF Contract!Reports, RunRec, Terminals, Contract!RunStep, Contract!Start, Contract!Progress, Contract!Settle,
          Contract!RunStatus
  <2> QED BY <2>1, <2>2, <2>3 DEF Moved
<1>3. ASSUME NEW r \in Runs
      PROVE  /\ runs'[r].phase \in {"none", "active"} \cup Terminals
             /\ runs'[r].requested \in SUBSET Approvals /\ runs'[r].resolved \in SUBSET Approvals
  BY <1>1 DEF RunRec
<1> QED BY <1>2, <1>3 DEF Terminals, Contract!Next, Contract!RunStatus

(* A Run starts once, reports approvals and their resolution while it is active, ends once, and says *)
(* nothing after that, also when its queue is full or its connection is given up.                   *)
THEOREM OpenClawImplementsRunContract == Spec => ImplementsRunContract
<1>1. Init => Contract!Init
  BY DEF Init, Contract!Init
<1>2. OpenClawInv /\ OpenClawInv' /\ [Next]_vars => [Contract!Next]_Contract!runVars
  BY OpenClawInvStep, OpenClawRefines
<1>3. OpenClawInv /\ [Next]_vars => OpenClawInv'
  BY OpenClawInvStep
<1> QED BY <1>1, <1>2, <1>3, OpenClawInitHolds, PTL DEF Spec, ImplementsRunContract, Contract!Spec

================================================================================
